------------------------- MODULE PushBindingProofs -------------------------
(***************************************************************************)
(* Type correctness of PushPipeline, for any number of posts, images,      *)
(* remote ids and runs: TypeOK alone is not inductive, the steps use cur,  *)
(* bound and shot as indices, and Located says when they are some.  Then   *)
(* that CivitAI never holds two posts for one local post, that a created   *)
(* post is never lost track of, and that a remote id in use is not         *)
(* dropped, as long as a draft is adopted only by the post it was created  *)
(* for (~MixUps).                                                          *)
(***************************************************************************)
EXTENDS PushInvariants, TLAPS

TypeInv == TypeOK /\ Located

-----------------------------------------------------------------------------
(* The helpers stay within the types. *)

LEMMA StateForType ==
  ASSUME NEW t \in Times
  PROVE  StateFor(t) \in ALL_STATES
  BY DEF StateFor, Times, ALL_STATES, REMOTE_STATES

LEMMA MovedType ==
  ASSUME NEW s \in ALL_STATES, NEW t \in ALL_STATES
  PROVE  Moved(s, t) \in ALL_STATES
  BY DEF Moved

(* A readback of p changes the row of p, within the types. *)
LEMMA SyncedType ==
  ASSUME LocalTypes, NEW p \in Posts, NEW r, NEW t \in Times, Synced(p, r, t)
  PROVE  /\ pubAt' \in [Posts -> Times]
         /\ state' \in [Posts -> ALL_STATES]
         /\ img' \in [Posts -> [Images -> {"new", "staged", "attached"}]]
<1>1. Moved(state[p], StateFor(t)) \in ALL_STATES
  BY StateForType, MovedType DEF LocalTypes
<1>2. Learned(p, r) \in [Images -> {"new", "staged", "attached"}]
  BY DEF LocalTypes, Learned
<1>3. /\ state \in [Posts -> ALL_STATES] /\ pubAt \in [Posts -> Times]
      /\ img \in [Posts -> [Images -> {"new", "staged", "attached"}]]
  BY DEF LocalTypes
<1>4. pubAt' \in [Posts -> Times]
  BY <1>3 DEF Synced
<1>5. state' \in [Posts -> ALL_STATES]
  BY <1>1, <1>3 DEF Synced
<1>6. img' \in [Posts -> [Images -> {"new", "staged", "attached"}]]
  BY <1>2, <1>3 DEF Synced
<1>7. QED
  BY <1>4, <1>5, <1>6

LEMMA MarkedMissingType ==
  ASSUME LocalTypes, NEW p \in Posts, MarkedMissing(p)
  PROVE  /\ pubAt' \in [Posts -> Times]
         /\ state' \in [Posts -> ALL_STATES]
         /\ img' \in [Posts -> [Images -> {"new", "staged", "attached"}]]
<1>1. Moved(state[p], "remote_missing") \in ALL_STATES
  BY MovedType DEF LocalTypes, ALL_STATES
<1>2. QED
  BY <1>1 DEF LocalTypes, MarkedMissing

LEMMA SyncOneType ==
  ASSUME LocalTypes, SiteTypes, NEW p \in Posts, SyncOne(p)
  PROVE  /\ pubAt' \in [Posts -> Times]
         /\ state' \in [Posts -> ALL_STATES]
         /\ img' \in [Posts -> [Images -> {"new", "staged", "attached"}]]
<1>1. CASE UNCHANGED <<state, pubAt, img>>
  BY <1>1 DEF LocalTypes
<1>2. CASE remoteId[p] \in live /\ Synced(p, remoteId[p], siteTime[remoteId[p]])
  <2>1. siteTime[remoteId[p]] \in Times
    BY <1>2 DEF SiteTypes
  <2>2. QED
    BY <1>2, <2>1, SyncedType
<1>3. CASE remoteId[p] \in Remotes \ live /\ MarkedMissing(p)
  BY <1>3, MarkedMissingType
<1>4. QED
  BY <1>1, <1>2, <1>3 DEF SyncOne

(* The two ways the thread leaves a post. *)
LEMMA RestTypes ==
  ASSUME NEW l \in Labels, Rest(l)
  PROVE  ThreadTypes'
  BY DEF Rest, ThreadTypes

LEMMA AbandonTypes ==
  ASSUME ThreadTypes, Abandon
  PROVE  ThreadTypes'
  BY DEF Abandon, ThreadTypes, Labels

LEMMA GotoTypes ==
  ASSUME ThreadTypes, NEW l \in Labels, Goto(l)
  PROVE  ThreadTypes'
  BY DEF Goto, ThreadTypes

(* A group of variables that an action leaves alone keeps its types. *)
LEMMA LocalKept == LocalTypes /\ UNCHANGED local => LocalTypes'
  BY DEF LocalTypes, local

LEMMA TableKept == TableTypes /\ UNCHANGED table => TableTypes'
  BY DEF TableTypes, table

LEMMA ThreadKept == ThreadTypes /\ UNCHANGED thread => ThreadTypes'
  BY DEF ThreadTypes, thread

LEMMA SiteKept == SiteTypes /\ UNCHANGED site => SiteTypes'
  BY DEF SiteTypes, site

LEMMA RequestKept == RequestType /\ UNCHANGED usr => RequestType'
  BY DEF RequestType

(* Writing a tag or a remote id into an item leaves an item. *)
LEMMA ItemTypes ==
  ASSUME TableTypes, NEW p \in Posts, runs \in Runs
  PROVE  /\ \A tag \in 0 .. MaxRuns : WithTag(p, tag) \in [Runs -> [Posts -> Item]]
         /\ \A r \in Remotes \cup {NoRemote} : WithRemote(p, r) \in [Runs -> [Posts -> Item]]
<1>1. item \in [Runs -> [Posts -> Item]]
  BY DEF TableTypes
<1>2. item[runs][p].tag \in 0 .. MaxRuns /\ item[runs][p].remote \in Remotes \cup {NoRemote}
  BY <1>1 DEF Item
<1>3. ASSUME NEW tag \in 0 .. MaxRuns PROVE WithTag(p, tag) \in [Runs -> [Posts -> Item]]
  <2>1. [tag |-> tag, remote |-> item[runs][p].remote] \in Item
    BY <1>2 DEF Item
  <2>2. QED
    BY <1>1, <2>1 DEF WithTag
<1>4. ASSUME NEW r \in Remotes \cup {NoRemote}
      PROVE  WithRemote(p, r) \in [Runs -> [Posts -> Item]]
  <2>1. [tag |-> item[runs][p].tag, remote |-> r] \in Item
    BY <1>2 DEF Item
  <2>2. QED
    BY <1>1, <2>1 DEF WithRemote
<1>5. QED
  BY <1>3, <1>4

-----------------------------------------------------------------------------
LEMMA TypeInit == Init => TypeInv
<1> SUFFICES ASSUME Init PROVE TypeInv
  OBVIOUS
<1>1. LocalTypes
  BY DEF Init, LocalTypes, Times, ALL_STATES, LOCAL_STATES
<1>2. TableTypes
  <2>1. runs \in 0 .. MaxRuns
    BY MaxRunsAssumption DEF Init
  <2>2. NoItem \in Item
    BY MaxRunsAssumption DEF NoItem, Item
  <2>3. QED
    BY <2>1, <2>2 DEF Init, TableTypes, ItemStatus
<1>3. ThreadTypes
  BY DEF Init, ThreadTypes, Labels
<1>4. RequestType
  BY DEF Init, RequestType, IdleUser
<1>5. SiteTypes
  BY MaxRunsAssumption DEF Init, SiteTypes, Times
<1>6. Located
  BY DEF Init, Located, IdleUser, AtWork, OnPost
<1>7. QED
  BY <1>1, <1>2, <1>3, <1>4, <1>5, <1>6 DEF Init, TypeInv, TypeOK

-----------------------------------------------------------------------------
(* A step of the thread from one place of push_one to another keeps the    *)
(* post, the run and the items; what is left to show is that each group    *)
(* stays within its types.                                                 *)
LEMMA WorkStep ==
  ASSUME TypeInv, pc \in AtWork, pc' \in AtWork, cur' = cur,
         UNCHANGED <<mode, usr, runs, status>>,
         LocalTypes', TableTypes', ThreadTypes', SiteTypes',
         pc' \in OnPost => bound' \in Remotes,
         pc' = "attached" => shot' \in Images
  PROVE  TypeInv'
<1>1. Located'
  BY DEF TypeInv, Located, AtWork
<1>2. TypeOK'
  BY RequestKept DEF TypeInv, TypeOK
<1>3. QED
  BY <1>1, <1>2 DEF TypeInv

(* A step of somebody else leaves the thread where it is. *)
LEMMA OtherStep ==
  ASSUME TypeInv, UNCHANGED <<mode, table, thread>>,
         LocalTypes', SiteTypes', RequestType',
         usr'.at # "idle" => usr'.post \in Posts
  PROVE  TypeInv'
<1>1. Located'
  BY DEF TypeInv, Located, table, thread
<1>2. TypeOK'
  BY TableKept, ThreadKept DEF TypeInv, TypeOK
<1>3. QED
  BY <1>1, <1>2 DEF TypeInv

(* The thread gives the post up, with nothing but its place changed. *)
LEMMA GivesUp ==
  ASSUME TypeInv, pc \in AtWork, Abandon, UNCHANGED <<local, table, mode, usr, site>>
  PROVE  TypeInv'
<1>1. LocalTypes' /\ TableTypes' /\ ThreadTypes' /\ SiteTypes'
  BY LocalKept, TableKept, AbandonTypes, SiteKept DEF TypeInv, TypeOK
<1>2. QED
  BY <1>1, WorkStep DEF Abandon, AtWork, OnPost, Labels, table

(* The thread goes on, with nothing but its place changed. *)
LEMMA GoesOn ==
  ASSUME TypeInv, pc \in AtWork, NEW l \in AtWork \ {"attached"}, Goto(l),
         l \in OnPost => bound \in Remotes,
         UNCHANGED <<local, table, mode, usr, site>>
  PROVE  TypeInv'
<1>1. LocalTypes' /\ TableTypes' /\ ThreadTypes' /\ SiteTypes'
  BY LocalKept, TableKept, GotoTypes, SiteKept DEF TypeInv, TypeOK, AtWork
<1>2. QED
  BY <1>1, WorkStep DEF Goto, table

-----------------------------------------------------------------------------
(* push_posts, the crash and the recovery. *)
LEMMA TypeRun ==
  ASSUME TypeInv
  PROVE  /\ \A S \in SUBSET Posts : StartRun(S) => TypeInv'
         /\ \A p \in Posts : TakePost(p) => TypeInv'
         /\ CancelRest => TypeInv'
         /\ FinishRun => TypeInv'
<1>1. ASSUME NEW S \in SUBSET Posts, StartRun(S) PROVE TypeInv'
  <2>1. TableTypes'
    <3>1. runs' \in 0 .. MaxRuns
      BY <1>1, MaxRunsAssumption DEF StartRun, TypeInv, TypeOK, TableTypes
    <3>2. QED
      BY <1>1, <3>1 DEF StartRun, TypeInv, TypeOK, TableTypes, ItemStatus
  <2>2. ThreadTypes' /\ LocalTypes' /\ SiteTypes' /\ RequestType'
    BY <1>1, RestTypes, LocalKept, SiteKept, RequestKept
       DEF StartRun, TypeInv, TypeOK, Labels
  <2>3. runs' \in Runs
    BY <1>1, MaxRunsAssumption DEF StartRun, TypeInv, TypeOK, TableTypes, Runs
  <2>4. Located'
    BY <1>1, <2>3 DEF StartRun, TypeInv, Located, Rest, AtWork, OnPost
  <2>5. QED
    BY <1>1, <2>1, <2>2, <2>4 DEF StartRun, TypeInv, TypeOK
<1>2. ASSUME NEW p \in Posts, TakePost(p) PROVE TypeInv'
  <2>1. TableTypes' /\ status'[p] = "running"
    BY <1>2 DEF TakePost, TypeInv, TypeOK, TableTypes, ItemStatus
  <2>2. ThreadTypes' /\ LocalTypes' /\ SiteTypes' /\ RequestType'
    BY <1>2, LocalKept, SiteKept, RequestKept
       DEF TakePost, TypeInv, TypeOK, ThreadTypes, Labels
  <2>3. Located'
    BY <1>2, <2>1 DEF TakePost, TypeInv, Located, AtWork, OnPost
  <2>4. QED
    BY <1>2, <2>1, <2>2, <2>3 DEF TakePost, TypeInv, TypeOK
<1>3. ASSUME CancelRest PROVE TypeInv'
  <2>1. TableTypes'
    BY <1>3 DEF CancelRest, TypeInv, TypeOK, TableTypes, ItemStatus
  <2>2. ThreadTypes' /\ LocalTypes' /\ SiteTypes' /\ RequestType'
    BY <1>3, ThreadKept, LocalKept, SiteKept, RequestKept DEF CancelRest, TypeInv, TypeOK
  <2>3. Located'
    BY <1>3 DEF CancelRest, TypeInv, Located, AtWork, OnPost, thread
  <2>4. QED
    BY <1>3, <2>1, <2>2, <2>3 DEF CancelRest, TypeInv, TypeOK
<1>4. ASSUME FinishRun PROVE TypeInv'
  <2>1. TableTypes'
    BY <1>4 DEF FinishRun, TypeInv, TypeOK, TableTypes
  <2>2. ThreadTypes' /\ LocalTypes' /\ SiteTypes' /\ RequestType'
    BY <1>4, RestTypes, LocalKept, SiteKept, RequestKept
       DEF FinishRun, TypeInv, TypeOK, Labels
  <2>3. Located'
    BY <1>4 DEF FinishRun, TypeInv, Located, Rest, AtWork, OnPost
  <2>4. QED
    BY <1>4, <2>1, <2>2, <2>3 DEF FinishRun, TypeInv, TypeOK
<1>5. QED
  BY <1>1, <1>2, <1>3, <1>4

LEMMA TypeRestart ==
  ASSUME TypeInv
  PROVE  (Crash => TypeInv') /\ (Recover => TypeInv')
<1>1. ASSUME Crash PROVE TypeInv'
  <2>1. ThreadTypes' /\ LocalTypes' /\ TableTypes' /\ SiteTypes'
    BY <1>1, RestTypes, LocalKept, TableKept, SiteKept DEF Crash, TypeInv, TypeOK, Labels
  <2>2. RequestType' /\ usr'.at = "idle"
    BY <1>1 DEF Crash, IdleUser, RequestType
  <2>3. Located'
    BY <1>1, <2>2 DEF Crash, Located, Rest, AtWork, OnPost
  <2>4. QED
    BY <1>1, <2>1, <2>2, <2>3 DEF Crash, TypeInv, TypeOK
<1>2. ASSUME Recover PROVE TypeInv'
  <2>1. \A p \in Posts : RecoveredState(p) \in ALL_STATES
    BY StateForType
       DEF RecoveredState, TypeInv, TypeOK, LocalTypes, ALL_STATES, BUSY_STATES, LOCAL_STATES
  <2>2. LocalTypes'
    BY <1>2, <2>1 DEF Recover, TypeInv, TypeOK, LocalTypes
  <2>3. TableTypes'
    BY <1>2 DEF Recover, TypeInv, TypeOK, TableTypes, ItemStatus
  <2>4. ThreadTypes' /\ SiteTypes' /\ RequestType'
    BY <1>2, RestTypes, SiteKept, RequestKept DEF Recover, TypeInv, TypeOK, Labels
  <2>5. Located'
    BY <1>2 DEF Recover, TypeInv, Located, Rest, AtWork, OnPost
  <2>6. QED
    BY <1>2, <2>2, <2>3, <2>4, <2>5 DEF Recover, TypeInv, TypeOK
<1>3. QED
  BY <1>1, <1>2

-----------------------------------------------------------------------------
(* push_one up to the moment the post exists on CivitAI. *)
LEMMA TypeCreating ==
  ASSUME TypeInv
  PROVE  /\ Claim => TypeInv'
         /\ LookBack => TypeInv'
         /\ \A r \in Remotes : FindAdopts(r) => TypeInv'
         /\ FindNothing => TypeInv'
         /\ FindFails => TypeInv'
         /\ Readopted => TypeInv'
         /\ PreflightPasses => TypeInv'
         /\ PreflightFails => TypeInv'
         /\ PreflightHolds => TypeInv'
         /\ RecordAttempt => TypeInv'
         /\ CreateFails => TypeInv'
         /\ \A r \in Remotes : CreateLands(r) => TypeInv'
         /\ RecordCreated => TypeInv'
<1> USE DEF TypeInv, TypeOK
<1>0. "pushing" \in ALL_STATES /\ "needs_reconcile" \in ALL_STATES
  BY DEF ALL_STATES, BUSY_STATES
<1>1. ASSUME Claim PROVE TypeInv'
  <2>1. LocalTypes' /\ TableTypes' /\ SiteTypes'
    BY <1>1, <1>0, TableKept, SiteKept DEF Claim, LocalTypes
  <2>2. pc \in AtWork /\ pc' \in AtWork \ OnPost /\ cur' = cur /\ pc' # "attached"
    BY <1>1 DEF Claim, Abandon, AtWork, Labels, OnPost
  <2>3. CASE Allowed(state[cur], "pushing")
    <3>1. remoteId[cur] \in Remotes \cup {NoRemote}
      BY <2>2 DEF Located, LocalTypes
    <3>2. bound' = remoteId[cur] /\ dated' \in BOOLEAN /\ pc' = "lookback"
          /\ UNCHANGED <<cur, todo, shot, kept>>
      BY <1>1, <2>3 DEF Claim
    <3>3. ThreadTypes'
      BY <3>1, <3>2 DEF ThreadTypes, Labels
    <3>4. QED
      BY <1>1, <2>1, <2>2, <3>3, WorkStep DEF Claim, table
  <2>4. CASE ~Allowed(state[cur], "pushing")
    <3>1. ThreadTypes'
      BY <1>1, <2>4, AbandonTypes DEF Claim
    <3>2. QED
      BY <1>1, <2>1, <2>2, <3>1, WorkStep DEF Claim, table
  <2>5. QED
    BY <2>3, <2>4
<1>2. ASSUME LookBack PROVE TypeInv'
  <2>1. LocalTypes' /\ SiteTypes'
    BY <1>2, LocalKept, SiteKept DEF LookBack
  <2>2. /\ pc \in AtWork /\ pc' \in AtWork \ OnPost /\ cur' = cur /\ pc' # "attached"
        /\ UNCHANGED <<bound, dated, shot, kept>> /\ todo' \in SUBSET Images
    BY <1>2 DEF LookBack, Goto, AtWork, Labels, OnPost, Unattached, ThreadTypes
  <2>3. ThreadTypes'
    BY <2>2 DEF ThreadTypes, AtWork
  <2>4. TableTypes'
    <3>1. CASE bound = NoRemote /\ Unresolved(cur, runs) # {}
      <4>1. PICK k \in Unresolved(cur, runs) : item' = WithTag(cur, item[k][cur].tag)
        BY <1>2, <3>1 DEF LookBack
      <4>2. k \in Runs /\ cur \in Posts /\ runs \in Runs
        BY <1>2, <2>2 DEF LookBack, Unresolved, Located
      <4>3. item[k][cur] \in Item /\ item[k][cur].tag \in 0 .. MaxRuns
        BY <4>2 DEF TableTypes, Item
      <4>4. item' \in [Runs -> [Posts -> Item]]
        BY <4>1, <4>2, <4>3, ItemTypes
      <4>5. QED
        BY <1>2, <4>4 DEF LookBack, TableTypes
    <3>2. CASE ~(bound = NoRemote /\ Unresolved(cur, runs) # {})
      BY <1>2, <3>2 DEF LookBack, TableTypes
    <3>3. QED
      BY <3>1, <3>2
  <2>5. QED
    BY <1>2, <2>1, <2>2, <2>3, <2>4, WorkStep DEF LookBack
<1>3. ASSUME NEW r \in Remotes, FindAdopts(r) PROVE TypeInv'
  <2>1. cur \in Posts /\ pc \in AtWork
    BY <1>3 DEF FindAdopts, AtWork, Labels, Located
  <2>2. LocalTypes'
    <3>1. siteTime[r] \in Times
      BY DEF SiteTypes
    <3>2. /\ pubAt' \in [Posts -> Times]
          /\ state' \in [Posts -> ALL_STATES]
          /\ img' \in [Posts -> [Images -> {"new", "staged", "attached"}]]
      <4>1. CASE Synced(cur, r, siteTime[r])
        BY <4>1, <2>1, <3>1, SyncedType
      <4>2. CASE UNCHANGED <<state, pubAt, img>>
        BY <4>2 DEF LocalTypes
      <4>3. QED
        BY <1>3, <4>1, <4>2 DEF FindAdopts
    <3>3. QED
      BY <1>3, <3>2 DEF FindAdopts, LocalTypes
  <2>3. ThreadTypes' /\ TableTypes' /\ SiteTypes'
    BY <1>3, GotoTypes, TableKept, SiteKept DEF FindAdopts, Labels
  <2>4. QED
    BY <1>3, <2>1, <2>2, <2>3, WorkStep DEF FindAdopts, Goto, table, AtWork, Labels, OnPost
<1>4. ASSUME FindNothing PROVE TypeInv'
  <2>1. LocalTypes' /\ TableTypes' /\ ThreadTypes' /\ SiteTypes'
    BY <1>4, <1>0, TableKept, AbandonTypes, SiteKept DEF FindNothing, LocalTypes
  <2>2. QED
    BY <1>4, <2>1, WorkStep DEF FindNothing, Abandon, AtWork, Labels, OnPost, table
<1>5. FindFails => TypeInv'
  BY GivesUp DEF FindFails, AtWork, Labels
<1>6. ASSUME Readopted PROVE TypeInv'
  <2>1. cur \in Posts /\ pc \in AtWork /\ runs \in Runs
    BY <1>6 DEF Readopted, AtWork, Labels, Located
  <2>2. LocalTypes' /\ SiteTypes'
    BY <1>6, <1>0, SiteKept DEF Readopted, LocalTypes
  <2>3. remoteId[cur] \in Remotes \cup {NoRemote}
    BY <2>1 DEF LocalTypes
  <2>4. CASE Allowed(state[cur], "pushing")
    <3>1. /\ item' = WithRemote(cur, remoteId[cur])
          /\ UNCHANGED <<runs, open, status>>
      BY <1>6, <2>4 DEF Readopted
    <3>2. TableTypes'
      BY <2>1, <2>3, <3>1, ItemTypes DEF TableTypes
    <3>3. /\ pc' = "preflight" /\ bound' = remoteId[cur] /\ dated' \in BOOLEAN
          /\ todo' \in SUBSET Images /\ UNCHANGED <<cur, shot, kept>>
      BY <1>6, <2>4 DEF Readopted, Unattached
    <3>4. ThreadTypes'
      BY <2>3, <3>3 DEF ThreadTypes, Labels
    <3>5. QED
      BY <1>6, <2>1, <2>2, <3>2, <3>3, <3>4, WorkStep DEF Readopted, AtWork, Labels, OnPost
  <2>5. CASE ~Allowed(state[cur], "pushing")
    <3>1. TableTypes' /\ ThreadTypes'
      BY <1>6, <2>5, AbandonTypes DEF Readopted, TableTypes
    <3>2. QED
      BY <1>6, <2>1, <2>2, <2>5, <3>1, WorkStep
         DEF Readopted, Abandon, AtWork, Labels, OnPost
  <2>6. QED
    BY <2>4, <2>5
<1>7. PreflightPasses => TypeInv'
  <2>1. AfterPreflight \in AtWork \ {"attached"}
    BY DEF AfterPreflight, AtWork, Labels
  <2>2. AfterPreflight \in OnPost => bound \in Remotes
    BY DEF AfterPreflight, OnPost, ThreadTypes
  <2>3. QED
    BY <2>1, <2>2, GoesOn DEF PreflightPasses, AtWork, Labels
<1>8. PreflightFails => TypeInv'
  BY GivesUp DEF PreflightFails, AtWork, Labels
<1>9. ASSUME PreflightHolds PROVE TypeInv'
  <2>1. LocalTypes' /\ ThreadTypes' /\ SiteTypes' /\ RequestType'
    BY <1>9, LocalKept, RestTypes, SiteKept, RequestKept DEF PreflightHolds, Labels
  <2>2. TableTypes'
    BY <1>9 DEF PreflightHolds, TableTypes, ItemStatus
  <2>3. Located'
    BY <1>9 DEF PreflightHolds, Located, Rest, AtWork, OnPost
  <2>4. QED
    BY <1>9, <2>1, <2>2, <2>3 DEF PreflightHolds
<1>10. ASSUME RecordAttempt PROVE TypeInv'
  <2>1. runs \in Runs /\ runs \in 0 .. MaxRuns /\ pc \in AtWork
    BY <1>10 DEF RecordAttempt, AtWork, Labels, Located, TableTypes
  <2>2. TableTypes'
    BY <1>10, <2>1, ItemTypes DEF RecordAttempt, Attempted, TableTypes, Located
  <2>3. LocalTypes'
    BY <1>10, <2>1 DEF RecordAttempt, LocalTypes
  <2>4. ThreadTypes' /\ SiteTypes'
    BY <1>10, GotoTypes, SiteKept DEF RecordAttempt, Labels
  <2>5. QED
    BY <1>10, <2>1, <2>2, <2>3, <2>4, WorkStep DEF RecordAttempt, Goto, AtWork, Labels, OnPost
<1>11. CreateFails => TypeInv'
  BY GivesUp DEF CreateFails, AtWork, Labels
<1>12. ASSUME NEW r \in Remotes, CreateLands(r) PROVE TypeInv'
  <2>1. cur \in Posts /\ pc \in AtWork /\ runs \in 0 .. MaxRuns
    BY <1>12 DEF CreateLands, AtWork, Labels, Located, TableTypes
  <2>2. SiteTypes'
    BY <1>12, <2>1 DEF CreateLands, SiteTypes
  <2>3. LocalTypes' /\ TableTypes'
    BY <1>12, LocalKept, TableKept DEF CreateLands
  <2>4. CASE Abandon
    BY <1>12, <2>1, <2>2, <2>3, <2>4, AbandonTypes, WorkStep
       DEF CreateLands, Abandon, AtWork, Labels, OnPost, table
  <2>5. CASE pc' = "created" /\ bound' = r /\ UNCHANGED <<cur, dated, todo, shot, kept>>
    <3>1. ThreadTypes'
      BY <2>5 DEF ThreadTypes, Labels
    <3>2. QED
      BY <1>12, <2>1, <2>2, <2>3, <2>5, <3>1, WorkStep DEF CreateLands, AtWork, Labels, table
  <2>6. QED
    BY <1>12, <2>4, <2>5 DEF CreateLands
<1>13. ASSUME RecordCreated PROVE TypeInv'
  <2>1. cur \in Posts /\ pc \in AtWork /\ bound \in Remotes
    BY <1>13 DEF RecordCreated, AtWork, Labels, OnPost, Located
  <2>2. SiteTypes'
    BY <1>13, SiteKept DEF RecordCreated
  <2>3. CASE Unknown(bound)
    <3>1. /\ item' = WithRemote(cur, bound)
          /\ remoteId' = [remoteId EXCEPT ![cur] = bound]
          /\ pubAt' = [pubAt EXCEPT ![cur] = "none"]
          /\ UNCHANGED <<runs, open, status, state, img, markers, usr, mode>>
          /\ pc' = "tags" /\ dated' = FALSE /\ UNCHANGED <<cur, bound, todo, shot, kept>>
      BY <1>13, <2>3 DEF RecordCreated
    <3>2. TableTypes'
      BY <2>1, <3>1, ItemTypes DEF TableTypes, Located, AtWork
    <3>3. LocalTypes'
      BY <2>1, <3>1 DEF LocalTypes, Times
    <3>4. ThreadTypes'
      BY <3>1 DEF ThreadTypes, Labels
    <3>5. QED
      BY <2>1, <2>2, <3>1, <3>2, <3>3, <3>4, WorkStep DEF AtWork, Labels
  <2>4. CASE ~Unknown(bound)
    <3>1. Abandon /\ UNCHANGED <<local, table, mode, usr, site>>
      BY <1>13, <2>4 DEF RecordCreated, local, table
    <3>2. QED
      BY <2>1, <3>1, GivesUp
  <2>5. QED
    BY <2>3, <2>4
<1>14. QED
  BY <1>1, <1>2, <1>3, <1>4, <1>5, <1>6, <1>7, <1>8, <1>9, <1>10, <1>11, <1>12, <1>13

-----------------------------------------------------------------------------
(* push_one from the empty draft to the attached images. *)
LEMMA TypeFilling ==
  ASSUME TypeInv
  PROVE  /\ TagsPlain => TypeInv'
         /\ \A dropped \in SUBSET Runs, removed \in BOOLEAN : TagsFail(dropped, removed) => TypeInv'
         /\ TagsCleared => TypeInv'
         /\ \A i \in Images : Upload(i) => TypeInv'
         /\ UploadFails => TypeInv'
         /\ Uploaded => TypeInv'
         /\ \A i \in Images, times \in 1 .. 2 : AttachLands(i, times) => TypeInv'
         /\ RecordAttachment => TypeInv'
         /\ AttachFails => TypeInv'
         /\ AttachedAll => TypeInv'
<1> USE DEF TypeInv, TypeOK
<1>0. pc \in OnPost => pc \in AtWork /\ cur \in Posts /\ bound \in Remotes
  BY DEF OnPost, AtWork, Labels, Located
<1>1. TagsPlain => TypeInv'
  BY <1>0, GoesOn DEF TagsPlain, AtWork, Labels, OnPost
<1>2. ASSUME NEW dropped \in SUBSET Runs, NEW removed \in BOOLEAN, TagsFail(dropped, removed)
      PROVE  TypeInv'
  <2>1. pc \in OnPost
    BY <1>2 DEF TagsFail, OnPost
  <2>2. SiteTypes'
    BY <1>0, <1>2, <2>1, MaxRunsAssumption DEF TagsFail, SiteTypes
  <2>3. LocalTypes'
    BY <1>2 DEF TagsFail, LocalTypes
  <2>4. TableTypes' /\ ThreadTypes'
    BY <1>2, TableKept, AbandonTypes DEF TagsFail, MarkerStuck
  <2>5. QED
    BY <1>0, <1>2, <2>1, <2>2, <2>3, <2>4, WorkStep
       DEF TagsFail, MarkerStuck, Abandon, AtWork, Labels, OnPost, table
<1>3. ASSUME TagsCleared PROVE TypeInv'
  <2>1. pc \in OnPost
    BY <1>3 DEF TagsCleared, OnPost
  <2>2. SiteTypes'
    BY <1>0, <1>3, <2>1, MaxRunsAssumption DEF TagsCleared, SiteTypes
  <2>3. LocalTypes'
    BY <1>3 DEF TagsCleared, LocalTypes
  <2>4. TableTypes' /\ ThreadTypes'
    BY <1>3, TableKept, GotoTypes DEF TagsCleared, Labels
  <2>5. QED
    BY <1>0, <1>3, <2>1, <2>2, <2>3, <2>4, WorkStep
       DEF TagsCleared, Goto, AtWork, Labels, OnPost, table
<1>4. ASSUME NEW i \in Images, Upload(i) PROVE TypeInv'
  <2>1. pc \in OnPost
    BY <1>4 DEF Upload, OnPost
  <2>2. LocalTypes'
    BY <1>0, <1>4, <2>1 DEF Upload, LocalTypes
  <2>3. ThreadTypes'
    BY <1>4 DEF Upload, ThreadTypes
  <2>4. TableTypes' /\ SiteTypes'
    BY <1>4, TableKept, SiteKept DEF Upload
  <2>5. QED
    BY <1>0, <1>4, <2>1, <2>2, <2>3, <2>4, WorkStep DEF Upload, table
<1>5. UploadFails => TypeInv'
  BY GivesUp DEF UploadFails, AtWork, Labels
<1>6. ASSUME Uploaded PROVE TypeInv'
  <2>1. pc \in OnPost
    BY <1>6 DEF Uploaded, OnPost
  <2>2. ThreadTypes'
    BY <1>6 DEF Uploaded, ThreadTypes, Labels, Unattached
  <2>3. LocalTypes' /\ TableTypes' /\ SiteTypes'
    BY <1>6, LocalKept, TableKept, SiteKept DEF Uploaded
  <2>4. QED
    BY <1>0, <1>6, <2>1, <2>2, <2>3, WorkStep DEF Uploaded, AtWork, Labels, table
<1>7. ASSUME NEW i \in Images, NEW times \in 1 .. 2, AttachLands(i, times) PROVE TypeInv'
  <2>1. pc \in OnPost
    BY <1>7 DEF AttachLands, OnPost
  <2>2. SiteTypes'
    <3>1. att[bound][i] \in 0 .. 2
      BY <1>0, <2>1 DEF SiteTypes
    <3>2. (IF att[bound][i] + times > 2 THEN 2 ELSE att[bound][i] + times) \in 0 .. 2
      BY <3>1
    <3>3. QED
      BY <1>7, <3>2 DEF AttachLands, SiteTypes
  <2>3. LocalTypes' /\ TableTypes'
    BY <1>7, LocalKept, TableKept DEF AttachLands
  <2>4. CASE Abandon
    BY <1>0, <1>7, <2>1, <2>2, <2>3, <2>4, AbandonTypes, WorkStep
       DEF AttachLands, Abandon, AtWork, Labels, OnPost, table
  <2>5. CASE pc' = "attached" /\ shot' = i /\ UNCHANGED <<cur, bound, dated, todo, kept>>
    <3>1. ThreadTypes'
      BY <2>5 DEF ThreadTypes, Labels
    <3>2. QED
      BY <1>0, <1>7, <2>1, <2>2, <2>3, <2>5, <3>1, WorkStep
         DEF AttachLands, AtWork, Labels, table
  <2>6. QED
    BY <1>7, <2>4, <2>5 DEF AttachLands
<1>8. ASSUME RecordAttachment PROVE TypeInv'
  <2>1. pc \in OnPost
    BY <1>8 DEF RecordAttachment, OnPost
  <2>2. LocalTypes'
    BY <1>8 DEF RecordAttachment, LocalTypes
  <2>3. ThreadTypes'
    BY <1>8 DEF RecordAttachment, ThreadTypes, Labels
  <2>4. TableTypes' /\ SiteTypes'
    BY <1>8, TableKept, SiteKept DEF RecordAttachment
  <2>5. QED
    BY <1>0, <1>8, <2>1, <2>2, <2>3, <2>4, WorkStep
       DEF RecordAttachment, AtWork, Labels, table
<1>9. AttachFails => TypeInv'
  BY GivesUp DEF AttachFails, AtWork, Labels
<1>10. AttachedAll => TypeInv'
  BY <1>0, GoesOn DEF AttachedAll, AtWork, Labels, OnPost
<1>11. QED
  BY <1>1, <1>2, <1>3, <1>4, <1>5, <1>6, <1>7, <1>8, <1>9, <1>10

(* push_one from the publish step to its end, and _fail. *)
LEMMA TypeEnding ==
  ASSUME TypeInv
  PROVE  /\ PublishNothing => TypeInv'
         /\ PublishNow => TypeInv'
         /\ ReadTime => TypeInv'
         /\ SendTime => TypeInv'
         /\ PublishFails => TypeInv'
         /\ RecordTime => TypeInv'
         /\ ConfirmReads => TypeInv'
         /\ ConfirmFails => TypeInv'
         /\ FinishPost => TypeInv'
         /\ FailSync => TypeInv'
         /\ FailRecords => TypeInv'
<1> USE DEF TypeInv, TypeOK
<1>0. /\ pc \in AtWork => cur \in Posts
      /\ pc \in OnPost => pc \in AtWork /\ bound \in Remotes
  BY DEF OnPost, AtWork, Labels, Located
<1>1. ASSUME PublishNothing PROVE TypeInv'
  <2>1. ThreadTypes'
    BY <1>1 DEF PublishNothing, ThreadTypes, Labels
  <2>2. LocalTypes' /\ TableTypes' /\ SiteTypes'
    BY <1>1, LocalKept, TableKept, SiteKept DEF PublishNothing
  <2>3. QED
    BY <1>0, <1>1, <2>1, <2>2, WorkStep DEF PublishNothing, OnPost, AtWork, Labels, table
<1>2. ASSUME PublishNow PROVE TypeInv'
  <2>1. SiteTypes'
    BY <1>0, <1>2 DEF PublishNow, OnPost, SiteTypes, Times
  <2>2. LocalTypes' /\ TableTypes'
    BY <1>2, LocalKept, TableKept DEF PublishNow
  <2>3. CASE Abandon
    BY <1>0, <1>2, <2>1, <2>2, <2>3, AbandonTypes, WorkStep
       DEF PublishNow, Abandon, AtWork, Labels, OnPost, table
  <2>4. CASE pc' = "confirm" /\ kept' = TRUE /\ UNCHANGED <<cur, bound, dated, todo, shot>>
    <3>1. ThreadTypes'
      BY <2>4 DEF ThreadTypes, Labels
    <3>2. QED
      BY <1>2, <2>1, <2>2, <2>4, <3>1, WorkStep DEF PublishNow, OnPost, AtWork, Labels, table
  <2>5. QED
    BY <1>2, <2>3, <2>4 DEF PublishNow
<1>3. ReadTime => TypeInv'
  BY <1>0, GoesOn DEF ReadTime, AtWork, Labels, OnPost
<1>4. ASSUME SendTime PROVE TypeInv'
  <2>1. SiteTypes'
    BY <1>0, <1>4 DEF SendTime, OnPost, SiteTypes, Times
  <2>2. LocalTypes' /\ TableTypes'
    BY <1>4, LocalKept, TableKept DEF SendTime
  <2>3. CASE Abandon
    BY <1>0, <1>4, <2>1, <2>2, <2>3, AbandonTypes, WorkStep
       DEF SendTime, Abandon, AtWork, Labels, OnPost, table
  <2>4. CASE Goto("record")
    <3>1. ThreadTypes'
      BY <2>4, GotoTypes DEF Labels
    <3>2. QED
      BY <1>0, <1>4, <2>1, <2>2, <2>4, <3>1, WorkStep
         DEF SendTime, Goto, OnPost, AtWork, Labels, table
  <2>5. QED
    BY <1>4, <2>3, <2>4 DEF SendTime
<1>5. PublishFails => TypeInv'
  BY GivesUp DEF PublishFails, AtWork, Labels
<1>6. ASSUME RecordTime PROVE TypeInv'
  <2>1. bound \in Remotes /\ pc \in AtWork
    BY <1>0, <1>6 DEF RecordTime, OnPost
  <2>2. TableTypes' /\ SiteTypes'
    BY <1>6, TableKept, SiteKept DEF RecordTime
  <2>3. siteTime[bound] \in Times
    BY <2>1 DEF SiteTypes
  <2>4. CASE Allowed(state[cur], StateFor(siteTime[bound]))
    <3>1. /\ pubAt' = [pubAt EXCEPT ![cur] = siteTime[bound]]
          /\ state' = [state EXCEPT ![cur] = StateFor(siteTime[bound])]
          /\ pc' = "confirm" /\ kept' = TRUE
          /\ UNCHANGED <<cur, bound, dated, todo, shot, remoteId, img, markers, table, mode, usr>>
      BY <1>6, <2>4 DEF RecordTime
    <3>2. LocalTypes'
      BY <2>3, <3>1, StateForType DEF LocalTypes
    <3>3. ThreadTypes'
      BY <3>1 DEF ThreadTypes, Labels
    <3>4. QED
      BY <2>1, <2>2, <3>1, <3>2, <3>3, WorkStep DEF AtWork, Labels, OnPost, table
  <2>5. CASE ~Allowed(state[cur], StateFor(siteTime[bound]))
    <3>1. Abandon /\ UNCHANGED <<local, table, mode, usr, site>>
      BY <1>6, <2>5 DEF RecordTime, local
    <3>2. QED
      BY <2>1, <3>1, GivesUp
  <2>6. QED
    BY <2>4, <2>5
<1>7. ASSUME ConfirmReads PROVE TypeInv'
  <2>1. cur \in Posts /\ pc \in AtWork
    BY <1>0, <1>7 DEF ConfirmReads, AtWork, Labels
  <2>2. LocalTypes'
    <3>1. siteTime[remoteId[cur]] \in Times
      BY <1>7 DEF ConfirmReads, SiteTypes
    <3>2. QED
      BY <1>7, <2>1, <3>1, SyncedType DEF ConfirmReads, LocalTypes
  <2>3. ThreadTypes'
    BY <1>7, AbandonTypes, GotoTypes DEF ConfirmReads, Labels
  <2>4. TableTypes' /\ SiteTypes'
    BY <1>7, TableKept, SiteKept DEF ConfirmReads
  <2>5. QED
    BY <1>7, <2>1, <2>2, <2>3, <2>4, WorkStep
       DEF ConfirmReads, Goto, Abandon, AtWork, Labels, OnPost, table
<1>8. ASSUME ConfirmFails PROVE TypeInv'
  <2>1. cur \in Posts /\ pc \in AtWork
    BY <1>0, <1>8 DEF ConfirmFails, AtWork, Labels
  <2>2. LocalTypes'
    BY <1>8, <2>1, MarkedMissingType DEF ConfirmFails, LocalTypes
  <2>3. ThreadTypes'
    BY <1>8, AbandonTypes, GotoTypes DEF ConfirmFails, Labels
  <2>4. TableTypes' /\ SiteTypes'
    BY <1>8, TableKept, SiteKept DEF ConfirmFails
  <2>5. QED
    BY <1>8, <2>1, <2>2, <2>3, <2>4, WorkStep
       DEF ConfirmFails, Goto, Abandon, AtWork, Labels, OnPost, table
<1>9. ASSUME FinishPost PROVE TypeInv'
  <2>1. TableTypes'
    BY <1>9 DEF FinishPost, TableTypes, ItemStatus
  <2>2. ThreadTypes' /\ LocalTypes' /\ SiteTypes' /\ RequestType'
    BY <1>9, RestTypes, LocalKept, SiteKept, RequestKept DEF FinishPost, Labels
  <2>3. Located'
    BY <1>9 DEF FinishPost, Located, Rest, AtWork, OnPost
  <2>4. QED
    BY <1>9, <2>1, <2>2, <2>3 DEF FinishPost
<1>10. ASSUME FailSync PROVE TypeInv'
  <2>1. cur \in Posts /\ pc \in AtWork
    BY <1>0, <1>10 DEF FailSync, AtWork, Labels
  <2>2. LocalTypes'
    BY <1>10, <2>1, SyncOneType DEF FailSync, LocalTypes
  <2>3. ThreadTypes' /\ TableTypes' /\ SiteTypes'
    BY <1>10, GotoTypes, TableKept, SiteKept DEF FailSync, Labels
  <2>4. QED
    BY <1>10, <2>1, <2>2, <2>3, WorkStep DEF FailSync, Goto, AtWork, Labels, OnPost, table
<1>11. ASSUME FailRecords PROVE TypeInv'
  <2>1. TableTypes'
    BY <1>11 DEF FailRecords, TableTypes, ItemStatus
  <2>2. LocalTypes'
    <3>1. pubAt[cur] \in Times
      BY <1>0, <1>11 DEF FailRecords, LocalTypes, AtWork, Labels
    <3>2. (IF remoteId[cur] = NoRemote THEN "failed" ELSE StateFor(pubAt[cur])) \in ALL_STATES
      BY <3>1, StateForType DEF ALL_STATES, LOCAL_STATES
    <3>3. QED
      BY <1>11, <3>2 DEF FailRecords, LocalTypes
  <2>3. ThreadTypes' /\ SiteTypes' /\ RequestType'
    BY <1>11, RestTypes, SiteKept, RequestKept DEF FailRecords, OnToTheNext, Labels
  <2>4. Located'
    BY <1>11 DEF FailRecords, OnToTheNext, Located, Rest, AtWork, OnPost
  <2>5. QED
    BY <1>11, <2>1, <2>2, <2>3, <2>4 DEF FailRecords
<1>12. QED
  BY <1>1, <1>2, <1>3, <1>4, <1>5, <1>6, <1>7, <1>8, <1>9, <1>10, <1>11

-----------------------------------------------------------------------------
(* The user's operations. *)
LEMMA TypeUser ==
  ASSUME TypeInv, NEW p \in Posts
  PROVE  /\ \A target \in {"ready", "draft", "archived"} : MarkState(p, target) => TypeInv'
         /\ \A r \in Remotes : AdoptByHand(p, r) => TypeInv'
         /\ SyncByHand(p) => TypeInv'
         /\ Reschedule(p) => TypeInv'
         /\ DeleteRemote(p) => TypeInv'
<1> USE DEF TypeInv, TypeOK
<1>0. \A t \in {"ready", "draft", "archived"} : t \in ALL_STATES
  BY DEF ALL_STATES, LOCAL_STATES
<1>1. ASSUME NEW target \in {"ready", "draft", "archived"}, MarkState(p, target)
      PROVE  TypeInv'
  <2>1. LocalTypes'
    BY <1>0, <1>1 DEF MarkState, LocalTypes
  <2>2. SiteTypes' /\ RequestType'
    BY <1>1, SiteKept, RequestKept DEF MarkState
  <2>3. QED
    BY <1>1, <2>1, <2>2, OtherStep DEF MarkState, Located
<1>2. ASSUME NEW r \in Remotes, AdoptByHand(p, r) PROVE TypeInv'
  <2>1. LocalTypes'
    <3>1. CASE Synced(p, r, siteTime[r])
      <4>1. siteTime[r] \in Times
        BY DEF SiteTypes
      <4>2. QED
        BY <1>2, <3>1, <4>1, SyncedType DEF AdoptByHand, LocalTypes
    <3>2. CASE UNCHANGED <<state, pubAt, img>>
      BY <1>2, <3>2 DEF AdoptByHand, LocalTypes
    <3>3. QED
      BY <1>2, <3>1, <3>2 DEF AdoptByHand
  <2>2. SiteTypes' /\ RequestType'
    BY <1>2, SiteKept, RequestKept DEF AdoptByHand
  <2>3. QED
    BY <1>2, <2>1, <2>2, OtherStep DEF AdoptByHand, Located
<1>3. ASSUME SyncByHand(p) PROVE TypeInv'
  <2>1. LocalTypes'
    BY <1>3, SyncOneType DEF SyncByHand, LocalTypes
  <2>2. SiteTypes' /\ RequestType'
    BY <1>3, SiteKept, RequestKept DEF SyncByHand
  <2>3. QED
    BY <1>3, <2>1, <2>2, OtherStep DEF SyncByHand, Located
<1>4. ASSUME Reschedule(p) PROVE TypeInv'
  <2>1. LocalTypes'
    <3>1. CASE Synced(p, remoteId[p], "future")
      BY <1>4, <3>1, SyncedType DEF Reschedule, LocalTypes, Times
    <3>2. CASE UNCHANGED <<state, pubAt, img>>
      BY <1>4, <3>2 DEF Reschedule, LocalTypes
    <3>3. QED
      BY <1>4, <3>1, <3>2 DEF Reschedule
  <2>2. SiteTypes'
    BY <1>4 DEF Reschedule, SiteTypes, Times
  <2>3. RequestType'
    BY <1>4, RequestKept DEF Reschedule
  <2>4. QED
    BY <1>4, <2>1, <2>2, <2>3, OtherStep DEF Reschedule, Located
<1>5. ASSUME DeleteRemote(p) PROVE TypeInv'
  <2>1. SiteTypes'
    BY <1>5 DEF DeleteRemote, Gone, SiteTypes
  <2>2. LocalTypes'
    <3>1. Moved(state[p], "draft") \in ALL_STATES
      BY <1>0, MovedType DEF LocalTypes
    <3>2. Cleared(p) \in [Posts -> [Images -> {"new", "staged", "attached"}]]
      BY DEF Cleared, LocalTypes
    <3>3. CASE UNCHANGED <<state, remoteId, pubAt, img>>
      BY <1>5, <3>3 DEF DeleteRemote, LocalTypes
    <3>4. CASE /\ remoteId' = [remoteId EXCEPT ![p] = NoRemote]
               /\ pubAt' = [pubAt EXCEPT ![p] = "none"]
               /\ img' = Cleared(p)
               /\ state' = [state EXCEPT ![p] = Moved(@, "draft")]
      BY <1>5, <3>1, <3>2, <3>4 DEF DeleteRemote, LocalTypes, Times
    <3>5. QED
      BY <1>5, <3>3, <3>4 DEF DeleteRemote
  <2>3. RequestType' /\ (usr'.at # "idle" => usr'.post \in Posts)
    <3>1. CASE UNCHANGED usr
      BY <3>1 DEF RequestType, Located
    <3>2. CASE usr' = [at |-> "fields", post |-> p, remote |-> remoteId[p]]
      BY <3>2 DEF RequestType, LocalTypes
    <3>3. QED
      BY <1>5, <3>1, <3>2 DEF DeleteRemote
  <2>4. QED
    BY <1>5, <2>1, <2>2, <2>3, OtherStep DEF DeleteRemote
<1>6. QED
  BY <1>1, <1>2, <1>3, <1>4, <1>5

(* The commits of a delete that is half way through. *)
LEMMA TypeRequest ==
  ASSUME TypeInv
  PROVE  /\ DeleteFields => TypeInv'
         /\ DeleteUploads => TypeInv'
         /\ DeleteState => TypeInv'
<1> USE DEF TypeInv, TypeOK
<1>1. ASSUME DeleteFields PROVE TypeInv'
  <2>1. LocalTypes'
    BY <1>1 DEF DeleteFields, LocalTypes, Times
  <2>2. SiteTypes' /\ RequestType' /\ usr'.post = usr.post
    BY <1>1, SiteKept DEF DeleteFields, RequestType
  <2>3. QED
    BY <1>1, <2>1, <2>2, OtherStep DEF DeleteFields, Located
<1>2. ASSUME DeleteUploads PROVE TypeInv'
  <2>1. LocalTypes'
    BY <1>2 DEF DeleteUploads, Cleared, LocalTypes
  <2>2. SiteTypes' /\ RequestType' /\ usr'.post = usr.post
    BY <1>2, SiteKept DEF DeleteUploads, RequestType
  <2>3. QED
    BY <1>2, <2>1, <2>2, OtherStep DEF DeleteUploads, Located
<1>3. ASSUME DeleteState PROVE TypeInv'
  <2>1. Moved(state[usr.post], "draft") \in ALL_STATES
    BY <1>3, MovedType DEF DeleteState, Located, LocalTypes, ALL_STATES, LOCAL_STATES
  <2>2. LocalTypes'
    BY <1>3, <2>1 DEF DeleteState, LocalTypes
  <2>3. SiteTypes' /\ RequestType' /\ usr'.at = "idle"
    BY <1>3, SiteKept DEF DeleteState, RequestType, IdleUser
  <2>4. QED
    BY <1>3, <2>2, <2>3, OtherStep DEF DeleteState
<1>4. QED
  BY <1>1, <1>2, <1>3

(* The site and its owner. *)
LEMMA TypeSite ==
  ASSUME TypeInv, NEW r \in Remotes
  PROVE  /\ TimePasses(r) => TypeInv'
         /\ OwnerPublishes(r) => TypeInv'
         /\ OwnerDeletes(r) => TypeInv'
<1> USE DEF TypeInv, TypeOK
<1>1. ASSUME TimePasses(r) PROVE TypeInv'
  <2>1. SiteTypes'
    BY <1>1 DEF TimePasses, SiteTypes, Times
  <2>2. LocalTypes'
    BY <1>1 DEF TimePasses, LocalTypes, Times
  <2>3. QED
    BY <1>1, <2>1, <2>2, OtherStep, RequestKept DEF TimePasses, Located
<1>2. ASSUME OwnerPublishes(r) PROVE TypeInv'
  <2>1. SiteTypes'
    BY <1>2 DEF OwnerPublishes, SiteTypes, Times
  <2>2. QED
    BY <1>2, <2>1, LocalKept, RequestKept, OtherStep DEF OwnerPublishes, Located
<1>3. ASSUME OwnerDeletes(r) PROVE TypeInv'
  <2>1. SiteTypes'
    BY <1>3 DEF OwnerDeletes, SiteTypes
  <2>2. QED
    BY <1>3, <2>1, LocalKept, RequestKept, OtherStep DEF OwnerDeletes, Located
<1>4. QED
  BY <1>1, <1>2, <1>3

-----------------------------------------------------------------------------
LEMMA TypeNext == TypeInv /\ [Next]_vars => TypeInv'
<1> SUFFICES ASSUME TypeInv, [Next]_vars PROVE TypeInv'
  OBVIOUS
<1>1. CASE ThreadStep
  BY <1>1, TypeRun, TypeCreating, TypeFilling, TypeEnding DEF ThreadStep
<1>2. CASE UserStep
  BY <1>2, TypeRun, TypeUser DEF UserStep
<1>3. CASE RequestStep
  BY <1>3, TypeRequest DEF RequestStep
<1>4. CASE SiteStep
  BY <1>4, TypeSite DEF SiteStep
<1>5. CASE Crash \/ Recover
  BY <1>5, TypeRestart
<1>6. CASE UNCHANGED vars
  <2>1. UNCHANGED <<mode, table, thread>> /\ UNCHANGED local /\ UNCHANGED site /\ UNCHANGED usr
    BY <1>6 DEF vars
  <2>2. QED
    BY <2>1, LocalKept, SiteKept, RequestKept, OtherStep DEF TypeInv, TypeOK, Located
<1>7. QED
  BY <1>1, <1>2, <1>3, <1>4, <1>5, <1>6 DEF Next

(* Every variable keeps its type, and the thread has a post, a run, a      *)
(* remote id and an image in hand wherever a step of it uses one.          *)
THEOREM TypeInvariant == Spec => []TypeInv
  BY TypeInit, TypeNext, PTL DEF Spec

(* Type correctness: however the thread, the user, the site and crashes    *)
(* interleave, every stored value is one the program knows.                *)
THEOREM TypeCorrect == Spec => []TypeOK
<1>1. TypeInv => TypeOK
  BY DEF TypeInv
<1>2. QED
  BY <1>1, TypeInvariant, PTL

-----------------------------------------------------------------------------
(* One post on CivitAI for each post here. *)

(* The places where IInv says something of the post in the thread's hands. *)
Creating == BeforePost \cup {"claim", "readopted"}

LEMMA BindingInit == Init => IInv
<1> SUFFICES ASSUME Init PROVE IInv
  OBVIOUS
<1>1. TypeInv
  BY TypeInit
<1>2. Owned /\ Unbound /\ NothingThere
  BY DEF Init, Owned, BeforePost, Unbound, NothingThere
<1>3. Fresh
  BY DEF Init, Fresh
<1>4. OwnIds
  BY DEF Init, OwnIds, IdleUser
<1>5. AtMostOneRemotePost /\ Traceable
  BY DEF Init, AtMostOneRemotePost, Traceable, LivePosts
<1>6. QED
  BY <1>1, <1>2, <1>3, <1>4, <1>5 DEF IInv, TypeInv

-----------------------------------------------------------------------------
(* The thread works where no creation is under way: no remote id, no item  *)
(* and no post on CivitAI changes hands.                                   *)
LEMMA QuietStep ==
  ASSUME IInv, TypeInv', pc' \notin Creating,
         UNCHANGED <<remoteId, item, runs, owner, live>>,
         usr' = usr \/ usr' = IdleUser,
         \A p \in Posts : status'[p] = "pending" => status[p] = "pending"
  PROVE  IInv'
<1> USE DEF IInv, Creating
<1>1. Owned' /\ Unbound' /\ NothingThere'
  BY DEF Owned, BeforePost, Unbound, NothingThere
<1>2. Fresh'
  BY DEF Fresh, BeforePost
<1>3. OwnIds'
  BY DEF OwnIds, IdleUser
<1>4. AtMostOneRemotePost'
  BY DEF AtMostOneRemotePost, LivePosts
<1>5. Traceable'
  BY DEF Traceable, LivePosts, OpenAttempt
<1>6. QED
  BY <1>1, <1>2, <1>3, <1>4, <1>5 DEF IInv, TypeInv

(* Somebody else acts: posts may go from CivitAI, the ids stay where they  *)
(* are, and a post the thread is creating is left alone.                   *)
LEMMA OutsideStep ==
  ASSUME IInv, TypeInv', UNCHANGED <<remoteId, table, thread, owner>>,
         live' \subseteq live,
         pc \in BeforePost => state'[cur] = state[cur],
         usr'.at = "fields" => /\ usr'.remote \in Remotes \ live'
                               /\ remoteId[usr'.post] = usr'.remote
  PROVE  IInv'
<1> USE DEF IInv, table, thread
<1>1. Owned'
  BY DEF Owned
<1>2. Fresh' /\ Unbound'
  BY DEF Fresh, Unbound
<1>3. \A p \in Posts \cup {NoPost} : LivePosts(p)' \subseteq LivePosts(p)
  BY DEF LivePosts
<1>4. NothingThere'
  <2>1. LivePosts(cur)' \subseteq LivePosts(cur)
    BY DEF LivePosts
  <2>2. QED
    BY <2>1 DEF NothingThere
<1>5. OwnIds'
  BY DEF OwnIds
<1>6. AtMostOneRemotePost' /\ Traceable'
  BY <1>3 DEF AtMostOneRemotePost, Traceable, OpenAttempt
<1>7. QED
  BY <1>1, <1>2, <1>4, <1>5, <1>6 DEF IInv, TypeInv

(* A post forgets its remote id once CivitAI no longer has it. *)
LEMMA ForgetStep ==
  ASSUME IInv, TypeInv', UNCHANGED <<table, thread, owner>>,
         NEW p \in Posts, remoteId' = [remoteId EXCEPT ![p] = NoRemote],
         live' \subseteq live, remoteId[p] \notin live',
         pc \in BeforePost => state'[cur] = state[cur],
         usr'.at # "fields"
  PROVE  IInv'
<1> USE DEF IInv, table, thread
<1>0. remoteId \in [Posts -> Remotes \cup {NoRemote}] /\ NoRemote \notin live'
  BY NoneAssumption DEF TypeOK, LocalTypes, SiteTypes
<1>1. Owned'
  BY DEF Owned
<1>2. Fresh'
  BY DEF Fresh
<1>3. pc \in AtWork => cur \in Posts
  BY DEF Located
<1>4. Unbound'
  BY <1>0, <1>3 DEF Unbound, AtWork, Labels
<1>5. NothingThere'
  <2>1. LivePosts(cur)' \subseteq LivePosts(cur)
    BY DEF LivePosts
  <2>2. pc = "readopted" => LivePosts(cur)' \subseteq {remoteId'[cur]}
    BY <1>0, <1>3, <2>1 DEF NothingThere, AtWork, Labels, LivePosts
  <2>3. QED
    BY <2>1, <2>2 DEF NothingThere
<1>6. OwnIds'
  BY <1>0 DEF OwnIds
<1>7. \A q \in Posts : LivePosts(q)' \subseteq LivePosts(q)
  BY DEF LivePosts
<1>8. AtMostOneRemotePost'
  BY <1>7 DEF AtMostOneRemotePost
<1>9. Traceable'
  BY <1>0, <1>7 DEF Traceable, OpenAttempt, LivePosts
<1>10. QED
  BY <1>1, <1>2, <1>4, <1>5, <1>6, <1>8, <1>9 DEF IInv, TypeInv

-----------------------------------------------------------------------------
(* The steps of the thread that the creation of a post is made of.         *)

(* What IInv gives wherever the thread works on a post. *)
LEMMA AtPost ==
  ASSUME IInv, pc \in AtWork
  PROVE  /\ cur \in Posts /\ runs \in Runs /\ status[cur] = "running"
         /\ item[runs][cur].remote \in Remotes \cup {NoRemote}
         /\ remoteId \in [Posts -> Remotes \cup {NoRemote}]
         /\ item \in [Runs -> [Posts -> Item]]
         /\ live \subseteq Remotes /\ NoRemote \notin live
<1>1. cur \in Posts /\ runs \in Runs /\ status[cur] = "running"
  BY DEF IInv, Located, AtWork
<1>2. item[runs][cur] \in Item
  BY <1>1 DEF IInv, TypeOK, TableTypes
<1>3. QED
  BY <1>1, <1>2, NoneAssumption DEF Item, IInv, TypeOK, TableTypes, LocalTypes, SiteTypes

(* An item of the newest run gets a tag or a remote id, the others stay.   *)
LEMMA ItemWritten ==
  ASSUME item \in [Runs -> [Posts -> Item]], NEW p \in Posts, runs \in Runs
  PROVE  /\ \A tag : /\ WithTag(p, tag)[runs][p].tag = tag
                     /\ WithTag(p, tag)[runs][p].remote = item[runs][p].remote
                     /\ \A k \in Runs, q \in Posts : k # runs \/ q # p =>
                          WithTag(p, tag)[k][q] = item[k][q]
         /\ \A r : /\ WithRemote(p, r)[runs][p].tag = item[runs][p].tag
                   /\ WithRemote(p, r)[runs][p].remote = r
                   /\ \A k \in Runs, q \in Posts : k # runs \/ q # p =>
                        WithRemote(p, r)[k][q] = item[k][q]
  BY DEF WithTag, WithRemote

LEMMA StartKeeps ==
  ASSUME IInv, TypeInv', NEW S \in SUBSET Posts, StartRun(S)
  PROVE  IInv'
<1> USE DEF IInv, StartRun, Rest
<1>0. runs \in 0 .. MaxRuns
  BY DEF TypeOK, TableTypes
<1>1. runs' = runs + 1 /\ runs \in Nat /\ item' = item /\ Runs \subseteq Nat
  BY <1>0, MaxRunsAssumption DEF Runs
<1>a. \A k \in Runs, p \in Posts : k > runs => item[k][p] = NoItem
  BY DEF Fresh
<1>b. \A k \in Runs : k > runs' => k > runs
  BY <1>1
<1>2. \A k \in Runs, p \in Posts : k > runs' => item'[k][p] = NoItem
  BY <1>1, <1>a, <1>b
<1>3. \A p \in Posts : runs' \in Runs => item'[runs'][p] = NoItem
  BY <1>1, <1>a
<1>4. Fresh'
  BY <1>2, <1>3 DEF Fresh
<1>5. Owned' /\ Unbound' /\ NothingThere'
  BY DEF Owned, BeforePost, Unbound, NothingThere
<1>6. OwnIds' /\ AtMostOneRemotePost'
  BY DEF OwnIds, AtMostOneRemotePost, LivePosts, site, local
<1>7. Traceable'
  BY DEF Traceable, LivePosts, OpenAttempt, site, local
<1>8. QED
  BY <1>4, <1>5, <1>6, <1>7 DEF IInv, TypeInv

LEMMA TakeKeeps ==
  ASSUME IInv, TypeInv', NEW p \in Posts, TakePost(p)
  PROVE  IInv'
<1> USE DEF IInv, TakePost
<1>1. runs \in Runs
  BY DEF Located
<1>2. \A q \in Posts : status'[q] = "pending" => status[q] = "pending"
  BY DEF TypeOK, TableTypes
<1>3. Fresh'
  BY <1>1, <1>2 DEF Fresh
<1>4. Owned' /\ Unbound' /\ NothingThere'
  BY DEF Owned, BeforePost, Unbound, NothingThere
<1>5. OwnIds' /\ AtMostOneRemotePost' /\ Traceable'
  BY DEF OwnIds, AtMostOneRemotePost, Traceable, OpenAttempt, LivePosts, site, local
<1>6. QED
  BY <1>3, <1>4, <1>5 DEF IInv, TypeInv

LEMMA ClaimKeeps ==
  ASSUME IInv, TypeInv', Claim
  PROVE  IInv'
<1>1. CASE ~Allowed(state[cur], "pushing")
  BY <1>1, QuietStep
     DEF Claim, Abandon, Creating, BeforePost, table, site
<1>2. CASE Allowed(state[cur], "pushing")
  <2>1. /\ pc = "claim" /\ pc' = "lookback" /\ bound' = remoteId[cur]
        /\ state' = [state EXCEPT ![cur] = "pushing"] /\ cur' = cur
        /\ UNCHANGED <<remoteId, runs, status, item, usr, owner, live>>
    BY <1>2 DEF Claim, table, site
  <2>2. cur \in Posts /\ state \in [Posts -> ALL_STATES]
    BY <2>1, AtPost DEF AtWork, Labels, IInv, TypeOK, LocalTypes
  <2>3. Owned'
    BY <2>1, <2>2 DEF Owned
  <2>4. Fresh' /\ Unbound' /\ NothingThere'
    BY <2>1 DEF IInv, Fresh, Unbound, NothingThere
  <2>5. OwnIds' /\ AtMostOneRemotePost' /\ Traceable'
    BY <2>1 DEF IInv, OwnIds, AtMostOneRemotePost, Traceable, OpenAttempt, LivePosts
  <2>6. QED
    BY <2>3, <2>4, <2>5 DEF IInv, TypeInv
<1>3. QED
  BY <1>1, <1>2

(* An attempt taken over is still open, in one more item. *)
LEMMA LookBackKeeps ==
  ASSUME IInv, TypeInv', LookBack
  PROVE  IInv'
<1> DEFINE earlier == Unresolved(cur, runs)
<1>1. /\ pc = "lookback" /\ cur' = cur /\ bound' = bound
      /\ UNCHANGED <<runs, status, usr, owner, live, state, remoteId>>
  BY DEF LookBack, Goto, site, local
<1>2. /\ cur \in Posts /\ runs \in Runs /\ status[cur] = "running"
      /\ item \in [Runs -> [Posts -> Item]] /\ live \subseteq Remotes /\ NoRemote \notin live
  BY <1>1, AtPost DEF AtWork, Labels
<1>3. item[runs][cur] = NoItem /\ ~OpenAttempt(cur, runs)
  BY <1>1 DEF IInv, Fresh, OpenAttempt, NoItem
<1>4. OwnIds' /\ AtMostOneRemotePost'
  BY <1>1 DEF IInv, OwnIds, AtMostOneRemotePost, LivePosts
<1>5. Owned' /\ state[cur] = "pushing"
  BY <1>1 DEF IInv, Owned, BeforePost
<1>6. CASE bound = NoRemote /\ earlier # {}
  <2>1. PICK k \in earlier : item' = WithTag(cur, item[k][cur].tag)
    BY <1>6 DEF LookBack
  <2>2. pc' = "find"
    BY <1>6 DEF LookBack, Goto
  <2>3. /\ item'[runs][cur].remote = NoRemote
        /\ \A j \in Runs, q \in Posts : j # runs \/ q # cur => item'[j][q] = item[j][q]
    BY <1>2, <1>3, <2>1, ItemWritten DEF NoItem
  <2>4. Fresh'
    <3>1. \A j \in Runs, p \in Posts : j > runs => item'[j][p] = NoItem
      BY <1>2, <2>3 DEF IInv, Fresh, Runs
    <3>2. \A p \in Posts : status[p] = "pending" => item'[runs][p] = NoItem
      BY <1>2, <2>3 DEF IInv, Fresh
    <3>3. QED
      BY <1>1, <2>2, <2>3, <3>1, <3>2 DEF Fresh
  <2>5. Unbound' /\ NothingThere'
    BY <1>1, <1>6, <2>2 DEF IInv, Unbound, NothingThere
  <2>6. Traceable'
    <3>1. \A p \in Posts, j \in Runs : OpenAttempt(p, j) => OpenAttempt(p, j)'
      BY <1>1, <1>3, <2>3 DEF OpenAttempt
    <3>2. QED
      BY <1>1, <3>1 DEF IInv, Traceable, LivePosts
  <2>7. QED
    BY <1>4, <1>5, <2>4, <2>5, <2>6 DEF IInv, TypeInv
<1>7. CASE ~(bound = NoRemote /\ earlier # {})
  <2>1. pc' = "preflight" /\ item' = item
    BY <1>7 DEF LookBack
  <2>2. Fresh' /\ Unbound'
    BY <1>1, <1>3, <2>1 DEF IInv, Fresh, Unbound, NoItem
  <2>3. bound = NoRemote => LivePosts(cur) = {}
    <3>1. SUFFICES ASSUME bound = NoRemote, NEW r \in LivePosts(cur) PROVE FALSE
      OBVIOUS
    <3>2. remoteId[cur] = NoRemote
      BY <1>1, <3>1 DEF IInv, Unbound
    <3>3. PICK k \in Runs : OpenAttempt(cur, k)
      BY <1>2, <3>1, <3>2 DEF IInv, Traceable, LivePosts
    <3>4. k \in earlier
      BY <1>3, <3>3 DEF Unresolved
    <3>5. QED
      BY <1>7, <3>1, <3>4
  <2>4. NothingThere'
    BY <1>1, <2>1, <2>3 DEF NothingThere, LivePosts
  <2>5. Traceable'
    BY <1>1, <2>1 DEF IInv, Traceable, OpenAttempt, LivePosts
  <2>6. QED
    BY <1>4, <1>5, <2>2, <2>4, <2>5 DEF IInv, TypeInv
<1>8. QED
  BY <1>6, <1>7

(* The draft found is this post's own, and the only one. *)
LEMMA FindAdoptsKeeps ==
  ASSUME ~MixUps, IInv, TypeInv', NEW r \in Remotes, FindAdopts(r)
  PROVE  IInv'
<1>1. /\ pc = "find" /\ pc' = "readopted" /\ cur' = cur /\ r \in Candidates(cur)
      /\ remoteId' = [remoteId EXCEPT ![cur] = r]
      /\ UNCHANGED <<item, runs, status, usr, owner, live>>
  BY DEF FindAdopts, Goto, table, site
<1>2. /\ cur \in Posts /\ remoteId \in [Posts -> Remotes \cup {NoRemote}]
      /\ remoteId[cur] = NoRemote /\ NoRemote \notin Remotes
  BY <1>1, AtPost, NoneAssumption DEF AtWork, Labels, IInv, Unbound
<1>3. r \in LivePosts(cur)
  BY <1>1 DEF Candidates, LivePosts
<1>4. LivePosts(cur) \subseteq {r}
  BY <1>2, <1>3 DEF IInv, AtMostOneRemotePost
<1>5. Owned' /\ Unbound'
  BY <1>1 DEF Owned, Unbound, BeforePost
<1>6. Fresh'
  BY <1>1 DEF IInv, Fresh
<1>7. NothingThere'
  BY <1>1, <1>2, <1>4 DEF NothingThere, LivePosts
<1>8. OwnIds'
  BY <1>1, <1>2, <1>3 DEF IInv, OwnIds, LivePosts, Located
<1>9. AtMostOneRemotePost'
  BY <1>1 DEF IInv, AtMostOneRemotePost, LivePosts
<1>10. Traceable'
  BY <1>1, <1>2, <1>4 DEF IInv, Traceable, OpenAttempt, LivePosts
<1>11. QED
  BY <1>5, <1>6, <1>7, <1>8, <1>9, <1>10 DEF IInv, TypeInv

LEMMA ReadoptedKeeps ==
  ASSUME IInv, TypeInv', Readopted
  PROVE  IInv'
<1>1. CASE ~Allowed(state[cur], "pushing")
  BY <1>1, QuietStep DEF Readopted, Abandon, Creating, BeforePost, site
<1>2. CASE Allowed(state[cur], "pushing")
  <2>1. /\ pc = "readopted" /\ pc' = "preflight" /\ cur' = cur /\ bound' = remoteId[cur]
        /\ item' = WithRemote(cur, remoteId[cur])
        /\ state' = [state EXCEPT ![cur] = "pushing"]
        /\ UNCHANGED <<remoteId, runs, status, usr, owner, live>>
    BY <1>2 DEF Readopted, site
  <2>2. /\ cur \in Posts /\ runs \in Runs /\ status[cur] = "running"
        /\ item \in [Runs -> [Posts -> Item]] /\ live \subseteq Remotes /\ NoRemote \notin live
        /\ state \in [Posts -> ALL_STATES]
    BY <2>1, AtPost DEF AtWork, Labels, IInv, TypeOK, LocalTypes
  <2>3. /\ item'[runs][cur].remote = remoteId[cur]
        /\ \A j \in Runs, q \in Posts : j # runs \/ q # cur => item'[j][q] = item[j][q]
    BY <2>1, <2>2, ItemWritten
  <2>4. LivePosts(cur) \subseteq {remoteId[cur]}
    BY <2>1 DEF IInv, NothingThere
  <2>5. Owned'
    BY <2>1, <2>2 DEF Owned
  <2>6. Fresh'
    <3>1. \A j \in Runs, p \in Posts : j > runs => item'[j][p] = NoItem
      BY <2>2, <2>3 DEF IInv, Fresh, Runs
    <3>2. \A p \in Posts : status[p] = "pending" => item'[runs][p] = NoItem
      BY <2>2, <2>3 DEF IInv, Fresh
    <3>3. QED
      BY <2>1, <2>3, <3>1, <3>2 DEF Fresh
  <2>7. Unbound'
    BY <2>1 DEF Unbound
  <2>8. NothingThere'
    BY <2>1, <2>2, <2>4 DEF NothingThere, LivePosts
  <2>9. OwnIds' /\ AtMostOneRemotePost'
    BY <2>1 DEF IInv, OwnIds, AtMostOneRemotePost, LivePosts
  <2>10. Traceable'
    <3>1. \A p \in Posts \ {cur}, j \in Runs : OpenAttempt(p, j) => OpenAttempt(p, j)'
      BY <2>3 DEF OpenAttempt
    <3>2. QED
      BY <2>1, <2>4, <3>1 DEF IInv, Traceable, LivePosts
  <2>11. QED
    BY <2>5, <2>6, <2>7, <2>8, <2>9, <2>10 DEF IInv, TypeInv
<1>3. QED
  BY <1>1, <1>2

LEMMA PreflightKeeps ==
  ASSUME IInv, TypeInv', PreflightPasses
  PROVE  IInv'
<1>1. /\ pc = "preflight" /\ pc' = AfterPreflight
      /\ UNCHANGED <<cur, bound, state, remoteId, item, status, runs, usr, owner, live>>
  BY DEF PreflightPasses, Goto, local, table, site
<1>2. CASE bound = NoRemote
  <2>1. pc' = "attempt"
    BY <1>1, <1>2 DEF AfterPreflight
  <2>2. Owned' /\ Unbound'
    BY <1>1, <1>2, <2>1 DEF IInv, Owned, Unbound, BeforePost
  <2>3. Fresh'
    BY <1>1, <1>2, <2>1 DEF IInv, Fresh
  <2>4. NothingThere'
    BY <1>1, <1>2, <2>1 DEF IInv, NothingThere, LivePosts
  <2>5. OwnIds' /\ AtMostOneRemotePost' /\ Traceable'
    BY <1>1 DEF IInv, OwnIds, AtMostOneRemotePost, Traceable, OpenAttempt, LivePosts
  <2>6. QED
    BY <2>2, <2>3, <2>4, <2>5 DEF IInv, TypeInv
<1>3. CASE bound # NoRemote
  BY <1>1, <1>3, QuietStep DEF AfterPreflight, Creating, BeforePost
<1>4. QED
  BY <1>2, <1>3

LEMMA RecordAttemptKeeps ==
  ASSUME IInv, TypeInv', RecordAttempt
  PROVE  IInv'
<1>1. /\ pc = "attempt" /\ pc' = "create" /\ item' = WithTag(cur, runs)
      /\ UNCHANGED <<cur, bound, state, remoteId, status, runs, usr, owner, live>>
  BY DEF RecordAttempt, Attempted, Goto, site
<1>2. /\ cur \in Posts /\ runs \in Runs /\ status[cur] = "running" /\ runs # 0
      /\ item \in [Runs -> [Posts -> Item]]
  BY <1>1, AtPost DEF AtWork, Labels, Runs
<1>3. /\ item'[runs][cur].tag = runs /\ item'[runs][cur].remote = item[runs][cur].remote
      /\ \A j \in Runs, q \in Posts : j # runs \/ q # cur => item'[j][q] = item[j][q]
  BY <1>1, <1>2, ItemWritten
<1>4. Owned' /\ Unbound'
  BY <1>1 DEF IInv, Owned, Unbound, BeforePost
<1>5. Fresh'
  <2>1. \A j \in Runs, p \in Posts : j > runs => item'[j][p] = NoItem
    BY <1>2, <1>3 DEF IInv, Fresh, Runs
  <2>2. \A p \in Posts : status[p] = "pending" => item'[runs][p] = NoItem
    BY <1>2, <1>3 DEF IInv, Fresh
  <2>3. item'[runs][cur].remote = NoRemote /\ item'[runs][cur].tag # 0
    BY <1>1, <1>2, <1>3 DEF IInv, Fresh
  <2>4. QED
    BY <1>1, <2>1, <2>2, <2>3 DEF Fresh
<1>6. NothingThere'
  BY <1>1 DEF IInv, NothingThere, LivePosts
<1>7. OwnIds' /\ AtMostOneRemotePost'
  BY <1>1 DEF IInv, OwnIds, AtMostOneRemotePost, LivePosts
<1>8. Traceable'
  <2>1. \A p \in Posts, j \in Runs : OpenAttempt(p, j) => OpenAttempt(p, j)'
    BY <1>2, <1>3 DEF OpenAttempt
  <2>2. QED
    BY <1>1, <2>1 DEF IInv, Traceable, LivePosts
<1>9. QED
  BY <1>4, <1>5, <1>6, <1>7, <1>8 DEF IInv, TypeInv

(* The heart of the matter: post.create lands only for a post of which     *)
(* CivitAI has nothing, and with the attempt on record.                    *)
LEMMA CreateLandsKeeps ==
  ASSUME IInv, TypeInv', NEW r \in Remotes, CreateLands(r)
  PROVE  IInv'
<1>1. /\ pc = "create" /\ owner[r] = NoPost /\ cur' = cur
      /\ owner' = [owner EXCEPT ![r] = cur] /\ live' = live \cup {r}
      /\ UNCHANGED <<state, remoteId, item, status, runs, usr>>
  BY DEF CreateLands, Abandon, local, table
<1>2. /\ cur \in Posts /\ runs \in Runs /\ owner \in [Remotes -> Posts \cup {NoPost}]
      /\ remoteId \in [Posts -> Remotes \cup {NoRemote}] /\ NoPost \notin Posts
      /\ live \subseteq Remotes
  BY <1>1, AtPost, NoneAssumption DEF AtWork, Labels, IInv, TypeOK, SiteTypes
<1>3. r \notin live /\ LivePosts(cur) = {} /\ remoteId[cur] = NoRemote
  BY <1>1 DEF IInv, OwnIds, NothingThere, Unbound
<1>4. \A p \in Posts : {s \in live' : owner'[s] = p} = IF p = cur THEN {r} ELSE LivePosts(p)
  BY <1>1, <1>2, <1>3 DEF LivePosts
<1>5. pc' = "failing" \/ (pc' = "created" /\ bound' = r)
  BY DEF CreateLands, Abandon
<1>6. Owned'
  BY <1>1, <1>5 DEF IInv, Owned, BeforePost
<1>7. Fresh' /\ Unbound'
  BY <1>1, <1>3, <1>5 DEF IInv, Fresh, Unbound
<1>8. NothingThere'
  <2>1. owner'[r] = cur
    BY <1>1, <1>2
  <2>2. QED
    BY <1>1, <1>2, <1>4, <1>5, <2>1 DEF NothingThere, LivePosts
<1>9. OwnIds'
  <2>1. \A p \in Posts : remoteId'[p] # NoRemote => owner'[remoteId'[p]] = p
    BY <1>1, <1>2 DEF IInv, OwnIds
  <2>2. \A s \in live' : owner'[s] # NoPost
    BY <1>1, <1>2 DEF IInv, OwnIds
  <2>3. ASSUME usr.at = "fields" PROVE usr.remote # r
    <3>1. usr.post \in Posts /\ usr.remote \in Remotes /\ remoteId[usr.post] = usr.remote
      BY <2>3 DEF IInv, OwnIds, Located
    <3>2. owner[usr.remote] = usr.post
      BY <3>1, NoneAssumption DEF IInv, OwnIds
    <3>3. QED
      BY <1>1, <1>2, <3>1, <3>2
  <2>4. usr'.at = "fields" => /\ usr'.remote \in Remotes \ live'
                              /\ remoteId'[usr'.post] = usr'.remote
    BY <1>1, <2>3 DEF IInv, OwnIds
  <2>5. QED
    BY <2>1, <2>2, <2>4 DEF OwnIds
<1>10. AtMostOneRemotePost'
  <2>1. \A p \in Posts : \A q, s \in {t \in live' : owner'[t] = p} : q = s
    BY <1>4 DEF IInv, AtMostOneRemotePost
  <2>2. QED
    BY <2>1 DEF AtMostOneRemotePost, LivePosts
<1>11. Traceable'
  <2>1. OpenAttempt(cur, runs)
    BY <1>1 DEF IInv, Fresh, OpenAttempt
  <2>2. \A p \in Posts, k \in Runs : OpenAttempt(p, k)' = OpenAttempt(p, k)
    BY <1>1 DEF OpenAttempt
  <2>3. QED
    BY <1>1, <1>2, <1>4, <2>1, <2>2 DEF IInv, Traceable, LivePosts
<1>12. QED
  BY <1>6, <1>7, <1>8, <1>9, <1>10, <1>11 DEF IInv, TypeInv

(* From here on the post has the id, and the attempt is closed. *)
LEMMA RecordCreatedKeeps ==
  ASSUME IInv, TypeInv', RecordCreated
  PROVE  IInv'
<1>1. CASE ~Unknown(bound)
  BY <1>1, QuietStep DEF RecordCreated, Abandon, Creating, BeforePost, site
<1>2. CASE Unknown(bound)
  <2>1. /\ pc = "created" /\ pc' = "tags" /\ cur' = cur
        /\ remoteId' = [remoteId EXCEPT ![cur] = bound]
        /\ item' = WithRemote(cur, bound)
        /\ UNCHANGED <<runs, status, usr, owner, live>>
    BY <1>2 DEF RecordCreated, site
  <2>2. /\ cur \in Posts /\ runs \in Runs /\ status[cur] = "running" /\ bound \in Remotes
        /\ item \in [Runs -> [Posts -> Item]] /\ NoRemote \notin Remotes
        /\ remoteId \in [Posts -> Remotes \cup {NoRemote}]
    BY <2>1, AtPost, NoneAssumption DEF AtWork, Labels, IInv, Located, OnPost
  <2>3. \A j \in Runs, q \in Posts : j # runs \/ q # cur => item'[j][q] = item[j][q]
    BY <2>1, <2>2, ItemWritten
  <2>4. /\ LivePosts(cur) \subseteq {bound} /\ owner[bound] = cur
        /\ remoteId[cur] = NoRemote
    BY <2>1 DEF IInv, NothingThere, Unbound
  <2>5. Owned' /\ Unbound' /\ NothingThere'
    BY <2>1 DEF Owned, BeforePost, Unbound, NothingThere
  <2>6. Fresh'
    <3>1. \A j \in Runs, p \in Posts : j > runs => item'[j][p] = NoItem
      BY <2>2, <2>3 DEF IInv, Fresh, Runs
    <3>2. \A p \in Posts : status[p] = "pending" => item'[runs][p] = NoItem
      BY <2>2, <2>3 DEF IInv, Fresh
    <3>3. QED
      BY <2>1, <3>1, <3>2 DEF Fresh
  <2>7. OwnIds'
    BY <2>1, <2>2, <2>4 DEF IInv, OwnIds, Located
  <2>8. AtMostOneRemotePost'
    BY <2>1 DEF IInv, AtMostOneRemotePost, LivePosts
  <2>9. Traceable'
    <3>1. \A p \in Posts \ {cur}, j \in Runs : OpenAttempt(p, j) => OpenAttempt(p, j)'
      BY <2>3 DEF OpenAttempt
    <3>2. QED
      BY <2>1, <2>2, <2>4, <3>1 DEF IInv, Traceable, LivePosts
  <2>10. QED
    BY <2>5, <2>6, <2>7, <2>8, <2>9 DEF IInv, TypeInv
<1>3. QED
  BY <1>1, <1>2

-----------------------------------------------------------------------------
(* The user, a request half way through, and the site. *)

(* guard_post_mutation: the post a request is about is not being created.  *)
LEMMA Guarded ==
  ASSUME IInv, NEW p \in Posts, UserMay(p)
  PROVE  (pc \in BeforePost => cur # p) /\ usr = IdleUser
  BY DEF IInv, Owned, UserMay

LEMMA OtherRow ==
  ASSUME IInv, NEW p \in Posts, UserMay(p),
         state' = state \/ \E s : state' = [state EXCEPT ![p] = s]
  PROVE  pc \in BeforePost => state'[cur] = state[cur]
<1>1. pc \in BeforePost => cur \in Posts /\ cur # p
  BY Guarded, AtPost DEF BeforePost, AtWork, Labels
<1>2. QED
  BY <1>1 DEF IInv, TypeOK, LocalTypes

(* The draft the user names is the post's own, and the only one. *)
LEMMA AdoptByHandKeeps ==
  ASSUME ~MixUps, IInv, TypeInv', NEW p \in Posts, NEW r \in Remotes, AdoptByHand(p, r)
  PROVE  IInv'
<1>1. /\ remoteId' = [remoteId EXCEPT ![p] = r] /\ r \in live /\ owner[r] = p
      /\ UNCHANGED <<runs, open, status, item, pc, cur, bound, usr, owner, live>>
  BY DEF AdoptByHand, table, thread, site
<1>2. (pc \in BeforePost => cur # p) /\ usr.at # "fields"
  BY Guarded DEF AdoptByHand, IdleUser
<1>3. remoteId \in [Posts -> Remotes \cup {NoRemote}] /\ NoRemote \notin Remotes
  BY NoneAssumption DEF IInv, TypeOK, LocalTypes
<1>4. LivePosts(p) \subseteq {r}
  BY <1>1 DEF IInv, AtMostOneRemotePost, LivePosts
<1>5. Owned'
  <2>1. pc \in BeforePost => state'[cur] = state[cur]
    BY OtherRow DEF AdoptByHand, Synced
  <2>2. QED
    BY <1>1, <2>1 DEF IInv, Owned
<1>6. Fresh'
  BY <1>1 DEF IInv, Fresh
<1>7. Unbound'
  BY <1>1, <1>2, <1>3 DEF IInv, Unbound, BeforePost
<1>8. NothingThere'
  BY <1>1, <1>2, <1>3, <1>4 DEF IInv, NothingThere, LivePosts
<1>9. OwnIds'
  BY <1>1, <1>2, <1>3 DEF IInv, OwnIds
<1>10. AtMostOneRemotePost'
  BY <1>1 DEF IInv, AtMostOneRemotePost, LivePosts
<1>11. Traceable'
  BY <1>1, <1>3, <1>4 DEF IInv, Traceable, OpenAttempt, LivePosts
<1>12. QED
  BY <1>5, <1>6, <1>7, <1>8, <1>9, <1>10, <1>11 DEF IInv, TypeInv

LEMMA UserKeeps ==
  ASSUME IInv, TypeInv', NEW p \in Posts
  PROVE  /\ \A target \in {"ready", "draft", "archived"} : MarkState(p, target) => IInv'
         /\ SyncByHand(p) => IInv'
         /\ Reschedule(p) => IInv'
         /\ DeleteRemote(p) => IInv'
<1>1. ASSUME NEW target \in {"ready", "draft", "archived"}, MarkState(p, target)
      PROVE  IInv'
  <2>1. pc \in BeforePost => state'[cur] = state[cur]
    BY <1>1, OtherRow DEF MarkState
  <2>2. QED
    BY <1>1, <2>1, Guarded, OutsideStep DEF MarkState, site, IdleUser
<1>2. ASSUME SyncByHand(p) PROVE IInv'
  <2>1. pc \in BeforePost => state'[cur] = state[cur]
    BY <1>2, OtherRow DEF SyncByHand, SyncOne, Synced, MarkedMissing
  <2>2. QED
    BY <1>2, <2>1, Guarded, OutsideStep DEF SyncByHand, site, IdleUser
<1>3. ASSUME Reschedule(p) PROVE IInv'
  <2>1. pc \in BeforePost => state'[cur] = state[cur]
    BY <1>3, OtherRow DEF Reschedule, Synced
  <2>2. QED
    BY <1>3, <2>1, Guarded, OutsideStep DEF Reschedule, IdleUser
<1>4. ASSUME DeleteRemote(p) PROVE IInv'
  <2>1. /\ UserMay(p) /\ live' = live \ {remoteId[p]} /\ remoteId[p] \in Remotes
        /\ UNCHANGED <<table, thread, owner>>
    BY <1>4 DEF DeleteRemote, Gone, IInv, TypeOK, LocalTypes
  <2>2. CASE UNCHANGED <<state, remoteId, pubAt, img, usr>>
    BY <2>1, <2>2, Guarded, OutsideStep DEF IdleUser
  <2>3. CASE /\ usr' = [at |-> "fields", post |-> p, remote |-> remoteId[p]]
             /\ UNCHANGED <<state, remoteId, pubAt, img>>
    BY <2>1, <2>3, OutsideStep
  <2>4. CASE /\ remoteId' = [remoteId EXCEPT ![p] = NoRemote]
             /\ state' = [state EXCEPT ![p] = Moved(@, "draft")]
             /\ UNCHANGED usr
    <3>1. pc \in BeforePost => state'[cur] = state[cur]
      BY <2>1, <2>4, OtherRow
    <3>2. usr'.at # "fields"
      BY <2>1, <2>4, Guarded DEF IdleUser
    <3>3. QED
      BY <2>1, <2>4, <3>1, <3>2, ForgetStep
  <2>5. QED
    BY <1>4, <2>2, <2>3, <2>4 DEF DeleteRemote
<1>5. QED
  BY <1>1, <1>2, <1>3, <1>4

LEMMA RequestKeeps ==
  ASSUME IInv, TypeInv'
  PROVE  /\ DeleteFields => IInv'
         /\ DeleteUploads => IInv'
         /\ DeleteState => IInv'
<1>1. ASSUME DeleteFields PROVE IInv'
  <2>1. /\ usr.post \in Posts /\ remoteId[usr.post] \notin live
        /\ remoteId' = [remoteId EXCEPT ![usr.post] = NoRemote]
        /\ UNCHANGED <<state, table, thread, owner, live>>
    BY <1>1 DEF DeleteFields, site, IInv, Located, OwnIds
  <2>2. usr'.at # "fields"
    BY <1>1 DEF DeleteFields, IInv, TypeOK, RequestType
  <2>3. QED
    BY <2>1, <2>2, ForgetStep
<1>2. ASSUME DeleteUploads PROVE IInv'
  <2>1. usr'.at # "fields"
    BY <1>2 DEF DeleteUploads, IInv, TypeOK, RequestType
  <2>2. QED
    BY <1>2, <2>1, OutsideStep DEF DeleteUploads, site
<1>3. ASSUME DeleteState PROVE IInv'
  <2>1. Moved("pushing", "draft") = "pushing"
    BY DEF Moved, Allowed, TRANSITIONS
  <2>2. pc \in BeforePost => state'[cur] = state[cur]
    <3>1. SUFFICES ASSUME pc \in BeforePost PROVE state'[cur] = state[cur]
      OBVIOUS
    <3>2. state[cur] = "pushing" /\ state \in [Posts -> ALL_STATES]
      BY <3>1 DEF IInv, Owned, TypeOK, LocalTypes
    <3>3. cur \in Posts
      BY <3>1, AtPost DEF BeforePost, AtWork, Labels
    <3>4. QED
      BY <1>3, <2>1, <3>2, <3>3 DEF DeleteState
  <2>3. QED
    BY <1>3, <2>2, OutsideStep DEF DeleteState, IdleUser, site
<1>4. QED
  BY <1>1, <1>2, <1>3

LEMMA SiteKeeps ==
  ASSUME IInv, TypeInv', NEW r \in Remotes
  PROVE  /\ TimePasses(r) => IInv'
         /\ OwnerPublishes(r) => IInv'
         /\ OwnerDeletes(r) => IInv'
<1>0. usr.at = "fields" => usr.remote \in Remotes \ live /\ remoteId[usr.post] = usr.remote
  BY DEF IInv, OwnIds
<1>1. TimePasses(r) => IInv'
  BY <1>0, OutsideStep DEF TimePasses
<1>2. OwnerPublishes(r) => IInv'
  BY <1>0, OutsideStep DEF OwnerPublishes, local
<1>3. OwnerDeletes(r) => IInv'
  BY <1>0, OutsideStep DEF OwnerDeletes, local
<1>4. QED
  BY <1>1, <1>2, <1>3

-----------------------------------------------------------------------------
(* The steps of the thread after, or outside, a creation. *)
LEMMA QuietKeeps ==
  ASSUME IInv, TypeInv'
  PROVE  /\ CancelRest \/ FinishRun \/ Crash \/ Recover => IInv'
         /\ FindNothing \/ FindFails \/ PreflightFails \/ PreflightHolds \/ CreateFails => IInv'
         /\ TagsPlain \/ TagsCleared \/ UploadFails \/ Uploaded => IInv'
         /\ (\E dropped \in SUBSET Runs, removed \in BOOLEAN : TagsFail(dropped, removed)) => IInv'
         /\ (\E i \in Images : Upload(i)) => IInv'
         /\ (\E i \in Images, times \in 1 .. 2 : AttachLands(i, times)) => IInv'
         /\ RecordAttachment \/ AttachFails \/ AttachedAll => IInv'
         /\ PublishNothing \/ PublishNow \/ ReadTime \/ SendTime \/ PublishFails => IInv'
         /\ RecordTime \/ ConfirmReads \/ ConfirmFails \/ FinishPost => IInv'
         /\ FailSync \/ FailRecords => IInv'
<1> USE DEF Creating, BeforePost, Rest, Goto, Abandon
<1>0. status \in [Posts -> ItemStatus]
  BY DEF IInv, TypeOK, TableTypes
<1>1. CancelRest \/ FinishRun \/ Crash \/ Recover => IInv'
  BY <1>0, QuietStep DEF CancelRest, FinishRun, Crash, Recover, local, table, thread, site
<1>2. FindNothing \/ FindFails \/ PreflightFails \/ PreflightHolds \/ CreateFails => IInv'
  BY <1>0, QuietStep
     DEF FindNothing, FindFails, PreflightFails, PreflightHolds, CreateFails, local, table, site
<1>3. TagsPlain \/ TagsCleared \/ UploadFails \/ Uploaded => IInv'
  BY QuietStep DEF TagsPlain, TagsCleared, UploadFails, Uploaded, local, table, site
<1>4. (\E dropped \in SUBSET Runs, removed \in BOOLEAN : TagsFail(dropped, removed)) => IInv'
  BY QuietStep DEF TagsFail, MarkerStuck, local, table
<1>5. (\E i \in Images : Upload(i)) => IInv'
  BY QuietStep DEF Upload, local, table, site
<1>6. (\E i \in Images, times \in 1 .. 2 : AttachLands(i, times)) => IInv'
  BY QuietStep DEF AttachLands, local, table
<1>7. RecordAttachment \/ AttachFails \/ AttachedAll => IInv'
  BY QuietStep DEF RecordAttachment, AttachFails, AttachedAll, local, table, site
<1>8. PublishNothing \/ PublishNow \/ ReadTime \/ SendTime \/ PublishFails => IInv'
  BY QuietStep
     DEF PublishNothing, PublishNow, ReadTime, SendTime, PublishFails, local, table, site
<1>9. RecordTime \/ ConfirmReads \/ ConfirmFails \/ FinishPost => IInv'
  BY <1>0, QuietStep
     DEF RecordTime, ConfirmReads, ConfirmFails, FinishPost, local, table, site
<1>10. FailSync \/ FailRecords => IInv'
  BY <1>0, QuietStep DEF FailSync, FailRecords, OnToTheNext, local, table, site
<1>11. QED
  BY <1>1, <1>2, <1>3, <1>4, <1>5, <1>6, <1>7, <1>8, <1>9, <1>10

LEMMA BindingNext ==
  ASSUME ~MixUps, IInv, [Next]_vars
  PROVE  IInv'
<1>0. TypeInv'
  BY TypeNext DEF IInv, TypeInv
<1>1. CASE ThreadStep
  BY <1>0, <1>1, TakeKeeps, ClaimKeeps, LookBackKeeps, FindAdoptsKeeps, ReadoptedKeeps,
     PreflightKeeps, RecordAttemptKeeps, CreateLandsKeeps, RecordCreatedKeeps, QuietKeeps
     DEF ThreadStep
<1>2. CASE UserStep
  BY <1>0, <1>2, StartKeeps, UserKeeps, AdoptByHandKeeps DEF UserStep
<1>3. CASE RequestStep
  BY <1>0, <1>3, RequestKeeps DEF RequestStep
<1>4. CASE SiteStep
  BY <1>0, <1>4, SiteKeeps DEF SiteStep
<1>5. CASE Crash \/ Recover
  BY <1>0, <1>5, QuietKeeps
<1>6. CASE UNCHANGED vars
  <2>1. UNCHANGED <<remoteId, state, table, thread, owner, live, usr>>
    BY <1>6 DEF vars, local, site
  <2>2. usr.at = "fields" => usr.remote \in Remotes \ live /\ remoteId[usr.post] = usr.remote
    BY DEF IInv, OwnIds
  <2>3. QED
    BY <1>0, <2>1, <2>2, OutsideStep
<1>7. QED
  BY <1>1, <1>2, <1>3, <1>4, <1>5, <1>6 DEF Next

-----------------------------------------------------------------------------
(* The inductive invariant holds of every execution. *)
THEOREM BindingInvariant ==
  ASSUME ~MixUps
  PROVE  Spec => []IInv
<1>1. Init => IInv
  BY BindingInit
<1>2. IInv /\ [Next]_vars => IInv'
  BY BindingNext
<1>3. QED
  BY <1>1, <1>2, PTL DEF Spec

(* "A retry must not create a second post": whatever answers are lost and  *)
(* whenever the process dies, CivitAI never holds two posts created for    *)
(* the same local post.                                                    *)
THEOREM NoSecondPost ==
  ASSUME ~MixUps
  PROVE  Spec => []AtMostOneRemotePost
<1>1. IInv => AtMostOneRemotePost
  BY DEF IInv
<1>2. QED
  BY <1>1, BindingInvariant, PTL

(* A post that exists on CivitAI is bound to its local post, or an item    *)
(* says that an attempt is open: it can always be found again.             *)
THEOREM NeverLost ==
  ASSUME ~MixUps
  PROVE  Spec => []Traceable
<1>1. IInv => Traceable
  BY DEF IInv
<1>2. QED
  BY <1>1, BindingInvariant, PTL

-----------------------------------------------------------------------------
(* Only a few steps touch a remote id; each finds none in use, or one that *)
(* CivitAI does not hold any more.                                         *)
IdsKept == \A p \in Posts :
  remoteId[p] \in live /\ remoteId'[p] # remoteId[p] => remoteId[p] \notin live'

LEMMA ThreadKeepsIds ==
  ASSUME IInv, ThreadStep
  PROVE  IdsKept
<1>1. CASE UNCHANGED remoteId
  BY <1>1 DEF IdsKept
<1>2. CASE pc \in {"find", "created"} /\ remoteId[cur] = NoRemote
           /\ (\E r : remoteId' = [remoteId EXCEPT ![cur] = r])
  <2>1. NoRemote \notin live /\ remoteId \in [Posts -> Remotes \cup {NoRemote}]
    BY <1>2, AtPost DEF AtWork, Labels
  <2>2. QED
    BY <1>2, <2>1 DEF IdsKept
<1>3. CASE \E r \in Remotes : FindAdopts(r)
  BY <1>2, <1>3 DEF FindAdopts, IInv, Unbound
<1>4. CASE RecordCreated
  BY <1>1, <1>2, <1>4 DEF RecordCreated, IInv, Unbound
<1>5. CASE (\E p \in Posts : TakePost(p)) \/ CancelRest \/ FinishRun \/ Claim \/ LookBack
  BY <1>1, <1>5 DEF TakePost, CancelRest, FinishRun, Claim, LookBack, local
<1>6. CASE FindNothing \/ FindFails \/ Readopted \/ PreflightPasses \/ PreflightFails
           \/ PreflightHolds \/ RecordAttempt \/ CreateFails
           \/ (\E r \in Remotes : CreateLands(r))
  BY <1>1, <1>6 DEF FindNothing, FindFails, Readopted, PreflightPasses, PreflightFails,
     PreflightHolds, RecordAttempt, CreateFails, CreateLands, local
<1>7. CASE TagsPlain \/ TagsCleared
           \/ (\E dropped \in SUBSET Runs, removed \in BOOLEAN : TagsFail(dropped, removed))
           \/ (\E i \in Images : Upload(i)) \/ UploadFails \/ Uploaded
  BY <1>1, <1>7 DEF TagsPlain, TagsCleared, TagsFail, Upload, UploadFails, Uploaded, local
<1>8. CASE (\E i \in Images, times \in 1 .. 2 : AttachLands(i, times))
           \/ RecordAttachment \/ AttachFails \/ AttachedAll
  BY <1>1, <1>8 DEF AttachLands, RecordAttachment, AttachFails, AttachedAll, local
<1>9. CASE PublishNothing \/ PublishNow \/ ReadTime \/ SendTime \/ PublishFails \/ RecordTime
  BY <1>1, <1>9 DEF PublishNothing, PublishNow, ReadTime, SendTime, PublishFails,
     RecordTime, local
<1>10. CASE ConfirmReads \/ ConfirmFails \/ FinishPost \/ FailSync \/ FailRecords
  BY <1>1, <1>10 DEF ConfirmReads, ConfirmFails, FinishPost, FailSync, FailRecords, local
<1>11. QED
  BY <1>3, <1>4, <1>5, <1>6, <1>7, <1>8, <1>9, <1>10 DEF ThreadStep

LEMMA OthersKeepIds ==
  ASSUME ~MixUps, IInv, UserStep \/ RequestStep \/ SiteStep \/ Crash \/ Recover
  PROVE  IdsKept
<1>0. remoteId \in [Posts -> Remotes \cup {NoRemote}]
  BY DEF IInv, TypeOK, LocalTypes
<1>1. CASE UNCHANGED remoteId
  BY <1>1 DEF IdsKept
<1>2. ASSUME NEW p \in Posts, NEW r \in Remotes, AdoptByHand(p, r) PROVE IdsKept
  <2>1. remoteId' = [remoteId EXCEPT ![p] = r] /\ r \in LivePosts(p)
    BY <1>2 DEF AdoptByHand, LivePosts
  <2>2. ASSUME remoteId[p] \in live PROVE remoteId[p] = r
    <3>1. remoteId[p] # NoRemote
      BY <2>2, NoneAssumption DEF IInv, TypeOK, SiteTypes
    <3>2. remoteId[p] \in LivePosts(p)
      BY <2>2, <3>1 DEF IInv, OwnIds, LivePosts
    <3>3. QED
      BY <2>1, <3>2 DEF IInv, AtMostOneRemotePost
  <2>3. QED
    BY <1>0, <2>1, <2>2 DEF IdsKept
<1>3. ASSUME NEW p \in Posts, DeleteRemote(p) PROVE IdsKept
  BY <1>0, <1>3 DEF DeleteRemote, Gone, IdsKept
<1>4. CASE DeleteFields
  <2>1. remoteId[usr.post] \notin live /\ remoteId' = [remoteId EXCEPT ![usr.post] = NoRemote]
    BY <1>4 DEF DeleteFields, IInv, OwnIds
  <2>2. QED
    BY <1>0, <2>1 DEF IdsKept
<1>5. CASE (\E S \in SUBSET Posts : StartRun(S))
           \/ (\E p \in Posts, target \in {"ready", "draft", "archived"} : MarkState(p, target))
           \/ (\E p \in Posts : SyncByHand(p) \/ Reschedule(p))
  BY <1>1, <1>5 DEF StartRun, MarkState, SyncByHand, Reschedule, local
<1>6. CASE DeleteUploads \/ DeleteState \/ SiteStep \/ Crash \/ Recover
  BY <1>1, <1>6 DEF DeleteUploads, DeleteState, SiteStep, TimePasses, OwnerPublishes,
     OwnerDeletes, Crash, Recover, local
<1>7. QED
  BY <1>2, <1>3, <1>4, <1>5, <1>6 DEF UserStep, RequestStep

(* No step of anybody makes a local post forget, or exchange, the id of a  *)
(* post that CivitAI goes on holding.                                      *)
THEOREM BindingsKept ==
  ASSUME ~MixUps
  PROVE  Spec => LiveBindingKept
<1>1. IInv /\ [Next]_vars => [IdsKept]_vars
  BY ThreadKeepsIds, OthersKeepIds DEF Next
<1>2. [IdsKept]_vars =>
        [\A p \in Posts : remoteId[p] \in live /\ remoteId'[p] # remoteId[p]
           => remoteId[p] \notin live']_vars
  BY DEF IdsKept
<1>3. QED
  BY <1>1, <1>2, BindingInvariant, PTL DEF Spec, LiveBindingKept
=============================================================================
