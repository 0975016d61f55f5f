-------------------------- MODULE PushInvariants --------------------------
(***************************************************************************)
(* The inductive invariants behind the properties of PushPipeline.  Each   *)
(* part says what the thread, or a request half way through, may rely on   *)
(* although others act in between.  IInv is behind AtMostOneRemotePost,    *)
(* Traceable and LiveBindingKept, MarkerInv behind MarkerNeverPublic,      *)
(* FillInv behind NeverHalfFilled, DoneMeansComplete and PublicationSpec.  *)
(***************************************************************************)
EXTENDS PushPipeline

(* Where the thread works on a post, and where on a post and its remote id. *)
AtWork == Labels \ {"idle", "down", "loop"}
BeforePost == {"lookback", "find", "preflight", "attempt", "create", "created"}
OnPost == {"created", "tags", "upload", "attach", "attached", "publish", "stamp",
           "record"}

(* The thread's variables name a run, a post, a remote id and an image     *)
(* wherever a step uses them.                                              *)
Located ==
  /\ pc \in AtWork => cur \in Posts /\ status[cur] = "running"
  /\ pc \notin {"idle", "down"} => runs \in Runs
  /\ pc \in OnPost => bound \in Remotes
  /\ pc = "attached" => shot \in Images
  /\ usr.at # "idle" => usr.post \in Posts

(* From the claim to the commit after the create call the post is PUSHING, *)
(* so no request of the user touches it.                                   *)
Owned == pc \in BeforePost => state[cur] = "pushing"

(* Rows no step has written to, and a row that does not know a remote id.  *)
Fresh ==
  /\ \A k \in Runs, p \in Posts : k > runs => item[k][p] = NoItem
  /\ \A p \in Posts : runs \in Runs /\ status[p] = "pending" => item[runs][p] = NoItem
  /\ pc \in {"claim", "lookback"} => item[runs][cur] = NoItem
  /\ \/ pc \in {"find", "readopted", "attempt", "create", "created"}
     \/ pc = "preflight" /\ bound = NoRemote
     => item[runs][cur].remote = NoRemote
  /\ pc \in {"create", "created"} => item[runs][cur].tag # 0

(* Without a remote id in hand the thread works on a post without one.     *)
Unbound ==
  /\ pc \in {"find", "attempt", "create"} => bound = NoRemote
  /\ pc \in {"lookback", "preflight", "find", "attempt", "create"} /\ bound = NoRemote
       => remoteId[cur] = NoRemote
  /\ pc = "created" => remoteId[cur] = NoRemote

(* When the thread is about to create a post, CivitAI holds none for it.   *)
NothingThere ==
  /\ pc \in {"preflight", "attempt", "create"} /\ bound = NoRemote => LivePosts(cur) = {}
  /\ pc = "readopted" => LivePosts(cur) \subseteq {remoteId[cur]}
  /\ pc = "created" => LivePosts(cur) \subseteq {bound} /\ owner[bound] = cur

(* Remote ids come from this post's own creations; a request that still    *)
(* has to forget one has deleted the post before.                          *)
OwnIds ==
  /\ \A p \in Posts : remoteId[p] # NoRemote => owner[remoteId[p]] = p
  /\ \A r \in live : owner[r] # NoPost
  /\ usr.at = "fields" => /\ usr.remote \in Remotes \ live
                          /\ remoteId[usr.post] = usr.remote

IInv ==
  /\ TypeOK /\ Located /\ Owned /\ Fresh /\ Unbound /\ NothingThere /\ OwnIds
  /\ AtMostOneRemotePost /\ Traceable

-----------------------------------------------------------------------------
(* The remote id the thread has in hand is one of its post's own creations. *)
OwnDraft == bound # NoRemote => pc \in AtWork /\ owner[bound] = cur

(* A marker on CivitAI has its row: whoever asks for the rows of the post  *)
(* is told of every marker that may still be there.                        *)
KnownMarkers ==
  /\ pc = "create" => runs \in markers[cur]
  /\ \A r \in live : siteTag[r] # 0 => siteTag[r] \in markers[owner[r]]

(* From the end of the tags step the post in hand carries no marker. *)
AfterTags == {"upload", "attach", "attached", "publish", "stamp", "record"}
Clean == pc \in AfterTags /\ bound \in live => siteTag[bound] = 0

(* Nobody has set a time on a post that does not exist yet. *)
Untouched == \A r \in Remotes : owner[r] = NoPost => setBy[r] = "nobody"

MarkerInv ==
  /\ IInv /\ OwnDraft /\ KnownMarkers /\ Clean /\ Untouched /\ MarkerNeverPublic

-----------------------------------------------------------------------------
(* Without a torn deletion (~TornDelete) no request is ever half done. *)
NoRequest == usr = IdleUser

(* The post in hand is the one its local post is bound to, from the claim  *)
(* to the record of the publish time: PUSHING keeps the user away.         *)
Settled == AfterTags \cup {"confirm", "finish"}
StillHeld ==
  /\ pc \in {"lookback", "preflight"} => bound = remoteId[cur]
  /\ pc \in {"tags"} \cup AfterTags => bound = remoteId[cur] /\ state[cur] = "pushing"
  /\ pc \in Settled => bound \in Remotes

(* A bound post has no other post on CivitAI. *)
Lone == \A p \in Posts : remoteId[p] # NoRemote => LivePosts(p) \subseteq {remoteId[p]}

(* An image recorded as attached hangs on the post it is recorded for. *)
OnSite == \A p \in Posts, i \in Images :
  img[p][i] = "attached" => remoteId[p] # NoRemote /\ att[remoteId[p]][i] > 0

(* The images the thread does not plan to attach are there, and from the   *)
(* end of the attaching on all of them.                                    *)
Filled ==
  /\ pc = "attached" => att[bound][shot] > 0
  /\ pc \in {"attach", "attached"} => \A i \in Images \ todo : att[bound][i] > 0
  /\ pc \in Settled \ {"upload", "attach", "attached"} => \A i \in Images : att[bound][i] > 0

(* The rows of a post name the marker of the post it is bound to, even     *)
(* when CivitAI no longer holds it.                                        *)
KnownBound == \A p \in Posts :
  remoteId[p] # NoRemote /\ siteTag[remoteId[p]] # 0 => siteTag[remoteId[p]] \in markers[p]

(* A publish time on record is on CivitAI too. *)
Timed == \A p \in Posts :
  pubAt[p] # "none" => remoteId[p] # NoRemote /\ siteTime[remoteId[p]] # "none"

(* What the thread may rely on of the post in hand: its marker, and its    *)
(* publish time where a step goes by one.                                  *)
InHand ==
  /\ bound # NoRemote /\ siteTag[bound] # 0 => siteTag[bound] \in markers[cur]
  /\ pc \in Settled => siteTag[bound] = 0
  /\ dated => bound # NoRemote /\ siteTime[bound] # "none"
  /\ \/ pc = "record"
     \/ pc \in {"confirm", "finish"} /\ mode[cur] # "draft_only"
     => siteTime[bound] # "none"

RowsTrue == NoRequest /\ Lone /\ OnSite /\ KnownBound /\ Timed /\ NeverHalfFilled
ThreadTrue == StillHeld /\ Filled /\ InHand

FillInv == MarkerInv /\ RowsTrue /\ ThreadTrue
=============================================================================
