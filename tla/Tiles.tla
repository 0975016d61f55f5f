------------------------------- MODULE Tiles -------------------------------
(***************************************************************************)
(* The tiles of one post that is on CivitAI: the editor replaces or orders *)
(* them (store/posts.py) while a sync learns CivitAI's image ids and takes *)
(* in images it does not know (posts/sync.py, _map_image_ids).  Both read  *)
(* the rows first and write them in a transaction of its own.              *)
(*                                                                         *)
(* A picture stands for its upload key and for the id CivitAI gives it: a  *)
(* row that is right has one and the same in both columns.  The post is    *)
(* the newest of the database: SQLite gives the ids of deleted rows away   *)
(* again (post_images.id has no AUTOINCREMENT).                            *)
(***************************************************************************)
EXTENDS Ordering, FiniteSetsExt, SequencesExt

CONSTANTS
  Images,      \* library images
  Strangers, \* images of the post that only CivitAI has
  TileSyncs, \* threads that may sync the post: the sync and the watch job
  MaxTiles,  \* CIVITAI_POST_IMAGE_LIMIT
  MaxEdits, MaxSyncs, \* bound the requests and the syncs
  NoPic

ASSUME TilesAssumption ==
  /\ IsFiniteSet(Images) /\ IsFiniteSet(Strangers)
  /\ Images \cap Strangers = {} /\ NoPic \notin Images \cup Strangers
  /\ MaxTiles \in Nat /\ MaxEdits \in Nat /\ MaxSyncs \in Nat

VARIABLES
  tiles,   \* post_images: a set of rows, positions unique
  onSite,  \* the post's images on CivitAI
  editing, \* set_images: the rows it has read, and what was asked for
  at,      \* of each sync: where it is
  seen,    \* of each sync: the answer of post.getEdit
  local,   \* of each sync: the rows it has read
  edits, syncs \* how many were begun

syncing   == <<at, seen, local>>
tilesVars == <<tiles, onSite, editing, syncing, edits, syncs>>

KnownPics == Images \cup Strangers
Row == [id : Nat, pos : Nat, pic : Images \cup {NoPic}, key : KnownPics \cup {NoPic},
        rid : KnownPics \cup {NoPic}]
Orders == {s \in SeqOf(Images, MaxTiles) : IsInjective(s)}

TilesTypeOK ==
  /\ tiles \in SUBSET Row
  /\ \A r, q \in tiles : r # q => r.id # q.id /\ r.pos # q.pos
  /\ onSite \in SUBSET KnownPics
  /\ editing.rows \in SUBSET Row /\ editing.active \in BOOLEAN /\ editing.wish \in Orders
  /\ at \in [TileSyncs -> {"idle", "read", "map", "add"}]
  /\ seen \in [TileSyncs -> SUBSET KnownPics]
  /\ local \in [TileSyncs -> SUBSET Row]
  /\ edits \in 0 .. MaxEdits /\ syncs \in 0 .. MaxSyncs

NotEditing == [active |-> FALSE, rows |-> {}, wish |-> <<>>]

(* Uploaded and attached, but CivitAI's ids are not yet known. *)
TilesInit ==
  /\ \E order \in {s \in Orders : Len(s) = Cardinality(Images)} :
       tiles = {[id |-> i, pos |-> i - 1, pic |-> order[i], key |-> order[i], rid |-> NoPic]
                  : i \in DOMAIN order}
  /\ onSite = Images \cup Strangers
  /\ editing = NotEditing
  /\ at = [s \in TileSyncs |-> "idle"]
  /\ seen = [s \in TileSyncs |-> {}] /\ local = [s \in TileSyncs |-> {}]
  /\ edits = 0 /\ syncs = 0

-----------------------------------------------------------------------------
(* set_images. *)

ByPos(rows) == Ordered(rows, {p \in rows \X rows : p[1].pos < p[2].pos})
Unmatched(rows) == {r \in rows : r.pic = NoPic}

(* The requested pictures take the slots of the matched tiles in turn;     *)
(* tiles without a library image keep theirs; the rest follows.            *)
SlotOrder(rows, wish) ==
  LET seq == ByPos(rows)
      Matched(i) == Cardinality({j \in 1 .. i : seq[j].pic # NoPic})
      Slot(i) == IF seq[i].pic = NoPic THEN <<seq[i]>>
                 ELSE IF Matched(i) <= Len(wish) THEN <<wish[Matched(i)]>> ELSE <<>>
      used == Min({Len(wish), Cardinality(rows \ Unmatched(rows))})
  IN FlattenSeq([i \in 1 .. Len(seq) |-> Slot(i)]) \o SubSeq(wish, used + 1, Len(wish))

(* A picture that stays keeps what was learned of it; a new row is blank.  *)
Bare(pic, rows) == [pic |-> pic, key |-> NoPic, rid |-> NoPic]
KeptFacts(pic, rows) ==
  IF \E r \in rows : r.pic = pic
  THEN LET r == CHOOSE r \in rows : r.pic = pic IN [pic |-> pic, key |-> r.key, rid |-> r.rid]
  ELSE [pic |-> pic, key |-> NoPic, rid |-> NoPic]

Renumbered(rows, wish) ==
  LET slots == SlotOrder(rows, wish)
      Facts(x) == IF x \in Images THEN KeptFacts(x, rows) ELSE [pic |-> NoPic, key |-> x.key, rid |-> x.rid]
  IN {[id |-> i, pos |-> i - 1, pic |-> Facts(slots[i]).pic, key |-> Facts(slots[i]).key,
       rid |-> Facts(slots[i]).rid] : i \in DOMAIN slots}

EditRead(wish) ==
  /\ ~editing.active /\ edits < MaxEdits /\ edits' = edits + 1
  /\ Len(wish) + Cardinality(Unmatched(tiles)) <= MaxTiles
  /\ editing' = [active |-> TRUE, rows |-> tiles, wish |-> wish]
  /\ UNCHANGED <<tiles, onSite, syncing, syncs>>

EditWrite ==
  /\ editing.active
  /\ tiles' = Renumbered(editing.rows, editing.wish)
  /\ editing' = NotEditing
  /\ UNCHANGED <<onSite, syncing, edits, syncs>>

(* set_image_order: wholly inside its transaction; what is not named goes. *)
SetOrder(order) ==
  /\ edits < MaxEdits /\ edits' = edits + 1
  /\ tiles' = {[(CHOOSE r \in tiles : r.id = order[i]) EXCEPT !.pos = i - 1] : i \in DOMAIN order}
  /\ UNCHANGED <<onSite, editing, syncing, syncs>>

(* A push uploads and attaches what is new; its own readback is a sync. An *)
(* edit that passed its guard before the push began goes on beside it.     *)
Attach ==
  /\ \E r \in tiles : r.key = NoPic
  /\ tiles' = {IF r.key = NoPic THEN [r EXCEPT !.key = r.pic] ELSE r : r \in tiles}
  /\ onSite' = onSite \cup {r.pic : r \in {q \in tiles : q.key = NoPic}}
  /\ UNCHANGED <<editing, syncing, edits, syncs>>

(* The user removes an image on the site. *)
RemovedOnSite(pic) ==
  /\ pic \in onSite /\ onSite' = onSite \ {pic}
  /\ UNCHANGED <<tiles, editing, syncing, edits, syncs>>

-----------------------------------------------------------------------------
(* _map_image_ids and _add_remote_only_images. *)

GetEdit(s) ==
  /\ at[s] = "idle" /\ syncs < MaxSyncs /\ syncs' = syncs + 1
  /\ at' = [at EXCEPT ![s] = "read"] /\ seen' = [seen EXCEPT ![s] = onSite]
  /\ UNCHANGED <<tiles, onSite, editing, local, edits>>

ReadLocal(s) ==
  /\ at[s] = "read"
  /\ at' = [at EXCEPT ![s] = "map"] /\ local' = [local EXCEPT ![s] = tiles]
  /\ UNCHANGED <<tiles, onSite, editing, seen, edits, syncs>>

(* The row that was read tells the image by its key, else by its id; the   *)
(* row that is written is the one that has its number by now.              *)
Intended(r, answer) ==
  IF r.key \in answer THEN r.key ELSE IF r.rid \in answer THEN r.rid ELSE NoPic
Learned(r, rows, answer) ==
  LET same == {q \in rows : q.id = r.id /\ Intended(q, answer) # NoPic}
  IN IF same = {} THEN r
     ELSE [r EXCEPT !.rid = Intended(CHOOSE q \in same : TRUE, answer)]

MapIds(s) ==
  /\ at[s] = "map"
  /\ tiles' = {Learned(r, local[s], seen[s]) : r \in tiles}
  /\ at' = [at EXCEPT ![s] = "add"]
  /\ UNCHANGED <<onSite, editing, seen, local, edits, syncs>>

KnownBy(rows) == {r.key : r \in rows} \cup {r.rid : r \in rows}
TopId == Max({r.id : r \in tiles} \cup {0})
TopPos(rows) == Max({r.pos : r \in rows} \cup {-1})

(* New tiles go behind the rows that were read; a position that is taken   *)
(* by now breaks the transaction and the sync.                             *)
AddTiles(s) ==
  /\ at[s] = "add"
  /\ LET new == SetToSeq(seen[s] \ KnownBy(local[s]))
         rows == {[id |-> TopId + i, pos |-> TopPos(local[s]) + i, pic |-> NoPic,
                   key |-> new[i], rid |-> new[i]] : i \in DOMAIN new}
     IN tiles' = IF \E r \in rows, q \in tiles : r.pos = q.pos THEN tiles
                 ELSE tiles \cup rows
  /\ at' = [at EXCEPT ![s] = "idle"]
  /\ seen' = [seen EXCEPT ![s] = {}] /\ local' = [local EXCEPT ![s] = {}]
  /\ UNCHANGED <<onSite, editing, edits, syncs>>

SyncStep(s) == GetEdit(s) \/ ReadLocal(s) \/ MapIds(s) \/ AddTiles(s)

RowOrders == {s \in SeqOf({r.id : r \in tiles}, MaxTiles + 1) : IsInjective(s)}
TilesNext ==
  \/ \E wish \in Orders : EditRead(wish)
  \/ EditWrite \/ Attach
  \/ \E order \in RowOrders : SetOrder(order)
  \/ \E pic \in KnownPics : RemovedOnSite(pic)
  \/ \E s \in TileSyncs : SyncStep(s)
TilesSpec == TilesInit /\ [][TilesNext]_tilesVars

-----------------------------------------------------------------------------

(* Adding or ordering pictures never makes the rest be uploaded again: a   *)
(* picture that is in the post before and after keeps the upload key that  *)
(* the edit has read (set_images' docstring), whatever a sync or another   *)
(* removal does meanwhile; only a key learned beside the edit is lost.     *)
HadKey(pic) == editing.active => \E r \in editing.rows : r.pic = pic /\ r.key # NoPic
KeysKept ==
  [][\A r \in tiles : \A q \in tiles' :
       r.pic # NoPic /\ q.pic = r.pic /\ r.key # NoPic /\ HadKey(r.pic)
         => q.key = r.key]_tilesVars

(* "The join is exact rather than positional: the remote image carries the *)
(* very upload key we sent" (sync.py 471-473): the id a tile has learned   *)
(* is that of its own image.                                               *)
LearnsItsOwn ==
  \A r \in tiles : r.key # NoPic /\ r.rid # NoPic => r.rid = r.key
=============================================================================
