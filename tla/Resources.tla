------------------------------ MODULE Resources ------------------------------
(***************************************************************************)
(* What the models behind the pictures are: the answers CivitAI gave for a *)
(* model hash (backend/resources/cache.py, table resource_map), the        *)
(* resource rows of the pictures they are projected onto (image_resources, *)
(* backend/store/images.py, backend/api/resources.py) and the inventory of *)
(* the model folder (backend/resources/model_hashing.py, model_files).     *)
(*                                                                         *)
(* A lookup leaves the database for the network and comes back later; a    *)
(* projection reads the answers, and writes the rows in a transaction of   *)
(* its own; a scan derives rows, and stores them later.  The user decides  *)
(* identities meanwhile.                                                   *)
(*                                                                         *)
(* Abstracted: names, weights and thumbnails of a model; a version stands  *)
(* for the whole identity.  Of two automatic answers that tie  *)
(* the code takes the more recent, the model either.  The refusal to edit  *)
(* a picture being pushed is left to PushPipeline.                         *)
(***************************************************************************)
EXTENDS Integers, FiniteSets

CONSTANTS Hashes,      \* the hashes met: full digests and the short spellings
          FullHashes,  \* the ones the bulk endpoint accepts
          PrefixOf,    \* the AutoV2 prefix of each
          Versions,    \* model versions
          Keys,        \* the rows (image, type, prompt name) there may be
          ImageOf,     \* the image of each key
          HashInFile,  \* the hash the picture's file gives a key: its domain
                       \* is the set of keys the file mentions
          NewName,     \* the key a row gets when the user renames it
          ModelFiles,  \* files of the one model folder
          Sha, Names,  \* their digests, and the keys their names match
          Unknown, NoHash, Nothing,
          MaxAsked,    \* bound: lookups under way at once
          MaxEdits     \* bound: decisions of the user

Sources == {"unresolved", "local_name", "resource_map", "manual"}
ShortHashes == {PrefixOf[h] : h \in Hashes}
Row == [hash : Hashes \cup {NoHash}, version : Versions \cup {Unknown}, from : Sources,
        locked : BOOLEAN, added : BOOLEAN, deleted : BOOLEAN]
Answer == [manual : BOOLEAN, version : Versions \cup {Unknown}, fresh : BOOLEAN]

ASSUME ResourcesAssumption ==
  /\ DOMAIN HashInFile \subseteq Keys /\ HashInFile \in [DOMAIN HashInFile -> Hashes \cup {NoHash}]
  /\ DOMAIN NewName \subseteq Keys /\ NewName \in [DOMAIN NewName -> Keys]
  /\ Sha \in [ModelFiles -> Hashes]
  /\ NoHash \notin Hashes /\ Unknown \notin Versions /\ Nothing \notin Row \cup Answer
  /\ MaxAsked \in Nat /\ MaxEdits \in Nat

VARIABLES map,       \* resource_map: hash -> answer or Nothing
          rows,      \* image_resources: key -> row or Nothing
          asked,     \* hashes asked of CivitAI and not answered yet
          found,     \* what a projection has read: prefix -> version, or Nothing
          derived,   \* what a scan has derived for an image, not stored yet
          page,      \* the request of the user under way
          inventory, \* model_files
          mounted,   \* whether the model folder can be read
          seen,      \* the files a hash job has met, or Nothing between jobs
          edits

resourceVars == <<map, rows, asked, found, derived, page, inventory, mounted, seen, edits>>

Quiet == [step |-> "none"]
Page == {Quiet} \cup [step : {"assign", "reapply"}, hash : Hashes, version : Versions]
               \cup [step : {"rename"}, to : Keys, row : Row]
PrefixOfRow(r) == IF r.hash = NoHash THEN Nothing ELSE PrefixOf[r.hash]

ResourcesTypeOK ==
  /\ map \in [Hashes -> Answer \cup {Nothing}]
  /\ rows \in [Keys -> Row \cup {Nothing}]
  /\ asked \subseteq Hashes
  /\ found = Nothing \/ found \in [ShortHashes -> Versions \cup {Unknown}]
  /\ derived = Nothing \/ \E S \in SUBSET DOMAIN HashInFile : derived \in [S -> Row]
  /\ page \in Page
  /\ inventory \subseteq ModelFiles
  /\ mounted \in BOOLEAN
  /\ seen = Nothing \/ seen \subseteq ModelFiles
  /\ edits \in 0..MaxEdits

ResourcesInit ==
  /\ map = [h \in Hashes |-> Nothing]
  /\ rows = [k \in Keys |-> Nothing]
  /\ asked = {}
  /\ found = Nothing
  /\ derived = Nothing
  /\ page = Quiet
  /\ inventory = {}
  /\ mounted = TRUE
  /\ seen = Nothing
  /\ edits = 0

-----------------------------------------------------------------------------
(* Which row a projection may write: cache._can_project and its SQL twin.  *)
SourceRank == [unresolved |-> 0, local_name |-> 1, resource_map |-> 2]

Rank(r) ==
  IF r.version = Unknown THEN 0
  ELSE IF r.from = "manual" THEN 2 ELSE SourceRank[r.from]

CanProject(r, source) ==
  /\ ~r.locked /\ ~r.deleted
  /\ r.from # "manual"
  /\ Rank(r) < SourceRank[source]

Projectable(r, source) ==
  /\ ~r.locked /\ ~r.deleted /\ r.from # "manual"
  /\ \/ r.version = Unknown
     \/ (SourceRank[source] > SourceRank["local_name"] /\ r.from = "local_name")

(* cache.get: the answers that may stand for a spelling of the prefix.     *)
Score(g, h) == (IF map[g].manual THEN 4 ELSE 0) + (IF g = h THEN 2 ELSE 0)
               + (IF map[g].version # Unknown THEN 1 ELSE 0)
Answered(p) == {g \in Hashes : PrefixOf[g] = p /\ map[g] # Nothing}
Best(p, h) == {g \in Answered(p) : \A o \in Answered(p) : Score(g, h) >= Score(o, h)}
Decided(p) == {g \in Answered(p) : map[g].manual}

Cached(h, force) ==
  LET settled(g) == map[g].manual \/ (~force /\ (map[g].version # Unknown \/ map[g].fresh))
  IN  IF h \in FullHashes
      THEN \/ Decided(PrefixOf[h]) # {}
           \/ map[h] # Nothing /\ settled(h)
      ELSE \E g \in Best(PrefixOf[h], h) : settled(g)

(* resolve_missing, resolve_hashes_bulk: choose what to ask, then ask.     *)
Ask(h, force) ==
  /\ h \notin asked /\ Cardinality(asked) < MaxAsked
  /\ ~Cached(h, force)
  /\ \/ \E k \in Keys : rows[k] # Nothing /\ rows[k].hash = h /\ Projectable(rows[k], "resource_map")
     \/ \E f \in inventory : Sha[f] = h
  /\ asked' = asked \cup {h}
  /\ UNCHANGED <<map, rows, found, derived, page, inventory, mounted, seen, edits>>

StoredAnyway(h, v) == [map EXCEPT ![h] = [manual |-> FALSE, version |-> v, fresh |-> TRUE]]

(* put: an answer that arrives gives way to a decision made meanwhile.     *)
Stored(h, v) ==
  IF Decided(PrefixOf[h]) # {} THEN map
  ELSE [map EXCEPT ![h] = [manual |-> FALSE, version |-> v, fresh |-> TRUE]]

Replied(h, v) ==
  /\ h \in asked
  /\ asked' = asked \ {h}
  /\ map' = Stored(h, v)
  /\ UNCHANGED <<rows, found, derived, page, inventory, mounted, seen, edits>>

(* A chunk fails, or CivitAI refuses the rest of a batch.                  *)
Refused ==
  /\ asked # {}
  /\ \E lost \in (SUBSET asked) \ {{}} : asked' = asked \ lost
  /\ UNCHANGED <<map, rows, found, derived, page, inventory, mounted, seen, edits>>

(* HASH_CACHE_STALE_DAYS pass: only an answer of 404 is ever asked again.  *)
GrowStale(h) ==
  /\ map[h] # Nothing /\ map[h].fresh /\ map[h].version = Unknown
  /\ map' = [map EXCEPT ![h].fresh = FALSE]
  /\ UNCHANGED <<rows, asked, found, derived, page, inventory, mounted, seen, edits>>

-----------------------------------------------------------------------------
(* reapply_unresolved: the identities are read prefix by prefix, then      *)
(* written in one transaction together with the names of local files.      *)
Open(p) == \E k \in Keys : rows[k] # Nothing /\ PrefixOfRow(rows[k]) = p
                           /\ Projectable(rows[k], "resource_map")

ReadIdentities ==
  /\ found = Nothing
  /\ \E f \in [ShortHashes -> Versions \cup {Unknown}] :
       /\ \A p \in ShortHashes :
            IF Open(p) /\ Answered(p) # {}
            THEN \E g \in Best(p, p) : f[p] = map[g].version
            ELSE f[p] = Unknown
       /\ found' = f
  /\ UNCHANGED <<map, rows, asked, derived, page, inventory, mounted, seen, edits>>

(* _reapply_local_names: a name counts when one digest alone carries it.   *)
NamedVersion(k) ==
  LET shas == {Sha[f] : f \in {g \in inventory : k \in Names[g]}}
  IN  IF Cardinality(shas) # 1 THEN Unknown
      ELSE LET h == CHOOSE h \in shas : TRUE
           IN  IF map[h] = Nothing THEN Unknown ELSE map[h].version

Identified(r, v, source) == [r EXCEPT !.version = v, !.from = source]

Projected(k) ==
  LET r == rows[k]
      byHash == r # Nothing /\ r.hash # NoHash /\ found[PrefixOfRow(r)] # Unknown
                /\ Projectable(r, "resource_map")
  IN  IF r = Nothing THEN r
      ELSE IF byHash THEN Identified(r, found[PrefixOfRow(r)], "resource_map")
      ELSE IF NamedVersion(k) # Unknown /\ Projectable(r, "local_name")
      THEN Identified(r, NamedVersion(k), "local_name")
      ELSE r

Project ==
  /\ found # Nothing
  /\ rows' = [k \in Keys |-> Projected(k)]
  /\ found' = Nothing
  /\ UNCHANGED <<map, asked, derived, page, inventory, mounted, seen, edits>>

(* reapply_hash: the exact answer, onto every row of the prefix it outranks. *)
Reapplied(h) ==
  IF map[h] = Nothing \/ map[h].version = Unknown THEN rows
  ELSE [k \in Keys |->
          IF rows[k] # Nothing /\ PrefixOfRow(rows[k]) = PrefixOf[h] /\ Projectable(rows[k], "resource_map")
          THEN Identified(rows[k], map[h].version, "resource_map") ELSE rows[k]]

ResolveEnds(h) ==
  /\ rows' = Reapplied(h)
  /\ rows' # rows
  /\ UNCHANGED <<map, asked, found, derived, page, inventory, mounted, seen, edits>>

-----------------------------------------------------------------------------
(* A scan: rows are derived from the file and enriched from the cache, and *)
(* stored by replace_resources, which keeps what the user decided.         *)
InFile(i) == {k \in DOMAIN HashInFile : ImageOf[k] = i}

Enriched(h) ==
  LET bare == [hash |-> h, version |-> Unknown, from |-> "unresolved",
               locked |-> FALSE, added |-> FALSE, deleted |-> FALSE]
  IN  IF h = NoHash \/ ~CanProject(bare, "resource_map") \/ Answered(PrefixOf[h]) = {} THEN {bare}
      ELSE {IF map[g].version = Unknown THEN bare ELSE Identified(bare, map[g].version, "resource_map") :
              g \in Best(PrefixOf[h], h)}

Derive(i) ==
  /\ derived = Nothing
  /\ \E d \in [InFile(i) -> UNION {Enriched(HashInFile[k]) : k \in InFile(i)}] :
       /\ \A k \in InFile(i) : d[k] \in Enriched(HashInFile[k])
       /\ derived' = d
  /\ UNCHANGED <<map, rows, asked, found, page, inventory, mounted, seen, edits>>

OverriddenRow(r) == r # Nothing /\ (r.added \/ r.deleted)

Overridden(r) == r # Nothing /\ (r.locked \/ r.added \/ r.deleted)

Rebuilt(k) ==
  LET old == rows[k] IN
  IF k \in DOMAIN derived
  THEN IF ~Overridden(old) THEN derived[k]
       ELSE IF old.locked THEN old
       ELSE [derived[k] EXCEPT !.added = old.added, !.deleted = old.deleted]
  ELSE IF Overridden(old) /\ old.added THEN old ELSE Nothing

ReplaceResources ==
  /\ derived # Nothing
  /\ \E i \in {ImageOf[k] : k \in DOMAIN derived} :
       rows' = [k \in Keys |-> IF ImageOf[k] = i THEN Rebuilt(k) ELSE rows[k]]
  /\ derived' = Nothing
  /\ UNCHANGED <<map, asked, found, page, inventory, mounted, seen, edits>>

-----------------------------------------------------------------------------
(* The user.                                                               *)
Edit == edits < MaxEdits /\ edits' = edits + 1 /\ page = Quiet

AddResource(k, h) ==
  /\ Edit
  /\ rows[k] = Nothing
  /\ LET v == IF h = NoHash \/ map[h] = Nothing THEN Unknown ELSE map[h].version
     IN  rows' = [rows EXCEPT ![k] =
           [hash |-> h, version |-> v, from |-> IF v = Unknown THEN "unresolved" ELSE "resource_map",
            locked |-> FALSE, added |-> TRUE, deleted |-> FALSE]]
  /\ UNCHANGED <<map, asked, found, derived, page, inventory, mounted, seen>>

(* attach: the row first, then the hash-wide decision, then its spread.    *)
Attach(k, v) ==
  /\ Edit
  /\ rows[k] # Nothing
  /\ \E h \in Hashes \cup {rows[k].hash} :
       rows' = [rows EXCEPT ![k] = [Identified(@, v, "manual") EXCEPT !.hash = h, !.locked = TRUE]]
  /\ page' = IF rows[k].hash = NoHash THEN Quiet
             ELSE [step |-> "assign", hash |-> rows[k].hash, version |-> v]
  /\ UNCHANGED <<map, asked, found, derived, inventory, mounted, seen>>

(* The same for a model file, which begins with the decision.              *)
AssignModelFile(f, v) ==
  /\ Edit
  /\ f \in inventory
  /\ page' = [step |-> "assign", hash |-> Sha[f], version |-> v]
  /\ UNCHANGED <<map, rows, asked, found, derived, inventory, mounted, seen>>

(* assign_manual: the answers of the prefix give way to one decision.      *)
AssignManual ==
  /\ page.step = "assign"
  /\ map' = [g \in Hashes |->
               IF g = page.hash THEN [manual |-> TRUE, version |-> page.version, fresh |-> TRUE]
               ELSE IF PrefixOf[g] = PrefixOf[page.hash] THEN Nothing ELSE map[g]]
  /\ page' = [page EXCEPT !.step = "reapply"]
  /\ UNCHANGED <<rows, asked, found, derived, inventory, mounted, seen, edits>>

ReapplyHash ==
  /\ page.step = "reapply"
  /\ rows' = Reapplied(page.hash)
  /\ page' = Quiet
  /\ UNCHANGED <<map, asked, found, derived, inventory, mounted, seen, edits>>

(* patch: a file's row is put aside first, the renamed one added next.     *)
Rename(k) ==
  /\ Edit
  /\ k \in DOMAIN NewName /\ rows[k] # Nothing /\ ~rows[k].added
  /\ rows' = [rows EXCEPT ![k].deleted = TRUE]
  /\ page' = [step |-> "rename", to |-> NewName[k], row |-> rows[k]]
  /\ UNCHANGED <<map, asked, found, derived, inventory, mounted, seen>>

AddRenamed ==
  /\ page.step = "rename"
  /\ rows' = IF rows[page.to] # Nothing THEN rows  \* IntegrityError: the name is taken
             ELSE [rows EXCEPT ![page.to] =
                     [page.row EXCEPT !.locked = TRUE, !.added = TRUE, !.deleted = FALSE]]
  /\ page' = Quiet
  /\ UNCHANGED <<map, asked, found, derived, inventory, mounted, seen, edits>>

Unlock(k) ==
  /\ Edit
  /\ rows[k] # Nothing /\ rows[k].locked
  /\ rows' = [rows EXCEPT ![k].locked = FALSE]
  /\ UNCHANGED <<map, asked, found, derived, page, inventory, mounted, seen>>

DeleteResource(k) ==
  /\ Edit
  /\ rows[k] # Nothing
  /\ rows' = [rows EXCEPT ![k] = IF @.added THEN Nothing ELSE [@ EXCEPT !.deleted = TRUE]]
  /\ UNCHANGED <<map, asked, found, derived, page, inventory, mounted, seen>>

RestoreResource(k) ==
  /\ Edit
  /\ rows[k] # Nothing /\ rows[k].deleted
  /\ rows' = [rows EXCEPT ![k] = IF @.added THEN Nothing ELSE [@ EXCEPT !.deleted = FALSE]]
  /\ UNCHANGED <<map, asked, found, derived, page, inventory, mounted, seen>>

-----------------------------------------------------------------------------
(* hash_roots on the one model folder.                                     *)
Mount ==
  /\ edits < MaxEdits /\ edits' = edits + 1
  /\ mounted' = ~mounted
  /\ UNCHANGED <<map, rows, asked, found, derived, page, inventory, seen>>

Walk ==
  /\ seen = Nothing
  /\ seen' = IF mounted THEN ModelFiles ELSE {}
  /\ UNCHANGED <<map, rows, asked, found, derived, page, inventory, mounted, edits>>

HashFile(f) ==
  /\ seen # Nothing /\ f \in seen \ inventory
  /\ mounted  \* else the read fails, and the job goes on to the next file
  /\ inventory' = inventory \cup {f}
  /\ UNCHANGED <<map, rows, asked, found, derived, page, mounted, seen, edits>>

ForgetVanished ==
  /\ seen # Nothing
  /\ inventory' = IF mounted THEN inventory \cap seen ELSE inventory
  /\ seen' = Nothing
  /\ UNCHANGED <<map, rows, asked, found, derived, page, mounted, edits>>

HashCancelled ==
  /\ seen # Nothing
  /\ seen' = Nothing
  /\ UNCHANGED <<map, rows, asked, found, derived, page, inventory, mounted, edits>>

-----------------------------------------------------------------------------
Background ==
  \/ \E h \in Hashes : \/ \E force \in BOOLEAN : Ask(h, force)
                       \/ \E v \in Versions \cup {Unknown} : Replied(h, v)
                       \/ GrowStale(h)
                       \/ ResolveEnds(h)
  \/ Refused \/ ReadIdentities \/ Project
  \/ (\E k \in DOMAIN HashInFile : Derive(ImageOf[k])) \/ ReplaceResources
  \/ Mount \/ Walk \/ (\E f \in ModelFiles : HashFile(f)) \/ ForgetVanished \/ HashCancelled

ByUser ==
  \/ \E k \in Keys : \/ \E h \in Hashes \cup {NoHash} : AddResource(k, h)
                     \/ \E v \in Versions : Attach(k, v)
                     \/ Rename(k) \/ Unlock(k) \/ DeleteResource(k) \/ RestoreResource(k)
  \/ \E f \in ModelFiles, v \in Versions : AssignModelFile(f, v)
  \/ AssignManual \/ ReapplyHash \/ AddRenamed

ResourcesNext == Background \/ ByUser
ResourcesSpec == ResourcesInit /\ [][ResourcesNext]_resourceVars

-----------------------------------------------------------------------------
(* A decision of the user about a hash outlives every answer that was      *)
(* asked for before it was made and comes after: only another decision     *)
(* takes its place (cache.put, cache.assign_manual).                       *)
Decision(p) == IF Decided(p) = {} THEN Unknown ELSE map[CHOOSE g \in Decided(p) : TRUE].version
DecisionStands ==
  [][\A p \in ShortHashes : Decision(p) # Unknown =>
        Decision(p)' = Decision(p) \/ page.step = "assign"]_resourceVars

(* Nothing the program does by itself - an answer, a projection, a rescan  *)
(* that began before the user spoke - takes a row the user locked, or the  *)
(* identity chosen for it (_RESOURCE_OVERRIDES, _PROJECTION_BLOCKING_FLAGS). *)
ChoiceSurvives ==
  [][\A k \in Keys : rows[k] # Nothing /\ rows[k].locked =>
        rows'[k] = rows[k] \/ ByUser]_resourceVars

(* A row is never projected against a decision already made for its hash   *)
(* (cache.assign_manual: "a durable user decision").                       *)
ProjectedAsDecided ==
  [][\A k \in Keys : Project /\ rows'[k] # rows[k] /\ rows[k].hash # NoHash
        /\ Decision(PrefixOf[rows[k].hash]) # Unknown =>
           rows'[k].version = Decision(PrefixOf[rows[k].hash])]_resourceVars

(* A renamed resource is not lost: the old row is put aside only with the  *)
(* new one in place (patch_image_resource).                                *)
RenameKeeps ==
  [][page.step = "rename" /\ page' = Quiet => rows'[page.to] # Nothing /\ rows'[page.to].locked]_resourceVars

(* The inventory forgets no file that is still in the folder               *)
(* (hash_roots, forget_vanished).                                          *)
InventoryKept == [][inventory \subseteq inventory']_resourceVars
=============================================================================
