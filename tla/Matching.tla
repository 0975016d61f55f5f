------------------------------ MODULE Matching -----------------------------
(***************************************************************************)
(* The tiles of a post adopted from CivitAI find their local files: by the *)
(* usage history, by downloading and hashing (posts/matching.py), by the   *)
(* user's choice, or the picture is fetched into the library               *)
(* (posts/fetch_images.py).  The batch, a sync and the fetch run on        *)
(* threads of their own, and each reads the tiles before it works.         *)
(***************************************************************************)
EXTENDS Naturals, FiniteSets

CONSTANTS
  Slots,     \* the tiles: CivitAI's images
  Files,     \* files that may be in the library
  FetchedAs, \* of each tile: the file a fetch would write
  PictureOf, \* of each tile and file: its decoded pixels
  LookOf,    \* of each picture: its perceptual hash
  NoFile,
  MaxRounds, MaxChanges \* bound the searches, and what happens to the library

Pictures == {PictureOf[x] : x \in Slots \cup Files}
ASSUME MatchingAssumption ==
  /\ NoFile \notin Files /\ FetchedAs \in [Slots -> Files]
  /\ \A s \in Slots : PictureOf[FetchedAs[s]] = PictureOf[s]
  /\ MaxRounds \in Nat /\ MaxChanges \in Nat

VARIABLES
  link,      \* post_images.image_id of each tile
  byHand,    \* tiles whose file the user chose
  chosen,    \* of each tile: the pictures the user ever linked to it
  shelf,     \* images: where each file is; "none" has no row
  written,   \* how often a metadata edit has rewritten the file's bytes
  recorded,  \* image_usage: the bytes it knows for CivitAI's image, if any
  published, \* the adopted post is public by now
  finding,   \* resolve: of each searcher, the tiles it has read, what it has found
  choosing,  \* link_manual: the tile and the file that passed the checks
  rounds, changes

library == <<shelf, written>>
matchVars == <<link, byHand, chosen, library, recorded, published, finding, choosing,
               rounds, changes>>

(* "sync" asks the history only, "batch" downloads, "fetch" is fetch_images.*)
Searchers == {"batch", "sync", "fetch"}
Digests == [picture : Pictures, edits : 0 .. MaxChanges]
BytesOf(f) == [picture |-> PictureOf[f], edits |-> written[f]]
Rest == [todo |-> {}, slot |-> {}, file |-> NoFile]
NoChoice == [slot |-> {}, file |-> NoFile]

MatchTypeOK ==
  /\ link \in [Slots -> Files \cup {NoFile}] /\ byHand \in SUBSET Slots
  /\ chosen \in [Slots -> SUBSET Pictures]
  /\ shelf \in [Files -> {"none", "here", "missing", "trashed"}]
  /\ written \in [Files -> 0 .. MaxChanges]
  /\ recorded \in [Slots -> SUBSET Digests] /\ published \in BOOLEAN
  /\ finding \in [Searchers -> [todo : SUBSET Slots, slot : SUBSET Slots,
                               file : Files \cup {NoFile}]]
  /\ choosing \in [slot : SUBSET Slots, file : Files \cup {NoFile}]
  /\ rounds \in 0 .. MaxRounds /\ changes \in 0 .. MaxChanges

MatchInit ==
  /\ link = [s \in Slots |-> NoFile] /\ byHand = {} /\ chosen = [s \in Slots |-> {}]
  /\ shelf \in [Files -> {"none", "here"}] /\ \A s \in Slots : shelf[FetchedAs[s]] = "none"
  /\ written = [f \in Files |-> 0]
  /\ recorded \in [Slots -> {{}} \cup {{[picture |-> PictureOf[f], edits |-> 0]} : f \in Files}]
  /\ \A s \in Slots : \A b \in recorded[s] : b.picture = PictureOf[s]
  /\ published \in BOOLEAN
  /\ finding = [m \in Searchers |-> Rest] /\ choosing = NoChoice
  /\ rounds = 0 /\ changes = 0

-----------------------------------------------------------------------------
(* resolve: the tiles without a file are read once, then taken one by one. *)

Open == {s \in Slots : link[s] = NoFile}

Begin(m) ==
  /\ finding[m] = Rest /\ Open # {} /\ rounds < MaxRounds /\ rounds' = rounds + 1
  /\ finding' = [finding EXCEPT ![m].todo = Open]
  /\ UNCHANGED <<link, byHand, chosen, library, recorded, published, choosing, changes>>

InLibrary(f) == shelf[f] \in {"here", "trashed"}

(* Whichever row of the history comes first.                               *)
Rows(s) == IF recorded[s] = {} THEN {{}} ELSE {{b} : b \in recorded[s]}

(* The site may hand back the bytes as they were sent or another container;*)
(* identical pixels count when no file has the bytes.                      *)
Resembling(s, got) == {f \in Files : InLibrary(f) /\ LookOf[PictureOf[f]] = LookOf[PictureOf[s]]}
ByDownload(s, got) ==
  LET same == {f \in Files : InLibrary(f) /\ BytesOf(f) = got}
  IN IF same # {} THEN same ELSE {f \in Files : InLibrary(f) /\ PictureOf[f] = PictureOf[s]}

Offers(m, s, got, row) ==
  LET known == {f \in Files : InLibrary(f) /\ BytesOf(f) \in row}
  IN IF known # {} THEN known ELSE IF m = "batch" THEN ByDownload(s, got) ELSE {}

Look(m, s, got) ==
  /\ m # "fetch" /\ s \in finding[m].todo /\ finding[m].slot = {}
  /\ got.picture = PictureOf[s]
  /\ \E row \in Rows(s), f \in Files \cup {NoFile} :
       /\ IF Offers(m, s, got, row) = {} THEN f = NoFile ELSE f \in Offers(m, s, got, row)
       /\ finding' = [finding EXCEPT ![m] =
            [todo |-> @.todo \ {s}, slot |-> IF f = NoFile THEN {} ELSE {s}, file |-> f]]
  /\ UNCHANGED <<link, byHand, chosen, library, recorded, published, choosing, rounds, changes>>

(* record_or_complete_remote_image: the oldest row is rewritten.           *)
Recorded(s, f) ==
  IF ~published THEN UNCHANGED recorded
  ELSE \E row \in Rows(s) : recorded' = [recorded EXCEPT ![s] = (@ \ row) \cup {BytesOf(f)}]

LinkFound(m, s) ==
  /\ m # "fetch" /\ finding[m].slot = {s}
  /\ shelf[finding[m].file] # "none"
  /\ link' = [link EXCEPT ![s] = finding[m].file] /\ byHand' = byHand \ {s}
  /\ UNCHANGED chosen
  /\ Recorded(s, finding[m].file)
  /\ finding' = [finding EXCEPT ![m].slot = {}, ![m].file = NoFile]
  /\ UNCHANGED <<library, published, choosing, rounds, changes>>

(* The row of the file is gone: the foreign key refuses the update.  Any   *)
(* other failure, a refused key or a cancelled job ends the search too.    *)
GiveUp(m) ==
  /\ finding[m] # Rest
  /\ finding' = [finding EXCEPT ![m] = Rest]
  /\ UNCHANGED <<link, byHand, chosen, library, recorded, published, choosing, rounds, changes>>

(* fetch_images: the file is written, indexed and recorded, then linked.   *)
Fetch(s) ==
  /\ s \in finding["fetch"].todo /\ finding["fetch"].slot = {} /\ shelf[FetchedAs[s]] = "none"
  /\ shelf' = [shelf EXCEPT ![FetchedAs[s]] = "here"]
  /\ recorded' = [recorded EXCEPT ![s] = @ \cup {BytesOf(FetchedAs[s])}]
  /\ finding' = [finding EXCEPT !["fetch"] =
       [todo |-> @.todo \ {s}, slot |-> {s}, file |-> FetchedAs[s]]]
  /\ UNCHANGED <<link, byHand, chosen, written, published, choosing, rounds, changes>>

LinkFetched(s) ==
  /\ finding["fetch"].slot = {s} /\ shelf[FetchedAs[s]] # "none"
  /\ link' = [link EXCEPT ![s] = FetchedAs[s]] /\ byHand' = byHand \ {s}
  /\ UNCHANGED chosen
  /\ finding' = [finding EXCEPT !["fetch"].slot = {}, !["fetch"].file = NoFile]
  /\ UNCHANGED <<library, recorded, published, choosing, rounds, changes>>

(* link_manual checks first and links in a transaction of its own.         *)
Free(s, f) == \A other \in Slots \ {s} : link[other] # f
Choose(s, f) ==
  /\ choosing = NoChoice /\ rounds < MaxRounds /\ rounds' = rounds + 1
  /\ shelf[f] = "here" /\ Free(s, f)
  /\ choosing' = [slot |-> {s}, file |-> f]
  /\ UNCHANGED <<link, byHand, chosen, library, recorded, published, finding, changes>>

LinkManual(s) ==
  /\ choosing.slot = {s} /\ choosing' = NoChoice
  /\ IF shelf[choosing.file] = "none" THEN UNCHANGED <<link, byHand, chosen, recorded>>
     ELSE /\ link' = [link EXCEPT ![s] = choosing.file] /\ byHand' = byHand \cup {s}
          /\ chosen' = [chosen EXCEPT ![s] = @ \cup {PictureOf[choosing.file]}]
          /\ Recorded(s, choosing.file)
  /\ UNCHANGED <<library, published, finding, rounds, changes>>

(* The library goes on: a file is moved to the trash, is missing, its row  *)
(* is deleted, a metadata edit rewrites it; the publish time comes.        *)
Change == changes < MaxChanges /\ changes' = changes + 1

Shelved(f, place) ==
  /\ Change /\ shelf[f] # "none"
  /\ shelf' = [shelf EXCEPT ![f] = place]
  /\ link' = [s \in Slots |-> IF place = "none" /\ link[s] = f THEN NoFile ELSE link[s]]
  /\ byHand' = {s \in byHand : link'[s] # NoFile}
  /\ UNCHANGED <<chosen, written, recorded, published, finding, choosing, rounds>>

Rewritten(f) ==
  /\ Change /\ shelf[f] = "here"
  /\ written' = [written EXCEPT ![f] = @ + 1]
  /\ UNCHANGED <<link, byHand, chosen, shelf, recorded, published, finding, choosing, rounds>>

GoesPublic ==
  /\ ~published /\ published' = TRUE
  /\ UNCHANGED <<link, byHand, chosen, library, recorded, finding, choosing, rounds, changes>>

MatchNext ==
  \/ \E m \in Searchers : Begin(m) \/ GiveUp(m)
  \/ \E m \in Searchers, s \in Slots : LinkFound(m, s) \/ \E got \in Digests : Look(m, s, got)
  \/ \E s \in Slots : Fetch(s) \/ LinkFetched(s) \/ LinkManual(s)
  \/ \E s \in Slots, f \in Files : Choose(s, f)
  \/ \E f \in Files : Rewritten(f) \/ \E place \in {"none", "here", "missing", "trashed"} : Shelved(f, place)
  \/ GoesPublic
MatchSpec == MatchInit /\ [][MatchNext]_matchVars

-----------------------------------------------------------------------------

(* "That complete token may put an exact candidate first, but can never    *)
(* turn a merely similar picture into an automatic link" (_local_by_exact):*)
(* a linked file shows the very pixels of CivitAI's image, or a picture    *)
(* that the user once chose for the tile and the history has remembered,   *)
(* although metadata edits change its bytes, the history is asked for      *)
(* bytes, and searches, choices and fetches cross.                         *)
ExactOnly ==
  \A s \in Slots : link[s] # NoFile => PictureOf[link[s]] \in {PictureOf[s]} \cup chosen[s]

(* "For every image without a local file" (resolve): a search or a fetch   *)
(* does not replace a file that the tile has by now.                       *)
OnlyFills ==
  [][\A s \in Slots : s \in byHand => link'[s] \in {link[s], NoFile} \/ s \in byHand']_matchVars

(* "That local image is already linked to another image in this post"      *)
(* (link_manual): no file stands for two tiles.                            *)
OneTilePerFile ==
  \A s, t \in Slots : s # t /\ link[s] # NoFile => link[s] # link[t]
=============================================================================
