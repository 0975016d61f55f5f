------------------------------ MODULE Library ------------------------------
(***************************************************************************)
(* The image library: files on disk and their rows in `images`.  The scan  *)
(* (scanner/service.py) reads the folders and reconciles the rows, while   *)
(* the trash and archive jobs, a restore and a deletion (duplicates.py,    *)
(* archive.py, relocate.py) move files and rows and the user's other       *)
(* programs write and remove files.  Each kind of job excludes itself      *)
(* only.                                                                   *)
(*                                                                         *)
(* A file is named by its picture; row ids of deleted rows may be given    *)
(* away again (images.id has no AUTOINCREMENT).                            *)
(***************************************************************************)
EXTENDS Integers, FiniteSets, FiniteSetsExt

CONSTANTS
  Pics,   \* files, told apart by their bytes
  Due,    \* those that an archived post has published
  Src,    \* places in the scanned folder
  Bin,    \* places in the trash folder
  Vault,  \* places in the archive
  Nothing,
  MaxId,     \* bounds the ids in use
  MaxScans,  \* bounds the scans
  MaxBatches \* bounds the batches of moves and deletions

Places == Src \cup Bin \cup Vault
Movers == {"trash", "archive", "restore"}

ASSUME LibraryAssumption ==
  /\ Due \subseteq Pics /\ Nothing \notin Pics \cup Places
  /\ Src \cap Bin = {} /\ Src \cap Vault = {} /\ Bin \cap Vault = {}
  /\ MaxId \in Nat /\ MaxScans \in Nat /\ MaxBatches \in Nat
  /\ Cardinality(Src) \in 0 .. MaxId

VARIABLES
  disk,    \* what lies where
  rows,    \* the table images
  held,    \* ids some post holds
  scan,    \* the scan job, see Idle
  mover,   \* of each kind of move: the batch, see NoBatch
  doomed,  \* delete_files: what it has planned, and the row whose file is gone
  suspects, \* ids whose files the duplicates job has found gone
  scans, batches

libraryVars == <<disk, rows, held, scan, mover, doomed, suspects, scans, batches>>

ImageRow == [id : 1 .. MaxId, path : Places, pic : Pics, root : {"src", "vault"},
             missing : BOOLEAN, trashed : BOOLEAN, orig : Src \cup Vault \cup {Nothing}]

\* todo: places yet to visit; same: rows found unchanged; cur, old, read: the
\* file in work, the row it had, its bytes; bad: unreadable files; calm: nobody
\* else has touched files or rows since the scan began
Idle == [stage |-> "off", todo |-> {}, seen |-> {}, same |-> {}, cur |-> Nothing, old |-> {},
         read |-> Nothing, bad |-> {}, reconcile |-> FALSE, calm |-> FALSE]
NoBatch == [stage |-> "off", todo |-> {}, row |-> {}, to |-> Nothing]

ScanJob == [stage : {"off", "walk", "store", "end", "done"}, todo : SUBSET Src,
            seen : SUBSET (1 .. MaxId), same : SUBSET ((1 .. MaxId) \X Src),
            cur : Src \cup {Nothing}, old : SUBSET (1 .. MaxId), read : Pics \cup {Nothing},
            bad : SUBSET Src, reconcile : BOOLEAN, calm : BOOLEAN]
MoveJob == [stage : {"off", "on", "moved"}, todo : SUBSET ImageRow, row : SUBSET ImageRow,
            to : Places \cup {Nothing}]

LibraryTypeOK ==
  /\ disk \in [Places -> Pics \cup {Nothing}]
  /\ rows \in SUBSET ImageRow
  /\ \A r, q \in rows : r # q => r.id # q.id /\ r.path # q.path
  /\ held \subseteq {r.id : r \in rows}
  /\ scan \in ScanJob /\ mover \in [Movers -> MoveJob]
  /\ doomed \in [todo : SUBSET ImageRow, row : SUBSET ImageRow]
  /\ suspects \subseteq 1 .. MaxId
  /\ scans \in 0 .. MaxScans /\ batches \in 0 .. MaxBatches

(* Some files have been scanned, in any order.                             *)
Scanned(lying, ids) ==
  {[id |-> ids[p], path |-> p, pic |-> lying[p], root |-> "src",
    missing |-> FALSE, trashed |-> FALSE, orig |-> Nothing] : p \in {q \in Src : lying[q] # Nothing}}
LibraryInit ==
  /\ \E lying \in [Src -> Pics \cup {Nothing}], ids \in [Src -> 1 .. Cardinality(Src)] :
       /\ \A p, q \in Src : p # q => ids[p] # ids[q] /\ (lying[p] # lying[q] \/ lying[p] = Nothing)
       /\ disk = [p \in Places |-> IF p \in Src THEN lying[p] ELSE Nothing]
       /\ rows = Scanned(lying, ids)
  /\ held = {}
  /\ scan = Idle /\ mover = [m \in Movers |-> NoBatch]
  /\ doomed = [todo |-> {}, row |-> {}] /\ suspects = {}
  /\ scans = 0 /\ batches = 0

At(path) == {r \in rows : r.path = path}
WithId(id) == {r \in rows : r.id = id}
NextId == Max({r.id : r \in rows} \cup {0}) + 1
Disturbed == [scan EXCEPT !.calm = FALSE]

\* ON DELETE SET NULL: a post keeps its tile but no longer holds the row.
DropRowsOnly(gone) == rows' = rows \ gone /\ held' = held
Drop(gone) ==
  /\ rows' = rows \ gone
  /\ held' = held \ {r.id : r \in gone}

-----------------------------------------------------------------------------
(* scan_roots. *)

(* Trash rows whose files are gone are forgotten first.                    *)
VanishedTrashed == {r \in rows : r.trashed /\ r.path \in Bin /\ disk[r.path] = Nothing}

ScanStart(reconcile) ==
  /\ scan.stage \in {"off", "done"} /\ scans < MaxScans
  /\ Drop(VanishedTrashed)
  /\ scan' = [Idle EXCEPT !.stage = "walk", !.todo = Src, !.reconcile = reconcile, !.calm = TRUE]
  /\ scans' = scans + 1
  /\ UNCHANGED <<disk, mover, doomed, suspects, batches>>

(* _ingest, the part before the database: a row with the same bytes is     *)
(* only noted down.                                                        *)
UnchangedIfMissing(p) == \E r \in At(p) : r.pic = disk[p]
Unchanged(p) == \E r \in At(p) : ~r.missing /\ r.pic = disk[p]

ScanRead(p) ==
  /\ scan.stage = "walk" /\ p \in scan.todo
  /\ LET old == {r.id : r \in At(p)}
         next == [scan EXCEPT !.todo = @ \ {p}]
     IN scan' = IF disk[p] = Nothing THEN next
                ELSE IF Unchanged(p)
                THEN [next EXCEPT !.seen = @ \cup old, !.same = @ \cup {<<i, p>> : i \in old}]
                ELSE [next EXCEPT !.stage = "store", !.cur = p, !.old = old, !.read = disk[p]]
  /\ UNCHANGED <<disk, rows, held, mover, doomed, suspects, scans, batches>>

WalkOn(ids, bad) ==
  scan' = [scan EXCEPT !.stage = "walk", !.seen = @ \cup ids, !.bad = @ \cup bad,
             !.cur = Nothing, !.old = {}, !.read = Nothing]

(* upsert: the row of that path by now, or a new one; a trash mark stays.  *)
Upserted ==
  IF At(scan.cur) # {}
  THEN {[r EXCEPT !.pic = scan.read, !.root = "src", !.missing = FALSE] : r \in At(scan.cur)}
  ELSE {[id |-> NextId, path |-> scan.cur, pic |-> scan.read, root |-> "src",
         missing |-> FALSE, trashed |-> FALSE, orig |-> Nothing]}

ScanStore ==
  /\ scan.stage = "store" /\ (At(scan.cur) # {} \/ NextId <= MaxId)
  /\ rows' = (rows \ At(scan.cur)) \cup Upserted
  /\ WalkOn({r.id : r \in Upserted}, {})
  /\ UNCHANGED <<disk, held, mover, doomed, suspects, scans, batches>>

(* One unreadable file must never abort a scan; its row counts as seen.    *)
ScanFails ==
  /\ scan.stage = "store"
  /\ WalkOn(scan.old, {scan.cur})
  /\ UNCHANGED <<disk, rows, held, mover, doomed, suspects, scans, batches>>

(* mark_seen_many writes the path that was read, whatever the row says by  *)
(* now; a path that is taken breaks the scan.                              *)
MarkedSeen == {[r EXCEPT !.path = IF \E s \in scan.same : s[1] = r.id
                                  THEN (CHOOSE s \in scan.same : s[1] = r.id)[2]
                                  ELSE @] : r \in rows}
PathsUnique(table) == \A r, q \in table : r # q => r.path # q.path

ScanMarkSeen(stop) ==
  /\ scan.stage = "walk" /\ (scan.todo = {} \/ stop)
  /\ IF PathsUnique(MarkedSeen)
     THEN /\ rows' = MarkedSeen
          /\ scan' = IF stop THEN Idle
                     ELSE [scan EXCEPT !.stage = IF scan.reconcile THEN "end" ELSE "done"]
     ELSE rows' = rows /\ scan' = Idle
  /\ UNCHANGED <<disk, held, mover, doomed, suspects, scans, batches>>

(* mark_missing, one transaction: what was not seen goes, unless a post    *)
(* holds it.                                                               *)
Unseen == {r \in rows : r.root = "src" /\ ~r.trashed /\ r.id \notin scan.seen}
Removed(gone) == {r \in gone : r.id \notin held}

ScanReconcile ==
  /\ scan.stage = "end"
  /\ LET gone == Removed(Unseen) IN
       /\ rows' = {IF r \in Unseen THEN [r EXCEPT !.missing = TRUE] ELSE r : r \in rows \ gone}
       /\ held' = held \ {r.id : r \in gone}
  /\ scan' = [scan EXCEPT !.stage = "done"]
  /\ UNCHANGED <<disk, mover, doomed, suspects, scans, batches>>

ScanStep ==
  \/ \E p \in Src : ScanRead(p)
  \/ ScanStore \/ ScanFails
  \/ \E stop \in BOOLEAN : ScanMarkSeen(stop)
  \/ ScanReconcile

-----------------------------------------------------------------------------
(* Moves: duplicates.move_to_trash and restore_from_trash, archive.run,    *)
(* each through relocate.move_image.                                       *)

(* The batch is chosen, and its rows are read, once.                       *)
Eligible(m, r) ==
  CASE m = "trash"   -> r.id \notin held
    [] m = "archive" -> /\ ~r.missing /\ ~r.trashed /\ r.root = "src"
                        /\ r.pic \in Due /\ disk[r.path] # Nothing
    [] m = "restore" -> TRUE

BatchStart(m, chosen) ==
  /\ mover[m].stage = "off" /\ batches < MaxBatches /\ chosen # {}
  /\ \A r \in chosen : Eligible(m, r)
  /\ mover' = [mover EXCEPT ![m] = [NoBatch EXCEPT !.stage = "on", !.todo = chosen]]
  /\ batches' = batches + 1
  /\ UNCHANGED <<disk, rows, held, scan, doomed, suspects, scans>>

(* What the batch checks of the row it has read, and move_image of the row *)
(* as it is.                                                               *)
Targets(m, r) ==
  CASE m = "trash"   -> IF r.trashed THEN {} ELSE Bin
    [] m = "archive" -> IF disk[r.path] = r.pic THEN Vault ELSE {}
    [] m = "restore" -> IF r.trashed THEN {r.orig} ELSE {}
TakenTargets(m, r) ==
  {t \in Targets(m, r) : disk[r.path] # Nothing /\ \E q \in WithId(r.id) : q.path = r.path}
FreeTargets(m, r) ==
  {t \in Targets(m, r) : disk[t] = Nothing /\ disk[r.path] # Nothing
                         /\ \E q \in WithId(r.id) : q.path = r.path}

MoveFile(m, r, to) ==
  /\ mover[m].stage = "on" /\ r \in mover[m].todo /\ to \in FreeTargets(m, r)
  /\ disk' = [disk EXCEPT ![r.path] = Nothing, ![to] = disk[r.path]]
  /\ mover' = [mover EXCEPT ![m] = [stage |-> "moved", todo |-> @.todo \ {r}, row |-> {r}, to |-> to]]
  /\ scan' = Disturbed
  /\ UNCHANGED <<rows, held, doomed, suspects, scans, batches>>

SkipFile(m, r) ==
  /\ mover[m].stage = "on" /\ r \in mover[m].todo /\ FreeTargets(m, r) = {}
  /\ mover' = [mover EXCEPT ![m].todo = @ \ {r}]
  /\ UNCHANGED <<disk, rows, held, scan, doomed, suspects, scans, batches>>

(* The row follows its file; when it cannot, the file is put back.         *)
Repointed(m, q, from, to) ==
  CASE m = "trash"   -> [q EXCEPT !.path = to, !.missing = FALSE, !.trashed = TRUE, !.orig = from]
    [] m = "archive" -> [q EXCEPT !.path = to, !.missing = FALSE, !.trashed = FALSE,
                                  !.orig = Nothing, !.root = "vault"]
    [] m = "restore" -> [q EXCEPT !.path = to, !.missing = FALSE, !.trashed = FALSE,
                                  !.orig = Nothing]

PutBack(at, from, to) == IF at[to] = Nothing THEN at
                         ELSE [at EXCEPT ![to] = Nothing, ![from] = at[to]]

CommitMove(m) ==
  /\ mover[m].stage = "moved"
  /\ LET r == CHOOSE x \in mover[m].row : TRUE
         to == mover[m].to
     IN IF WithId(r.id) # {} /\ At(to) \subseteq WithId(r.id)
        THEN /\ rows' = (rows \ WithId(r.id)) \cup {Repointed(m, q, r.path, to) : q \in WithId(r.id)}
             /\ disk' = disk
        ELSE rows' = rows /\ disk' = PutBack(disk, r.path, to)
  /\ mover' = [mover EXCEPT ![m].stage = "on", ![m].row = {}, ![m].to = Nothing]
  /\ scan' = Disturbed
  /\ UNCHANGED <<held, doomed, suspects, scans, batches>>

(* Nothing left, or the user stops the job.                                *)
BatchEnd(m) ==
  /\ mover[m].stage = "on" /\ mover' = [mover EXCEPT ![m] = NoBatch]
  /\ UNCHANGED <<disk, rows, held, scan, doomed, suspects, scans, batches>>

MoverStep(m) ==
  \/ \E r \in mover[m].todo : SkipFile(m, r) \/ \E to \in Places : MoveFile(m, r, to)
  \/ CommitMove(m) \/ BatchEnd(m)

-----------------------------------------------------------------------------
(* delete_files: the rows are read first; each file goes, then its row.    *)

DeletePlan(chosen) ==
  /\ doomed.todo = {} /\ doomed.row = {} /\ batches < MaxBatches /\ chosen # {}
  /\ doomed' = [todo |-> chosen, row |-> {}] /\ batches' = batches + 1
  /\ UNCHANGED <<disk, rows, held, scan, mover, suspects, scans>>

Unlink(r) ==
  /\ doomed.row = {} /\ r \in doomed.todo /\ ~r.trashed /\ disk[r.path] # Nothing
  /\ disk' = [disk EXCEPT ![r.path] = Nothing]
  /\ doomed' = [todo |-> doomed.todo \ {r}, row |-> {r}]
  /\ scan' = Disturbed
  /\ UNCHANGED <<rows, held, mover, suspects, scans, batches>>

Spare(r) ==
  /\ doomed.row = {} /\ r \in doomed.todo /\ (r.trashed \/ disk[r.path] = Nothing)
  /\ doomed' = [doomed EXCEPT !.todo = @ \ {r}]
  /\ UNCHANGED <<disk, rows, held, scan, mover, suspects, scans, batches>>

DeleteRow ==
  /\ doomed.row # {}
  /\ Drop({r \in rows : \E d \in doomed.row : d.id = r.id})
  /\ doomed' = [doomed EXCEPT !.row = {}] /\ scan' = Disturbed
  /\ UNCHANGED <<disk, mover, suspects, scans, batches>>

-----------------------------------------------------------------------------
(* reconcile_missing_candidates, in the duplicates job: which of some rows *)
(* have lost their files, then a transaction of its own.                   *)

FindVanished(chosen) ==
  /\ suspects = {} /\ batches < MaxBatches
  /\ suspects' = {r.id : r \in {q \in chosen : ~q.missing /\ ~q.trashed /\ disk[q.path] = Nothing}}
  /\ batches' = batches + 1
  /\ UNCHANGED <<disk, rows, held, scan, mover, doomed, scans>>

ForgetVanished ==
  /\ suspects # {}
  /\ LET lost == {r \in rows : r.id \in suspects}
         gone == Removed(lost)
     IN /\ rows' = {IF r \in lost THEN [r EXCEPT !.missing = TRUE] ELSE r : r \in rows \ gone}
        /\ held' = held \ {r.id : r \in gone}
  /\ suspects' = {} /\ scan' = Disturbed
  /\ UNCHANGED <<disk, mover, doomed, scans, batches>>

-----------------------------------------------------------------------------
(* Posts take and release rows; other programs write and remove files; the *)
(* process dies, and what was half done stays so.                          *)

Hold(r) ==
  /\ r.id \notin held /\ ~r.trashed /\ held' = held \cup {r.id} /\ scan' = Disturbed
  /\ UNCHANGED <<disk, rows, mover, doomed, suspects, scans, batches>>
Release(id) ==
  /\ held' = held \ {id} /\ scan' = Disturbed
  /\ UNCHANGED <<disk, rows, mover, doomed, suspects, scans, batches>>

Somewhere(pic) == \E p \in Places : disk[p] = pic
Appear(p, pic) ==
  /\ disk[p] = Nothing /\ ~Somewhere(pic)
  /\ disk' = [disk EXCEPT ![p] = pic] /\ scan' = Disturbed
  /\ UNCHANGED <<rows, held, mover, doomed, suspects, scans, batches>>
Vanish(p) ==
  /\ disk[p] # Nothing /\ disk' = [disk EXCEPT ![p] = Nothing] /\ scan' = Disturbed
  /\ UNCHANGED <<rows, held, mover, doomed, suspects, scans, batches>>

Crash ==
  /\ scan' = Idle /\ mover' = [m \in Movers |-> NoBatch]
  /\ doomed' = [todo |-> {}, row |-> {}] /\ suspects' = {}
  /\ UNCHANGED <<disk, rows, held, scans, batches>>

LibraryNext ==
  \/ \E reconcile \in BOOLEAN : ScanStart(reconcile)
  \/ ScanStep
  \/ \E m \in Movers : MoverStep(m) \/ \E chosen \in SUBSET rows : BatchStart(m, chosen)
  \/ \E chosen \in SUBSET rows : DeletePlan(chosen)
  \/ \E r \in doomed.todo : Unlink(r) \/ Spare(r)
  \/ DeleteRow
  \/ \E chosen \in SUBSET rows : FindVanished(chosen)
  \/ ForgetVanished
  \/ \E r \in rows : Hold(r)
  \/ \E id \in held : Release(id)
  \/ \E p \in Src, pic \in Pics : Appear(p, pic)
  \/ \E p \in Src : Vanish(p)
  \/ Crash
LibrarySpec == LibraryInit /\ [][LibraryNext]_libraryVars

-----------------------------------------------------------------------------

(* Moving never discards: a file leaves the disk only because another      *)
(* program removes it, the user deletes it for good, or a move is undone   *)
(* onto a place that was taken meanwhile (_put_back overwrites).           *)
Overwriting(m) == CommitMove(m) /\ \E r \in mover[m].row : disk[r.path] # Nothing
FileKept ==
  [][\/ \A pic \in Pics : Somewhere(pic) => Somewhere(pic)'
     \/ \E p \in Src : Vanish(p)
     \/ \E r \in doomed.todo : Unlink(r)
     \/ \E m \in Movers : Overwriting(m)]_libraryVars

(* After a full scan that nobody disturbed, the rows that point into the   *)
(* folder say what lies there: each readable file has a row, a row that is *)
(* not missing has its file, a missing one is held by a post.              *)
ScanAgrees ==
  scan.stage = "done" /\ scan.calm /\ scan.reconcile =>
    /\ \A p \in Src \ scan.bad :
         disk[p] # Nothing => \E r \in At(p) : r.pic = disk[p] /\ ~r.missing
    /\ \A r \in rows : r.root = "src" /\ ~r.trashed /\ r.path \in Src \ scan.bad =>
         IF r.missing THEN r.id \in held /\ disk[r.path] = Nothing ELSE disk[r.path] # Nothing

(* "so disk and database cannot quietly disagree" (relocate.move_image): a *)
(* row in the trash says where in the trash its file is.                   *)
TrashKnowsItsFile == \A r \in rows : r.trashed => r.path \in Bin

(* The same of the root: a row whose file lies in the archive belongs to   *)
(* the archive.  move_image repoints WHERE id=?, and the id may be another *)
(* picture's by now.                                                       *)
RootTells == \A r \in rows : ~r.trashed /\ r.path \in Vault => r.root = "vault"
=============================================================================
