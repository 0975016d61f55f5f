------------------------------- MODULE Backups -------------------------------
(***************************************************************************)
(* Backups of the database (backup.py), what restores one, and the         *)
(* migration every start and every restore runs (db.init_db).  A database  *)
(* is what the user last wrote, the migration steps it went through, the   *)
(* version it claims, and whether it holds a credential.                   *)
(***************************************************************************)
EXTENDS Integers, FiniteSets

CONSTANTS
  SchemaVersion,    \* SCHEMA_VERSION, with as many steps
  KeepAutomatic,    \* KEEP_AUTOMATIC
  MaxBackups, MaxWritten, MaxEnds   \* bound the copies, the writes, the ends of the process

ASSUME BackupsAssumption ==
  /\ SchemaVersion \in Nat \ {0} /\ KeepAutomatic \in Nat \ {0}
  /\ MaxBackups \in Nat /\ MaxWritten \in Nat /\ MaxEnds \in Nat

VARIABLES
  live,       \* the database
  backups,    \* the files of the backup folder
  made,       \* how many were made: their names, in the order of their times
  recent,     \* a regular one is younger than REGULAR_INTERVAL
  stage,      \* what init_db or restore is at
  chosen,     \* the name restore was given
  from,       \* the version _migrate started from
  replaced,   \* ghost: what a restore replaces
  ends        \* how often the process ended

backupVars == <<live, backups, made, recent, stage, chosen, from, replaced, ends>>

Steps == 1 .. SchemaVersion
Database == [text : 0 .. MaxWritten, ran : SUBSET Steps, version : 0 .. SchemaVersion, secret : BOOLEAN]
File == [name : 1 .. MaxBackups, auto : BOOLEAN, db : Database]
Blank == [text |-> 0, ran |-> {}, version |-> 0, secret |-> FALSE]

BackupsTypeOK ==
  /\ live \in Database /\ replaced \in Database /\ backups \subseteq File
  /\ made \in 0 .. MaxBackups /\ recent \in BOOLEAN /\ chosen \in 0 .. MaxBackups
  /\ from \in 0 .. SchemaVersion /\ ends \in 0 .. MaxEnds
  /\ stage \in {"down", "opening", "migrating", "up", "restoring"}

(* An installation that an older version of the program left.              *)
BackupsInit ==
  /\ \E v \in Steps : live = [Blank EXCEPT !.ran = 1 .. v, !.version = v]
  /\ backups = {} /\ made = 0 /\ recent = FALSE /\ stage = "down"
  /\ chosen = 0 /\ from = 0 /\ replaced = Blank /\ ends = 0

-----------------------------------------------------------------------------

Stripped(db) == [db EXCEPT !.secret = FALSE]
Named(name) == {b \in backups : b.name = name}

(* prune: the newest automatic ones stay, and every other.                 *)
Newer(files, b) == {o \in files : o.auto /\ o.name > b.name}
Prune(files) == {b \in files : b.auto => Cardinality(Newer(files, b)) < KeepAutomatic}

Written(files, auto, db) == files \cup {[name |-> made + 1, auto |-> auto, db |-> db]}
Create(auto, db) ==
  /\ made < MaxBackups /\ made' = made + 1
  /\ backups' = IF auto THEN Prune(Written(backups, auto, Stripped(db))) ELSE Written(backups, auto, Stripped(db))

CreateManual ==
  /\ stage = "up" /\ Create(FALSE, live)
  /\ UNCHANGED <<live, recent, stage, chosen, from, replaced, ends>>

(* create_regular_if_due, at a start and from the scheduler.               *)
CreateRegular ==
  /\ stage = "up" /\ ~recent /\ Create(TRUE, live) /\ recent' = TRUE
  /\ UNCHANGED <<live, stage, chosen, from, replaced, ends>>

DayPasses == stage = "up" /\ recent /\ recent' = FALSE
             /\ UNCHANGED <<live, backups, made, stage, chosen, from, replaced, ends>>

Delete(name) ==
  /\ stage = "up" /\ Named(name) # {}
  /\ backups' = backups \ Named(name)
  /\ UNCHANGED <<live, made, recent, stage, chosen, from, replaced, ends>>

-----------------------------------------------------------------------------

(* init_db: a copy is put aside, then every step above the version it      *)
(* found runs, then the version is written.                                *)
Start ==
  /\ stage = "down" /\ stage' = "opening"
  /\ UNCHANGED <<live, backups, made, recent, chosen, from, replaced, ends>>

OpenCurrent ==
  /\ stage = "opening" /\ live.version = SchemaVersion /\ stage' = "up"
  /\ UNCHANGED <<live, backups, made, recent, chosen, from, replaced, ends>>

SafetyBackup ==
  /\ stage = "opening" /\ live.version < SchemaVersion
  /\ IF live.ran = {} THEN UNCHANGED <<backups, made>> ELSE Create(TRUE, live)
  /\ from' = live.version /\ stage' = "migrating"
  /\ UNCHANGED <<live, recent, chosen, replaced, ends>>

VersionFirst(db, step) == [db EXCEPT !.ran = @ \cup {step}, !.version = SchemaVersion]
Migrated(db, step) == [db EXCEPT !.ran = @ \cup {step}]
Migrate ==
  /\ stage = "migrating"
  /\ \E step \in from + 1 .. SchemaVersion :
       /\ step \notin live.ran /\ \A earlier \in from + 1 .. step - 1 : earlier \in live.ran
       /\ live' = Migrated(live, step)
  /\ UNCHANGED <<backups, made, recent, stage, chosen, from, replaced, ends>>

WriteVersion ==
  /\ stage = "migrating" /\ from + 1 .. SchemaVersion \subseteq live.ran
  /\ live' = [live EXCEPT !.version = SchemaVersion] /\ stage' = "up"
  /\ UNCHANGED <<backups, made, recent, chosen, from, replaced, ends>>

-----------------------------------------------------------------------------

(* restore: the current state is put aside, the file replaces it through   *)
(* the connection, and init_db runs again.                                 *)
NoSafety == UNCHANGED <<backups, made>>
Safety == Create(TRUE, live)
Restore(name) ==
  /\ stage = "up" /\ Named(name) # {}
  /\ Safety /\ chosen' = name /\ stage' = "restoring"
  /\ UNCHANGED <<live, recent, from, replaced, ends>>

Replace ==
  /\ stage = "restoring"
  /\ \E b \in Named(chosen) : live' = Stripped(b.db)
  /\ replaced' = live /\ stage' = "opening"
  /\ UNCHANGED <<backups, made, recent, chosen, from, ends>>

CannotOpen ==
  /\ stage = "restoring" /\ Named(chosen) = {} /\ stage' = "up"
  /\ UNCHANGED <<live, backups, made, recent, chosen, from, replaced, ends>>

-----------------------------------------------------------------------------

Write ==
  /\ stage = "up" /\ live.text < MaxWritten
  /\ \E secret \in BOOLEAN : live' = [live EXCEPT !.text = @ + 1, !.secret = secret]
  /\ UNCHANGED <<backups, made, recent, stage, chosen, from, replaced, ends>>

(* The process ends, or a step of the migration fails and it does not      *)
(* start; a copy in the making is left as it is.                           *)
Ends ==
  /\ stage # "down" /\ ends < MaxEnds /\ ends' = ends + 1 /\ stage' = "down"
  /\ UNCHANGED <<live, backups, made, recent, chosen, from, replaced>>

EndsInCopy ==
  /\ stage = "up" /\ ends < MaxEnds /\ ends' = ends + 1 /\ stage' = "down"
  /\ made < MaxBackups /\ made' = made + 1
  /\ \E auto \in BOOLEAN, db \in {Blank, live} : backups' = Written(backups, auto, db)
  /\ UNCHANGED <<live, recent, chosen, from, replaced>>

BackupsNext ==
  \/ CreateManual \/ CreateRegular \/ DayPasses \/ \E name \in 1 .. made : Delete(name) \/ Restore(name)
  \/ Start \/ OpenCurrent \/ SafetyBackup \/ Migrate \/ WriteVersion
  \/ Replace \/ CannotOpen \/ Write \/ Ends \/ EndsInCopy

BackupsSpec == BackupsInit /\ [][BackupsNext]_backupVars

-----------------------------------------------------------------------------

(* The version a database claims is one it was brought to: whatever run of *)
(* the migration ended half way, and whatever older copy was restored on   *)
(* top, no step at or below it is missing.  A copy inherits that.          *)
VersionTells == \A db \in {live} \cup {b.db : b \in backups} : 1 .. db.version \subseteq db.ran

(* A restore never destroys the only copy: when the chosen file has taken  *)
(* the place of the current state, that is in the folder, uncredentialed.  *)
RestoreUndoes == [][Replace => \E b \in backups : b.db = Stripped(live)]_backupVars

(* ... and nor does it destroy the copy it restores.                       *)
RestoreFindsItsBackup == stage = "restoring" => Named(chosen) # {}

(* A migration that fails is repaired from the copy put aside before it:   *)
(* while the database is half way, a copy from before is there.            *)
Clean(files) == \E b \in files : b.db.ran = 1 .. b.db.version
HalfWay == live.ran # 1 .. live.version
CleanCopyKept == [][stage = "opening" /\ HalfWay /\ Clean(backups) => Clean(backups')]_backupVars

(* No file of the folder carries a credential.                             *)
NoSecretLeft == \A b \in backups : ~b.db.secret
=============================================================================
