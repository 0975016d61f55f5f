------------------------------ MODULE DataMove ------------------------------
(***************************************************************************)
(* Moving the data directory (relocate.run) below threads that answer      *)
(* requests (db.py): each keeps its connection until it finds it stale,    *)
(* of an earlier generation.  The process may end at any step.             *)
(***************************************************************************)
EXTENDS Naturals, FiniteSets

CONSTANTS
  Requests,                \* threads that answer requests
  OldPlace, NewPlace,      \* two data directories
  NoPlace,
  MaxWrites, MaxCrashes    \* bound the transactions and the crashes

ASSUME DataMoveAssumption ==
  /\ IsFiniteSet(Requests) /\ MaxWrites \in Nat /\ MaxCrashes \in Nat
  /\ OldPlace # NewPlace /\ NoPlace \notin {OldPlace, NewPlace}

VARIABLES
  file,        \* publisher.db in each place: the writes in it, and in its -wal
  pointer,     \* the pointer file; NoPlace while it cannot be read
  override,    \* LIVEBOUND_DATA_DIR names the old place
  frozen,      \* db._freeze_owner is the moving thread
  thread,      \* each thread: its cached connection and what it does
  moving,      \* the stage of the move-data job
  written,     \* ghost: all that was committed
  settled,     \* ghost: what was committed when the database was closed
  crashes

moveVars == <<file, pointer, override, frozen, thread, moving, written, settled, crashes>>

Places == {OldPlace, NewPlace}
Writes == 1 .. MaxWrites
Absent == [main |-> {}, wal |-> {}, exists |-> FALSE]
Closed == [at |-> NoPlace, fresh |-> FALSE, doing |-> "idle"]

MoveTypeOK ==
  /\ file \in [Places -> [main : SUBSET Writes, wal : SUBSET Writes, exists : BOOLEAN]]
  /\ pointer \in Places \cup {NoPlace} /\ override \in BOOLEAN /\ frozen \in BOOLEAN
  /\ crashes \in 0 .. MaxCrashes
  /\ thread \in [Requests -> [at : Places \cup {NoPlace}, fresh : BOOLEAN, doing : {"idle", "holding", "writing"}]]
  /\ moving \in {"idle", "checked", "frozen", "closed", "copying", "copied", "pointing", "pointed", "open"}
  /\ written \subseteq Writes /\ settled \subseteq written

MoveInit ==
  /\ file = [p \in Places |-> IF p = OldPlace THEN [Absent EXCEPT !.exists = TRUE] ELSE Absent]
  /\ pointer = OldPlace /\ override \in BOOLEAN
  /\ frozen = FALSE /\ moving = "idle" /\ crashes = 0
  /\ thread = [t \in Requests |-> Closed]
  /\ written = {} /\ settled = {}

(* data_dir: the environment wins over the pointer.                        *)
Live == IF override THEN OldPlace ELSE pointer

-----------------------------------------------------------------------------

(* get_connection: nobody else's while the database is closed; a stale     *)
(* connection is opened again.                                             *)
GetConnection(t) ==
  /\ ~frozen /\ thread[t].doing = "idle" /\ Live # NoPlace
  /\ LET at == IF thread[t].fresh THEN thread[t].at ELSE Live
     IN /\ thread' = [thread EXCEPT ![t] = [at |-> at, fresh |-> TRUE, doing |-> "holding"]]
        /\ file' = [file EXCEPT ![at].exists = TRUE]
  /\ UNCHANGED <<pointer, override, frozen, moving, written, settled, crashes>>

(* transaction: BEGIN IMMEDIATE, one writer at a time, then the commit.    *)
Begin(t) ==
  /\ thread[t].doing = "holding"
  /\ \A u \in Requests : thread[u].doing = "writing" => thread[u].at # thread[t].at
  /\ thread' = [thread EXCEPT ![t].doing = "writing"]
  /\ UNCHANGED <<file, pointer, override, frozen, moving, written, settled, crashes>>

Commit(t) ==
  /\ thread[t].doing = "writing"
  /\ \E w \in Writes \ written :
       /\ \A v \in Writes \ written : w <= v
       /\ file' = [file EXCEPT ![thread[t].at].wal = IF file[thread[t].at].exists THEN @ \cup {w} ELSE @]
       /\ written' = written \cup {w}
  /\ thread' = [thread EXCEPT ![t].doing = "idle"]
  /\ UNCHANGED <<pointer, override, frozen, moving, settled, crashes>>

-----------------------------------------------------------------------------

(* relocated: every cached connection is of an earlier generation.         *)
Relocated == [t \in Requests |-> [thread[t] EXCEPT !.fresh = FALSE]]

(* check_target: an empty folder elsewhere; then a backup is taken.        *)
CheckTarget ==
  /\ moving = "idle" /\ Live = OldPlace /\ file[NewPlace] = Absent
  /\ moving' = "checked"
  /\ UNCHANGED <<file, pointer, override, frozen, thread, written, settled, crashes>>

Freeze ==
  /\ moving = "checked" /\ moving' = "frozen" /\ frozen' = TRUE
  /\ UNCHANGED <<file, pointer, override, thread, written, settled, crashes>>

(* wal_checkpoint(TRUNCATE) folds the -wal in, or finds it in use.         *)
Busy == \E t \in Requests : thread[t].doing = "writing" /\ thread[t].at = OldPlace
NeverBusy == FALSE
InUse == Busy
Checkpoint ==
  /\ moving = "frozen"
  /\ IF InUse
     THEN moving' = "idle" /\ frozen' = FALSE /\ UNCHANGED <<file, thread, settled>>
     ELSE /\ moving' = "closed" /\ thread' = Relocated
          /\ file' = IF Busy THEN file
                     ELSE [file EXCEPT ![OldPlace].main = @ \cup file[OldPlace].wal, ![OldPlace].wal = {}]
          /\ settled' = written /\ UNCHANGED frozen
  /\ UNCHANGED <<pointer, override, written, crashes>>

Copy ==
  /\ moving = "closed" /\ moving' = "copying"
  /\ file' = [file EXCEPT ![NewPlace] = [main |-> {}, wal |-> {}, exists |-> TRUE]]
  /\ UNCHANGED <<pointer, override, frozen, thread, written, settled, crashes>>

CopyEnds ==
  /\ moving = "copying" /\ moving' = "copied"
  /\ \E whole \in BOOLEAN :
       file' = [file EXCEPT ![NewPlace].main = IF whole THEN file[OldPlace].main ELSE {}]
  /\ UNCHANGED <<pointer, override, frozen, thread, written, settled, crashes>>

(* A half copy is cleared away and the old location stays.                 *)
GiveUp ==
  /\ moving \in {"copying", "copied"} /\ moving' = "idle" /\ frozen' = FALSE
  /\ thread' = Relocated
  /\ file' = [file EXCEPT ![NewPlace] = Absent]
  /\ UNCHANGED <<pointer, override, written, settled, crashes>>

(* _verify compares sizes.                                                 *)
Verified == file[NewPlace].main = file[OldPlace].main

(* set_data_dir writes the pointer file in place.                          *)
TruncatePointer ==
  /\ moving = "copied" /\ Verified
  /\ moving' = "pointing" /\ pointer' = NoPlace
  /\ UNCHANGED <<file, override, frozen, thread, written, settled, crashes>>

WritePointer ==
  /\ moving = "pointing" /\ moving' = "pointed" /\ pointer' = NewPlace
  /\ UNCHANGED <<file, override, frozen, thread, written, settled, crashes>>

(* relocated and init_db at what is now the live place; the door opens.    *)
Reopen ==
  /\ moving = "pointed" /\ moving' = "open" /\ frozen' = FALSE
  /\ thread' = Relocated
  /\ file' = [file EXCEPT ![Live].exists = TRUE]
  /\ UNCHANGED <<pointer, override, written, settled, crashes>>

RemoveOld ==
  /\ moving = "open" /\ moving' = "idle"
  /\ file' = [file EXCEPT ![OldPlace] = Absent]
  /\ UNCHANGED <<pointer, override, frozen, thread, written, settled, crashes>>

(* The process ends at any point; init_db creates what it does not find.   *)
Crash ==
  /\ crashes < MaxCrashes /\ crashes' = crashes + 1
  /\ thread' = [t \in Requests |-> Closed] /\ moving' = "idle" /\ frozen' = FALSE
  /\ file' = IF Live = NoPlace THEN file ELSE [file EXCEPT ![Live].exists = TRUE]
  /\ UNCHANGED <<pointer, override, written, settled>>

MoveNext ==
  \/ \E t \in Requests : GetConnection(t) \/ Begin(t) \/ Commit(t)
  \/ CheckTarget \/ Freeze \/ Checkpoint \/ Copy \/ CopyEnds \/ GiveUp
  \/ TruncatePointer \/ WritePointer \/ Reopen \/ RemoveOld \/ Crash

MoveSpec == MoveInit /\ [][MoveNext]_moveVars

-----------------------------------------------------------------------------

Holds(p) == file[p].main \cup file[p].wal

(* Copy, verify, repoint, and only then remove: whatever fails, and        *)
(* wherever the process ends, what was committed when the database was     *)
(* closed is whole in one of the two places, and in the one the pointer    *)
(* names if nothing overrides it.                                          *)
WholeSomewhere ==
  /\ \E p \in Places : settled \subseteq Holds(p)
  /\ pointer # NoPlace /\ ~override => settled \subseteq Holds(pointer)

(* What relocate.py says of the closed database: no write that lands in    *)
(* the old file after it was copied is thrown away by the switch.          *)
NothingThrownAway == ~override /\ moving = "idle" /\ pointer # NoPlace => written \subseteq Holds(pointer)

(* What it says of the removal: the old copy goes only when the copy has   *)
(* taken its place, so the live database is never the one removed.         *)
LiveIsWhole == Live # NoPlace => settled \subseteq Holds(Live)
=============================================================================
