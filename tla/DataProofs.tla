----------------------------- MODULE DataProofs -----------------------------
(***************************************************************************)
(* What keeps the user's data: whatever fails, the data is whole in one of *)
(* the two places while it is moved; the directory the pointer names is    *)
(* complete, and no ping is sent that nobody chose; a backup tells its     *)
(* version, and a restore can be undone.                                   *)
(***************************************************************************)
EXTENDS DataMove, Setup, Backups, TLAPS, FiniteSetTheorems

-----------------------------------------------------------------------------
(* Moving the data (relocate).                                             *)

USE DataMoveAssumption

MoveSteps == {"idle", "checked", "frozen", "closed", "copying", "copied",
          "pointing", "pointed", "open"}
Threads == [at : Places \cup {NoPlace}, fresh : BOOLEAN,
            doing : {"idle", "holding", "writing"}]
Files == [main : SUBSET Writes, wal : SUBSET Writes, exists : BOOLEAN]

(* A thread that holds or keeps a connection has one. *)
Connected ==
  \A t \in Requests :
    thread[t].doing # "idle" \/ thread[t].fresh => thread[t].at \in Places

(* Until a copy exists nothing but the old place is in use.  A move can    *)
(* start only then: CheckTarget wants an empty target.                     *)
Untouched ==
  /\ pointer = OldPlace /\ file[OldPlace].exists
  /\ written \subseteq Holds(OldPlace)
  /\ \A t \in Requests : thread[t].at # NewPlace
Before ==
  \/ ~file[NewPlace].exists
  \/ moving \in {"checked", "frozen", "closed", "copying", "copied"}

(* What was committed lies in the main file, which is all that is copied,  *)
(* and in the copy from the comparison on.                                 *)
Folded == moving \in {"closed", "copying", "copied"} => settled \subseteq file[OldPlace].main
Copied ==
  /\ moving \in {"copying", "copied"} => file[NewPlace].exists
  /\ moving \in {"pointing", "pointed", "open"} => settled \subseteq Holds(NewPlace)
  /\ moving = "pointing" => pointer = NoPlace
  /\ moving \in {"pointed", "open"} => pointer = NewPlace

(* The pointer decides which of the two must be whole; while it cannot be  *)
(* read, the new one is.                                                   *)
WholeCopy ==
  /\ pointer # OldPlace => settled \subseteq Holds(NewPlace)
  /\ pointer = OldPlace => settled \subseteq Holds(OldPlace)

MoveInv ==
  /\ MoveTypeOK /\ Connected /\ (Before => Untouched) /\ Folded /\ Copied /\ WholeCopy

(* The values the steps give to a file or a thread. *)
LEMMA Values ==
  /\ Absent \in Files /\ [Absent EXCEPT !.exists = TRUE] \in Files
  /\ \A f \in Files : [f EXCEPT !.exists = TRUE] \in Files
  /\ Closed \in Threads
  /\ \A r \in Threads : [r EXCEPT !.fresh = FALSE] \in Threads
  /\ [main |-> {}, wal |-> {}, exists |-> TRUE] \in Files
  BY DEF Absent, Files, Closed, Threads

LEMMA MoveTypes ==
  MoveTypeOK <=>
    /\ file \in [Places -> Files] /\ thread \in [Requests -> Threads]
    /\ pointer \in Places \cup {NoPlace} /\ override \in BOOLEAN /\ frozen \in BOOLEAN
    /\ crashes \in 0 .. MaxCrashes /\ moving \in MoveSteps
    /\ written \subseteq Writes /\ settled \subseteq written
  BY DEF MoveTypeOK, Files, Threads, MoveSteps

LEMMA MoveStart == MoveInit => MoveInv
<1> SUFFICES ASSUME MoveInit PROVE MoveInv
  OBVIOUS
<1> USE DEF MoveInit, MoveInv, MoveTypeOK, Connected, Before, Untouched, Folded,
            Copied, WholeCopy, Holds, Places
<1>1. MoveTypeOK
  <2>1. file \in [Places -> Files]
    BY Values
  <2>2. thread \in [Requests -> Threads]
    BY Values
  <2>3. crashes \in 0 .. MaxCrashes
    OBVIOUS
  <2> QED
    BY <2>1, <2>2, <2>3, Zenon DEF Files, Threads
<1>2. Connected
  BY DEF Absent, Closed
<1>3. (Before => Untouched)
  BY DEF Absent, Closed
<1>4. (Folded /\ Copied /\ WholeCopy)
  BY DEF Absent, Closed
<1> QED
  BY <1>1, <1>2, <1>3, <1>4

(* The steps of the threads: a connection of an earlier generation is      *)
(* opened again at the place that is live, and a commit only adds.         *)
LEMMA GetKeeps ==
  ASSUME MoveInv, NEW t \in Requests, GetConnection(t)
  PROVE  MoveInv'
<1> USE DEF MoveInv, MoveTypeOK, Connected, Before, Untouched, Folded, Copied,
            WholeCopy, Holds, Places
<1>1. MoveTypeOK'
  <2>1. file' \in [Places -> Files]
    BY MoveTypes, Values DEF GetConnection, Live
  <2>2. thread' \in [Requests -> Threads]
    BY MoveTypes, Values DEF GetConnection, Live, Threads
  <2> QED
    BY <2>1, <2>2 DEF GetConnection, Files, Threads
<1>2. Connected'
  BY DEF GetConnection, Live
<1>3. (Before => Untouched)'
  BY DEF GetConnection, Live
<1>4. (Folded /\ Copied /\ WholeCopy)'
  BY DEF GetConnection, Live
<1> QED
  BY <1>1, <1>2, <1>3, <1>4

LEMMA BeginKeeps ==
  ASSUME MoveInv, NEW t \in Requests, Begin(t)
  PROVE  MoveInv'
  BY DEF MoveInv, MoveTypeOK, Connected, Before, Untouched, Folded, Copied, WholeCopy,
         Holds, Places, Begin

LEMMA CommitKeeps ==
  ASSUME MoveInv, NEW t \in Requests, Commit(t)
  PROVE  MoveInv'
  BY DEF MoveInv, MoveTypeOK, Connected, Before, Untouched, Folded, Copied, WholeCopy,
         Holds, Places, Commit

(* The steps of the move. *)
LEMMA MoverKeeps ==
  ASSUME MoveInv, CheckTarget \/ Freeze \/ Checkpoint \/ Copy \/ CopyEnds \/ GiveUp
  PROVE  MoveInv'
<1> USE DEF MoveInv, MoveTypeOK, Connected, Before, Untouched, Folded, Copied,
            WholeCopy, Holds, Places
<1>1. CASE CheckTarget
  BY <1>1 DEF CheckTarget, Absent
<1>2. CASE Freeze
  BY <1>2 DEF Freeze
<1>3. CASE Checkpoint
<2>1. MoveTypeOK'
  <3>1. file' \in [Places -> Files]
    BY <1>3, MoveTypes, Values DEF Checkpoint, Files
  <3>2. thread' \in [Requests -> Threads]
    BY <1>3, MoveTypes, Values DEF Checkpoint, Relocated
  <3> QED
    BY <1>3, <3>1, <3>2 DEF Checkpoint, Files, Threads
<2>2. Connected'
  BY <1>3 DEF Checkpoint, InUse, Busy, Relocated
<2>3. (Before => Untouched)'
  BY <1>3 DEF Checkpoint, InUse, Busy, Relocated
<2>4. (Folded /\ Copied /\ WholeCopy)'
  BY <1>3 DEF Checkpoint, InUse, Busy, Relocated
<2> QED
  BY <2>1, <2>2, <2>3, <2>4
<1>4. CASE Copy
  BY <1>4 DEF Copy
<1>5. CASE CopyEnds
  BY <1>5 DEF CopyEnds
<1>6. CASE GiveUp
<2>1. MoveTypeOK'
  <3>1. file' \in [Places -> Files]
    BY <1>6, MoveTypes, Values DEF GiveUp
  <3>2. thread' \in [Requests -> Threads]
    BY <1>6, MoveTypes, Values DEF GiveUp, Relocated
  <3> QED
    BY <1>6, <3>1, <3>2 DEF GiveUp, Files, Threads
<2>2. Connected'
  BY <1>6 DEF GiveUp, Relocated, Absent
<2>3. (Before => Untouched)'
  BY <1>6 DEF GiveUp, Relocated, Absent
<2>4. (Folded /\ Copied /\ WholeCopy)'
  BY <1>6 DEF GiveUp, Relocated, Absent
<2> QED
  BY <2>1, <2>2, <2>3, <2>4
<1> QED
  BY <1>1, <1>2, <1>3, <1>4, <1>5, <1>6

LEMMA SwitchKeeps ==
  ASSUME MoveInv, TruncatePointer \/ WritePointer \/ Reopen \/ RemoveOld \/ Crash
  PROVE  MoveInv'
<1> USE DEF MoveInv, MoveTypeOK, Connected, Before, Untouched, Folded, Copied,
            WholeCopy, Holds, Places
<1>1. CASE TruncatePointer
<2>1. MoveTypeOK'
  BY <1>1 DEF TruncatePointer, Verified
<2>2. Connected'
  BY <1>1 DEF TruncatePointer, Verified
<2>3. (Before => Untouched)'
  BY <1>1 DEF TruncatePointer, Verified
<2>4. (Folded /\ Copied /\ WholeCopy)'
  BY <1>1 DEF TruncatePointer, Verified
<2> QED
  BY <2>1, <2>2, <2>3, <2>4
<1>2. CASE WritePointer
  BY <1>2 DEF WritePointer
<1>3. CASE Reopen
<2>1. MoveTypeOK'
  <3>1. file' \in [Places -> Files]
    BY <1>3, MoveTypes, Values DEF Reopen, Live
  <3>2. thread' \in [Requests -> Threads]
    BY <1>3, MoveTypes, Values DEF Reopen, Relocated
  <3> QED
    BY <1>3, <3>1, <3>2 DEF Reopen, Files, Threads
<2>2. Connected'
  BY <1>3 DEF Reopen, Live, Relocated
<2>3. (Before => Untouched)'
  BY <1>3 DEF Reopen, Live, Relocated
<2>4. (Folded /\ Copied /\ WholeCopy)'
  BY <1>3 DEF Reopen, Live, Relocated
<2> QED
  BY <2>1, <2>2, <2>3, <2>4
<1>4. CASE RemoveOld
  BY <1>4 DEF RemoveOld, Absent
<1>5. CASE Crash
<2>1. MoveTypeOK'
  <3>1. file' \in [Places -> Files]
    BY <1>5, MoveTypes, Values DEF Crash, Live
  <3>2. thread' \in [Requests -> Threads]
    BY <1>5, MoveTypes, Values DEF Crash
  <3>3. crashes' \in 0 .. MaxCrashes
    BY <1>5 DEF Crash
  <3> QED
    BY <1>5, <3>1, <3>2, <3>3, Zenon DEF Crash, Files, Threads
<2>2. Connected'
  BY <1>5 DEF Crash, Live, Closed
<2>3. (Before => Untouched)'
  BY <1>5 DEF Crash, Live, Closed
<2>4. (Folded /\ Copied /\ WholeCopy)'
  BY <1>5 DEF Crash, Live, Closed
<2> QED
  BY <2>1, <2>2, <2>3, <2>4
<1> QED
  BY <1>1, <1>2, <1>3, <1>4, <1>5

LEMMA MoveStep == MoveInv /\ [MoveNext]_moveVars => MoveInv'
<1> SUFFICES ASSUME MoveInv, [MoveNext]_moveVars PROVE MoveInv'
  OBVIOUS
<1>1. CASE MoveNext
  BY <1>1, GetKeeps, BeginKeeps, CommitKeeps, MoverKeeps, SwitchKeeps DEF MoveNext
<1>2. CASE UNCHANGED moveVars
  BY <1>2 DEF moveVars, MoveInv, MoveTypeOK, Connected, Before, Untouched, Folded, Copied,
              WholeCopy, Holds
<1> QED
  BY <1>1, <1>2

(* The inductive invariant of the move (relocate.run, db.closed).          *)
THEOREM MoveInvariant == MoveSpec => []MoveInv
<1> QED
  BY MoveStart, MoveStep, PTL DEF MoveSpec

(* What was committed when the database was closed is whole in one of the  *)
(* two places, and in the one the pointer names (relocate.run: copy,       *)
(* verify, repoint, and only then remove).                                 *)
THEOREM NothingLost == MoveSpec => []WholeSomewhere
<1>1. MoveInv => WholeSomewhere
  BY DEF MoveInv, MoveTypeOK, WholeCopy, WholeSomewhere, Places
<1> QED
  BY <1>1, MoveInvariant, PTL

HIDE DataMoveAssumption

-----------------------------------------------------------------------------
(* The first start (setup).                                                *)

USE SetupAssumption

(* Until the pointer is written the program knows no directory; what _complete *)
(* has contents of the chosen one follows from where it is.                    *)
Unpointed == up /\ required /\ choosing.at # "leave" => pointsTo = NoHome
Chosen == homes[choosing.home]
Underway ==
  /\ choosing.at # "idle" => choosing.home \in Homes
  /\ choosing.at \in {"pending", "consent", "point"} => Chosen.kind = "db"
  /\ choosing.at \in {"consent", "point"} => Chosen.wizard = "0"
  /\ choosing.at = "point" => ~Chosen.consent
Asked == pointsTo # NoHome /\ Here.consent => chose

SetupInv ==
  /\ SetupTypeOK /\ Unpointed /\ Underway /\ Asked
  /\ PointedIsPrepared /\ PingsIfChosen

HomeKinds == {"absent", "empty", "half", "db"}

(* What the records of a directory's contents can be. *)
LEMMA HomeFacts ==
  /\ \A h \in Home : h \in [kind : HomeKinds, wizard : {"missing", "0", "1"},
                            consent : BOOLEAN, has : SUBSET Minimums]
  /\ \A h \in Home : h.kind = "db" => h \in Prepared
  /\ \A k \in HomeKinds : Of(k) \in Home
  /\ Prepared \subseteq Home /\ Uploads \subseteq Prepared
<1>1. \A k \in HomeKinds : Of(k) \in [kind : HomeKinds, wizard : {"missing", "0", "1"},
                                  consent : BOOLEAN, has : SUBSET Minimums]
  BY DEF Of, HomeKinds
<1>2. Of("db") \in Prepared
  BY DEF Of, Prepared
<1>3. \A k \in HomeKinds : Of(k).kind = k
  BY DEF Of
<1>4. Prepared \subseteq [kind : HomeKinds, wizard : {"missing", "0", "1"},
                          consent : BOOLEAN, has : SUBSET Minimums]
  BY DEF Prepared, HomeKinds
<1>5. \A h \in Home : h \in Prepared \/ \E k \in HomeKinds : h = Of(k)
  BY DEF Home, HomeKinds
<1>6. Prepared \subseteq Home /\ \A k \in HomeKinds : Of(k) \in Home
  BY DEF Home, HomeKinds
<1> QED
  BY <1>1, <1>2, <1>3, <1>4, <1>5, <1>6 DEF Uploads

LEMMA SetupStart == SetupInit => SetupInv
<1> SUFFICES ASSUME SetupInit PROVE SetupInv
  OBVIOUS
<1>1. homes \in [Homes -> Home]
  BY HomeFacts DEF SetupInit, HomeKinds
<1>2. NotChoosing \in [at : SetupSteps \cup {"idle"}, home : Homes \cup {NoHome}, existed : BOOLEAN,
                       upload : Uploads \cup {NoUpload}]
  BY DEF NotChoosing
<1>3. choosing = NotChoosing /\ choosing.at = "idle"
  BY DEF SetupInit, NotChoosing
<1>4. SetupTypeOK
  <2>1. starts \in 0 .. MaxStarts
    BY DEF SetupInit
  <2>2. /\ up \in BOOLEAN /\ required \in BOOLEAN /\ ticking \in BOOLEAN
        /\ chose \in BOOLEAN /\ pinged \in BOOLEAN /\ ~ticking
    BY DEF SetupInit
  <2> QED
    BY <1>1, <1>2, <1>3, <2>1, <2>2, Zenon DEF SetupInit, SetupTypeOK
<1> QED
  BY <1>3, <1>4 DEF SetupInit, SetupInv, Unpointed, Underway, Asked, PointedIsPrepared, PingsIfChosen

-----------------------------------------------------------------------------

LEMMA CompleteKeeps == ASSUME SetupInv, Complete PROVE SetupInv'
<1> DEFINE step == choosing.at
           home == choosing.home
           contents == Made(homes[home], step, choosing.upload)
<1>1. /\ step \in SetupSteps \ {"leave"} /\ home \in Homes
      /\ homes[home] \in Home /\ choosing.upload \in Uploads \cup {NoUpload}
      /\ up /\ required /\ pointsTo = NoHome
  <2>1. step \in SetupSteps \ {"leave"} /\ step # "idle"
    BY DEF Complete, SetupSteps
  <2>2. up /\ required /\ home \in Homes /\ choosing.upload \in Uploads \cup {NoUpload}
    BY <2>1 DEF SetupInv, SetupTypeOK, Underway
  <2>3. homes[home] \in Home
    BY <2>2 DEF SetupInv, SetupTypeOK
  <2> QED
    BY <2>1, <2>2, <2>3 DEF SetupInv, Unpointed
<1>2. /\ homes' = [homes EXCEPT ![home] = contents]
      /\ pointsTo' = IF step = "point" THEN home ELSE pointsTo
      /\ choosing' = [choosing EXCEPT !.at = Following(step)]
      /\ UNCHANGED <<up, required, ticking, chose, pinged, starts>>
  BY DEF Complete
<1>3. contents \in Home
  <2>1. CASE step = "make" \/ step = "copy"
    BY <1>1, <2>1, HomeFacts DEF Made, HomeKinds
  <2>2. CASE step = "open"
    BY <1>1, <2>2, HomeFacts DEF Made, HomeKinds
  <2>3. CASE step \in {"pending", "consent"}
    <3>1. homes[home] \in Prepared
      BY <1>1, <2>3, HomeFacts DEF SetupInv, Underway, Chosen
    <3> QED
      BY <2>3, <3>1, HomeFacts DEF Made, Prepared
  <2>4. CASE step = "point"
    BY <1>1, <2>4 DEF Made
  <2> QED
    BY <1>1, <2>1, <2>2, <2>3, <2>4 DEF SetupSteps
<1>4. homes' \in [Homes -> Home] /\ homes'[home] = contents
  BY <1>1, <1>2, <1>3 DEF SetupInv, SetupTypeOK
<1>5. /\ choosing'.at = Following(step) /\ choosing'.home = home
      /\ choosing' \in [at : SetupSteps \cup {"idle"}, home : Homes \cup {NoHome}, existed : BOOLEAN,
                        upload : Uploads \cup {NoUpload}]
  BY <1>2 DEF SetupInv, SetupTypeOK, Following, SetupSteps
<1>6. SetupTypeOK'
  BY <1>1, <1>2, <1>4, <1>5 DEF SetupInv, SetupTypeOK
<1>7. /\ step = "open" => contents.kind = "db"
      /\ step \in {"pending", "consent", "point"} =>
           /\ homes[home].kind = "db" /\ contents.kind = "db"
           /\ (step # "pending" => homes[home].wizard = "0") /\ contents.wizard = "0"
      /\ step = "consent" => ~contents.consent
      /\ step = "point" => ~contents.consent
  <2>1. step = "open" => contents.kind = "db"
    BY <1>1, HomeFacts DEF Made, Of, Prepared
  <2>2. CASE step \in {"pending", "consent", "point"}
    <3>1. homes[home] \in Prepared
      BY <1>1, <2>2, HomeFacts DEF SetupInv, Underway, Chosen
    <3> QED
      BY <2>2, <3>1 DEF Made, Prepared, SetupInv, Underway, Chosen
  <2> QED
    BY <2>1, <2>2
<1>8. Unpointed' /\ Underway'
  BY <1>1, <1>2, <1>4, <1>5, <1>7 DEF Unpointed, Underway, Chosen, Following, SetupSteps
<1>9. PointedIsPrepared' /\ Asked'
  BY <1>1, <1>2, <1>4, <1>7 DEF PointedIsPrepared, Asked, Here
<1>10. PingsIfChosen'
  BY <1>2 DEF SetupInv, PingsIfChosen
<1> QED
  BY <1>6, <1>8, <1>9, <1>10 DEF SetupInv

LEMMA RollbackKeeps ==
  ASSUME SetupInv, NEW cleaned \in BOOLEAN, Rollback(cleaned)
  PROVE  SetupInv'
<1>1. /\ choosing.home \in Homes /\ choosing.at # "idle" /\ up /\ required /\ pointsTo = NoHome
  BY DEF Rollback, SetupInv, SetupTypeOK, Underway, Unpointed, SetupSteps
<1>2. PICK h \in Home : homes' = [homes EXCEPT ![choosing.home] = h]
  BY HomeFacts DEF Rollback, HomeKinds
<1>3. homes' \in [Homes -> Home]
  BY <1>2 DEF SetupInv, SetupTypeOK
<1>4. /\ choosing' = NotChoosing /\ choosing'.at = "idle"
      /\ UNCHANGED <<pointsTo, up, required, ticking, chose, pinged, starts>>
  BY DEF Rollback, NotChoosing
<1>5. NotChoosing \in [at : SetupSteps \cup {"idle"}, home : Homes \cup {NoHome}, existed : BOOLEAN,
                       upload : Uploads \cup {NoUpload}]
  BY DEF NotChoosing
<1>6. SetupTypeOK'
  BY <1>3, <1>4, <1>5 DEF SetupInv, SetupTypeOK
<1> QED
  BY <1>1, <1>4, <1>6 DEF SetupInv, Unpointed, Underway, Asked, PointedIsPrepared, PingsIfChosen

(* The directory in use changes, its kind and the wizard's row stay. *)
LEMMA InUseKeeps ==
  ASSUME SetupInv, Answering, NEW h \in Home,
         h.kind = Here.kind, h.wizard # "missing",
         homes' = [homes EXCEPT ![pointsTo] = h],
         UNCHANGED <<pointsTo, up, required, choosing>>,
         ticking' \in BOOLEAN, chose' \in BOOLEAN, pinged' \in BOOLEAN, starts' \in 0 .. MaxStarts,
         h.consent => chose', pinged' => chose'
  PROVE  SetupInv'
<1>1. pointsTo \in Homes /\ up /\ ~required /\ choosing.at = "idle"
  BY DEF Answering, SetupInv, SetupTypeOK
<1>2. homes' \in [Homes -> Home] /\ homes'[pointsTo] = h
  BY <1>1 DEF SetupInv, SetupTypeOK
<1>3. SetupTypeOK'
  BY <1>1, <1>2 DEF SetupInv, SetupTypeOK
<1>4. PointedIsPrepared' /\ Asked' /\ PingsIfChosen'
  BY <1>1, <1>2 DEF PointedIsPrepared, Asked, PingsIfChosen, Here, SetupInv
<1> QED
  BY <1>1, <1>3, <1>4 DEF SetupInv, Unpointed, Underway

(* What the rows of the directory in use are. *)
LEMMA HomeInUse ==
  ASSUME SetupInv, Answering
  PROVE  /\ Here \in Home /\ Here \in Prepared /\ Here.kind = "db" /\ Here.wizard # "missing"
         /\ (Here.consent => chose) /\ pointsTo \in Homes
         /\ Here.consent \in BOOLEAN
<1>1. pointsTo \in Homes
  BY DEF Answering, SetupInv, SetupTypeOK
<1>2. Here \in Home
  BY <1>1 DEF SetupInv, SetupTypeOK, Here
<1>3. Here.kind = "db" /\ Here.wizard # "missing" /\ (Here.consent => chose)
  BY DEF Answering, SetupInv, PointedIsPrepared, Asked
<1> QED
  BY <1>1, <1>2, <1>3, HomeFacts DEF Prepared

LEMMA ConsentKeeps ==
  ASSUME SetupInv, NEW value \in BOOLEAN, SetConsent(value)
  PROVE  SetupInv'
<1> DEFINE h == [Here EXCEPT !.consent = value]
<1>1. Answering /\ chose' = TRUE /\ homes' = [homes EXCEPT ![pointsTo] = h]
  BY DEF SetConsent, Here
<1>2. h \in Prepared /\ h \in Home /\ h.kind = Here.kind /\ h.wizard # "missing"
  BY <1>1, HomeInUse, HomeFacts DEF Prepared
<1> HIDE DEF h
<1> QED
  BY <1>1, <1>2, InUseKeeps DEF SetConsent, SetupInv, SetupTypeOK

LEMMA HasKeeps ==
  ASSUME SetupInv, NEW has \in SUBSET Minimums, Answering,
         homes' = [homes EXCEPT ![pointsTo].has = has],
         UNCHANGED <<pointsTo, up, required, ticking, choosing, chose, pinged, starts>>
  PROVE  SetupInv'
<1> DEFINE h == [Here EXCEPT !.has = has]
<1>1. homes' = [homes EXCEPT ![pointsTo] = h]
  BY DEF Here
<1>2. /\ h \in Prepared /\ h \in Home /\ h.kind = Here.kind /\ h.wizard # "missing"
      /\ (h.consent => chose)
  BY HomeInUse, HomeFacts DEF Prepared
<1> HIDE DEF h
<1> QED
  BY <1>1, <1>2, InUseKeeps DEF SetupInv, SetupTypeOK, PingsIfChosen

LEMMA FinishKeeps == ASSUME SetupInv, Finish PROVE SetupInv'
<1> DEFINE h == [Here EXCEPT !.wizard = "1"]
<1>1. Answering /\ homes' = [homes EXCEPT ![pointsTo] = h]
  BY DEF Finish, Here
<1>2. /\ h \in Prepared /\ h \in Home /\ h.kind = Here.kind /\ h.wizard # "missing"
      /\ (h.consent => chose)
  BY <1>1, HomeInUse, HomeFacts DEF Prepared
<1>3. pinged' \in BOOLEAN /\ (pinged' => chose)
  <2>1. pinged' = (pinged \/ Here.consent)
    BY DEF Finish, Pinged
  <2> QED
    BY <1>1, <2>1, HomeInUse DEF SetupInv, SetupTypeOK, PingsIfChosen
<1>4. UNCHANGED <<pointsTo, up, required, choosing, chose, starts>> /\ ticking' = TRUE
  BY DEF Finish
<1> HIDE DEF h
<1> QED
  BY <1>1, <1>2, <1>3, <1>4, InUseKeeps DEF SetupInv, SetupTypeOK

LEMMA StartUpKeeps == ASSUME SetupInv, StartUp PROVE SetupInv'
<1>1. choosing.at = "idle" /\ starts' \in 0 .. MaxStarts
  BY DEF StartUp, SetupInv, SetupTypeOK
<1>2. /\ up' = TRUE /\ required' = (pointsTo = NoHome) /\ ticking' = ~required'
      /\ UNCHANGED <<pointsTo, homes, choosing, chose>>
  BY DEF StartUp
<1>3. pinged' \in BOOLEAN /\ (pinged' => chose)
  <2>1. CASE pointsTo = NoHome
    BY <2>1 DEF StartUp, SetupInv, SetupTypeOK, PingsIfChosen
  <2>2. CASE pointsTo # NoHome
    <3>1. pinged' = (pinged \/ Here.consent)
      BY <2>2 DEF StartUp, Pinged
    <3>2. Here \in Home /\ (Here.consent => chose)
      BY <2>2 DEF SetupInv, SetupTypeOK, Asked, Here
    <3> QED
      BY <3>1, <3>2, HomeFacts DEF SetupInv, SetupTypeOK, PingsIfChosen
  <2> QED
    BY <2>1, <2>2
<1>4. SetupTypeOK'
  <2>1. required' \in BOOLEAN /\ ticking' \in BOOLEAN /\ up' \in BOOLEAN
    BY <1>2
  <2> QED
    BY <1>1, <1>2, <1>3, <2>1 DEF SetupInv, SetupTypeOK
<1> QED
  BY <1>1, <1>2, <1>3, <1>4
  DEF SetupInv, Unpointed, Underway, Asked, PointedIsPrepared, PingsIfChosen, Here, Chosen

LEMMA DieKeeps == ASSUME SetupInv, Die PROVE SetupInv'
<1>1. NotChoosing.at = "idle" /\ NotChoosing \in [at : SetupSteps \cup {"idle"},
        home : Homes \cup {NoHome}, existed : BOOLEAN, upload : Uploads \cup {NoUpload}]
  BY DEF NotChoosing
<1>2. /\ up' = FALSE /\ ticking' = FALSE /\ choosing' = NotChoosing
      /\ UNCHANGED <<pointsTo, homes, required, chose, pinged, starts>>
  BY DEF Die
<1>3. SetupTypeOK'
  BY <1>1, <1>2 DEF SetupInv, SetupTypeOK
<1> QED
  BY <1>1, <1>2, <1>3 DEF SetupInv, Unpointed, Underway, Asked, PointedIsPrepared, PingsIfChosen, Here

LEMMA OpensKeeps == ASSUME SetupInv, Opens PROVE SetupInv'
<1>1. NotChoosing.at = "idle" /\ NotChoosing \in [at : SetupSteps \cup {"idle"},
        home : Homes \cup {NoHome}, existed : BOOLEAN, upload : Uploads \cup {NoUpload}]
  BY DEF NotChoosing
<1>2. /\ required' = FALSE /\ ticking' = TRUE /\ choosing' = NotChoosing /\ up
      /\ UNCHANGED <<pointsTo, homes, up, chose, pinged, starts>>
  BY DEF Opens, SetupInv, SetupTypeOK
<1>3. SetupTypeOK'
  BY <1>1, <1>2 DEF SetupInv, SetupTypeOK
<1> QED
  BY <1>1, <1>2, <1>3 DEF SetupInv, Unpointed, Underway, Asked, PointedIsPrepared, PingsIfChosen, Here

LEMMA ChooseKeeps ==
  ASSUME SetupInv, NEW home \in Homes, NEW upload \in Uploads \cup {NoUpload}, Choose(home, upload)
  PROVE  SetupInv'
<1>1. /\ choosing' = [at |-> "make", home |-> home, existed |-> homes[home].kind = "empty",
                      upload |-> upload]
      /\ UNCHANGED <<pointsTo, homes, up, required, ticking, chose, pinged, starts>>
      /\ up /\ required /\ choosing.at = "idle"
  BY DEF Choose
<1>2. choosing'.at = "make" /\ choosing'.home = home
  BY <1>1
<1>3. choosing' \in [at : SetupSteps \cup {"idle"}, home : Homes \cup {NoHome}, existed : BOOLEAN,
                     upload : Uploads \cup {NoUpload}]
  BY <1>1 DEF SetupSteps
<1>4. SetupTypeOK'
  BY <1>1, <1>3 DEF SetupInv, SetupTypeOK
<1> QED
  BY <1>1, <1>2, <1>4 DEF SetupInv, Unpointed, Underway, Asked, PointedIsPrepared, PingsIfChosen, Here

LEMMA SetupStep == SetupInv /\ [SetupNext]_setupVars => SetupInv'
<1> SUFFICES ASSUME SetupInv, [SetupNext]_setupVars PROVE SetupInv'
  OBVIOUS
<1>1. CASE StartUp
  BY <1>1, StartUpKeeps
<1>2. CASE Die
  BY <1>2, DieKeeps
<1>3. CASE Complete
  BY <1>3, CompleteKeeps
<1>4. CASE Opens
  BY <1>4, OpensKeeps
<1>5. CASE Finish
  BY <1>5, FinishKeeps
<1>6. ASSUME NEW home \in Homes, NEW upload \in Uploads \cup {NoUpload}, Choose(home, upload)
      PROVE  SetupInv'
  BY <1>6, ChooseKeeps
<1>7. ASSUME NEW cleaned \in BOOLEAN, Rollback(cleaned) PROVE SetupInv'
  BY <1>7, RollbackKeeps
<1>8. ASSUME NEW value \in BOOLEAN, SetConsent(value) PROVE SetupInv'
  BY <1>8, ConsentKeeps
<1>9. ASSUME NEW what \in Minimums, Gain(what) \/ Forget(what) PROVE SetupInv'
  <2>1. Answering
    BY <1>9 DEF Gain, Forget
  <2>2. Here.has \in SUBSET Minimums
    BY <2>1, HomeInUse DEF Prepared
  <2>3. CASE Gain(what)
    <3>1. homes' = [homes EXCEPT ![pointsTo].has = Here.has \cup {what}]
      BY <2>3 DEF Gain, Here
    <3>2. Here.has \cup {what} \in SUBSET Minimums
      BY <2>2
    <3>3. UNCHANGED <<pointsTo, up, required, ticking, choosing, chose, pinged, starts>>
      BY <2>3 DEF Gain
    <3> QED
      BY <2>1, <3>1, <3>2, <3>3, HasKeeps
  <2>4. CASE Forget(what)
    <3>1. homes' = [homes EXCEPT ![pointsTo].has = Here.has \ {what}]
      BY <2>4 DEF Forget, Here
    <3>2. Here.has \ {what} \in SUBSET Minimums
      BY <2>2
    <3>3. UNCHANGED <<pointsTo, up, required, ticking, choosing, chose, pinged, starts>>
      BY <2>4 DEF Forget
    <3> QED
      BY <2>1, <3>1, <3>2, <3>3, HasKeeps
  <2> QED
    BY <1>9, <2>3, <2>4
<1>10. CASE UNCHANGED setupVars
  BY <1>10 DEF setupVars, SetupInv, SetupTypeOK, Unpointed, Underway, Chosen, Asked,
               PointedIsPrepared, PingsIfChosen, Here
<1> QED
  BY <1>1, <1>2, <1>3, <1>4, <1>5, <1>6, <1>7, <1>8, <1>9, <1>10 DEF SetupNext

(* The inductive invariant of the first start: what _complete has contents of  *)
(* the directory follows from the step it is at.                           *)
THEOREM SetupInvariant == SetupSpec => []SetupInv
  BY SetupStart, SetupStep, PTL DEF SetupSpec

(* The directory the pointer names is always a prepared one (_complete     *)
(* points last).                                                           *)
THEOREM PointerLast == SetupSpec => []PointedIsPrepared
<1>1. SetupInv => PointedIsPrepared
  BY DEF SetupInv
<1> QED
  BY <1>1, SetupInvariant, PTL

(* No ping is sent before the user has chosen here (_complete, consent).   *)
THEOREM ChosenPing == SetupSpec => []PingsIfChosen
<1>1. SetupInv => PingsIfChosen
  BY DEF SetupInv
<1> QED
  BY <1>1, SetupInvariant, PTL

HIDE SetupAssumption

-----------------------------------------------------------------------------
(* Backups and migrations (backup, db).                                    *)

(* A new file is newer than every other; a migration knows the version the *)
(* database still claims; and what a restore will replace is in the folder. *)
NamesUpTo == \A b \in backups : b.name <= made
FromKnown == stage = "migrating" => from = live.version
PutAside == stage = "restoring" => \E b \in backups : b.db = Stripped(live)

BackupsInv == BackupsTypeOK /\ VersionTells /\ NamesUpTo /\ FromKnown /\ PutAside

LEMMA BlankDatabase == Blank \in Database /\ Blank.version = 0 /\ Blank.ran = {}
  BY BackupsAssumption DEF Blank, Database

LEMMA StrippedDatabase ==
  ASSUME NEW db \in Database
  PROVE  /\ Stripped(db) \in Database
         /\ Stripped(db).version = db.version /\ Stripped(db).ran = db.ran
<1>1. PICK no \in BOOLEAN : no = FALSE
  OBVIOUS
<1>2. PICK d : d = [db EXCEPT !.secret = no]
  OBVIOUS
<1>3. d \in Database /\ d.version = db.version /\ d.ran = db.ran
  BY <1>2 DEF Database
<1>4. Stripped(db) = d
  BY <1>1, <1>2 DEF Stripped
<1>5. QED
  BY <1>3, <1>4

LEMMA BackupsStart == BackupsInit => BackupsInv
<1> SUFFICES ASSUME BackupsInit PROVE BackupsInv
  OBVIOUS
<1>1. PICK v \in Steps : live = [Blank EXCEPT !.ran = 1 .. v, !.version = v]
  BY DEF BackupsInit
<1>2. v \in 1 .. SchemaVersion /\ 1 .. v \subseteq Steps
  BY <1>1, BackupsAssumption DEF Steps
<1>3. live \in Database /\ live.version = v /\ live.ran = 1 .. v
  <2>1. PICK ran : ran = 1 .. v
    OBVIOUS
  <2>2. ran \in SUBSET Steps /\ v \in 0 .. SchemaVersion
    BY <1>2, <2>1, BackupsAssumption
  <2>3. live = [Blank EXCEPT !.ran = ran, !.version = v]
    BY <1>1, <2>1
  <2>4. live \in Database /\ live.version = v /\ live.ran = ran
    BY <2>2, <2>3, BlankDatabase DEF Database
  <2>5. QED
    BY <2>1, <2>4
<1>4. recent \in BOOLEAN
  BY Zenon DEF BackupsInit
<1>5. BackupsTypeOK
  BY <1>3, <1>4, BlankDatabase, BackupsAssumption DEF BackupsInit, BackupsTypeOK
<1>6. VersionTells /\ NamesUpTo /\ FromKnown /\ PutAside
  BY <1>3 DEF BackupsInit, VersionTells, NamesUpTo, FromKnown, PutAside
<1>7. QED
  BY <1>5, <1>6 DEF BackupsInv

(* A copy joins the folder; pruning never takes the one just made.         *)
LEMMA CopyMade ==
  ASSUME BackupsInv, NEW auto \in BOOLEAN, NEW db \in Database, 1 .. db.version \subseteq db.ran,
         made < MaxBackups, made' = made + 1,
         \/ backups' = Written(backups, auto, db)
         \/ backups' = Prune(Written(backups, auto, db))
  PROVE  /\ backups' \subseteq File /\ made' \in 0 .. MaxBackups /\ NamesUpTo'
         /\ \A b \in backups' : 1 .. b.db.version \subseteq b.db.ran
         /\ \E b \in backups' : b.db = db
<1>1. made \in 0 .. MaxBackups /\ backups \subseteq File
  BY DEF BackupsInv, BackupsTypeOK
<1>2. PICK new : new = [name |-> made + 1, auto |-> auto, db |-> db]
  OBVIOUS
<1>3. new \in File /\ new.name = made + 1 /\ new.db = db
  BY <1>1, <1>2, BackupsAssumption DEF File
<1>4. Written(backups, auto, db) = backups \cup {new}
  BY <1>2 DEF Written
<1>5. Newer(backups \cup {new}, new) = {}
  <2>1. \A o \in backups \cup {new} : ~(o.name > new.name)
    BY <1>1, <1>3, BackupsAssumption DEF BackupsInv, NamesUpTo, File
  <2>2. QED
    BY <2>1 DEF Newer
<1>6. Cardinality(Newer(backups \cup {new}, new)) < KeepAutomatic
  <2>1. Cardinality(Newer(backups \cup {new}, new)) = 0
    BY <1>5, FS_EmptySet
  <2>2. QED
    BY <2>1, BackupsAssumption
<1>7. backups' \subseteq backups \cup {new} /\ new \in backups'
  BY <1>4, <1>6 DEF Prune
<1>8. backups' \subseteq File /\ made' \in 0 .. MaxBackups
  BY <1>1, <1>3, <1>7, BackupsAssumption
<1>9. NamesUpTo'
  <2>1. \A b \in backups : b.name <= made /\ b.name \in Int
    BY <1>1, BackupsAssumption DEF BackupsInv, NamesUpTo, File
  <2>2. QED
    BY <1>1, <1>3, <1>7, <2>1, BackupsAssumption DEF NamesUpTo
<1>10. \A b \in backups' : 1 .. b.db.version \subseteq b.db.ran
  BY <1>3, <1>7 DEF BackupsInv, VersionTells
<1>11. QED
  BY <1>3, <1>7, <1>8, <1>9, <1>10

LEMMA CreateKeeps ==
  ASSUME BackupsInv, NEW auto \in BOOLEAN, Create(auto, live)
  PROVE  /\ backups' \subseteq File /\ made' \in 0 .. MaxBackups /\ NamesUpTo'
         /\ \A b \in backups' : 1 .. b.db.version \subseteq b.db.ran
         /\ \E b \in backups' : b.db = Stripped(live)
<1>1. live \in Database /\ 1 .. live.version \subseteq live.ran
  BY DEF BackupsInv, BackupsTypeOK, VersionTells
<1>2. PICK db : db = Stripped(live)
  OBVIOUS
<1>3. db \in Database /\ 1 .. db.version \subseteq db.ran
  BY <1>1, <1>2, StrippedDatabase
<1>4. /\ made < MaxBackups /\ made' = made + 1
      /\ \/ backups' = Written(backups, auto, db)
         \/ backups' = Prune(Written(backups, auto, db))
  BY <1>2 DEF Create
<1>5. QED
  BY <1>2, <1>3, <1>4, CopyMade

LEMMA BackupsStep ==
  ASSUME BackupsInv, [BackupsNext]_backupVars
  PROVE  BackupsInv'
<1>1. /\ live \in Database /\ 1 .. live.version \subseteq live.ran
      /\ backups \subseteq File /\ \A b \in backups : 1 .. b.db.version \subseteq b.db.ran
  BY DEF BackupsInv, BackupsTypeOK, VersionTells
<1>2. ASSUME UNCHANGED <<live, made>>, backups' \subseteq backups, stage' # "restoring" \/ stage = "restoring",
             stage = "restoring" => backups' = backups,
             stage' = "migrating" => stage = "migrating", UNCHANGED from,
             stage' \in {"down", "opening", "migrating", "up", "restoring"},
             recent' \in BOOLEAN, chosen' \in 0 .. MaxBackups, UNCHANGED replaced, ends' \in 0 .. MaxEnds
      PROVE  BackupsInv'
  BY <1>1, <1>2 DEF BackupsInv, BackupsTypeOK, VersionTells, NamesUpTo, FromKnown, PutAside
<1>3. CASE CreateManual \/ CreateRegular
  <2>1. PICK auto \in BOOLEAN : Create(auto, live)
    BY <1>3 DEF CreateManual, CreateRegular
  <2>2. /\ backups' \subseteq File /\ made' \in 0 .. MaxBackups /\ NamesUpTo'
        /\ \A b \in backups' : 1 .. b.db.version \subseteq b.db.ran
    BY <2>1, CreateKeeps
  <2>3. stage = "up" /\ UNCHANGED <<live, stage, chosen, from, replaced, ends>>
    BY <1>3 DEF CreateManual, CreateRegular
  <2>4. recent' \in BOOLEAN
    <3>1. CASE CreateManual
      BY <3>1 DEF CreateManual, BackupsInv, BackupsTypeOK
    <3>2. CASE CreateRegular
      BY <3>2, Zenon DEF CreateRegular
    <3>3. QED
      BY <1>3, <3>1, <3>2
  <2>5. QED
    BY <1>1, <2>2, <2>3, <2>4 DEF BackupsInv, BackupsTypeOK, VersionTells, FromKnown, PutAside
<1>4. CASE DayPasses
  <2>1. recent' \in BOOLEAN
    BY <1>4, Zenon DEF DayPasses
  <2>2. QED
    BY <1>2, <1>4, <2>1 DEF DayPasses, BackupsInv, BackupsTypeOK
<1>5. ASSUME NEW name \in 1 .. made, Delete(name) PROVE BackupsInv'
  BY <1>2, <1>5 DEF Delete, BackupsInv, BackupsTypeOK
<1>6. CASE Start \/ OpenCurrent
  BY <1>2, <1>6 DEF Start, OpenCurrent, BackupsInv, BackupsTypeOK
<1>7. CASE CannotOpen
  BY <1>2, <1>7 DEF CannotOpen, BackupsInv, BackupsTypeOK
<1>8. CASE Ends
  BY <1>2, <1>8, BackupsAssumption DEF Ends, BackupsInv, BackupsTypeOK
<1>9. CASE SafetyBackup
  <2>1. /\ backups' \subseteq File /\ made' \in 0 .. MaxBackups /\ NamesUpTo'
        /\ \A b \in backups' : 1 .. b.db.version \subseteq b.db.ran
    <3>1. CASE UNCHANGED <<backups, made>>
      BY <1>1, <3>1 DEF BackupsInv, BackupsTypeOK, NamesUpTo
    <3>2. CASE Create(TRUE, live)
      <4>1. PICK auto \in BOOLEAN : Create(auto, live)
        BY <3>2
      <4>2. QED
        BY <4>1, CreateKeeps
    <3>3. QED
      BY <1>9, <3>1, <3>2 DEF SafetyBackup
  <2>2. from' = live.version /\ stage' = "migrating" /\ UNCHANGED <<live, recent, chosen, replaced, ends>>
    BY <1>9 DEF SafetyBackup
  <2>3. live.version \in 0 .. SchemaVersion
    BY <1>1 DEF Database
  <2>4. QED
    BY <1>1, <2>1, <2>2, <2>3 DEF BackupsInv, BackupsTypeOK, VersionTells, FromKnown, PutAside
<1>10. CASE Migrate
  <2>1. PICK step \in from + 1 .. SchemaVersion : live' = [live EXCEPT !.ran = @ \cup {step}]
    BY <1>10 DEF Migrate, Migrated
  <2>2. step \in Steps
    BY <2>1, BackupsAssumption DEF BackupsInv, BackupsTypeOK, Steps
  <2>3. live' \in Database /\ live'.version = live.version /\ live.ran \subseteq live'.ran
    BY <1>1, <2>1, <2>2 DEF Database
  <2>4. stage = "migrating" /\ UNCHANGED <<backups, made, recent, stage, chosen, from, replaced, ends>>
    BY <1>10 DEF Migrate
  <2>5. QED
    BY <1>1, <2>3, <2>4 DEF BackupsInv, BackupsTypeOK, VersionTells, NamesUpTo, FromKnown, PutAside
<1>11. CASE WriteVersion
  <2>1. from = live.version /\ from + 1 .. SchemaVersion \subseteq live.ran
    BY <1>11 DEF WriteVersion, BackupsInv, FromKnown
  <2>2. live' = [live EXCEPT !.version = SchemaVersion] /\ stage' = "up"
        /\ UNCHANGED <<backups, made, recent, chosen, from, replaced, ends>>
    BY <1>11 DEF WriteVersion
  <2>3. live' \in Database /\ live'.version = SchemaVersion /\ live'.ran = live.ran
    BY <1>1, <2>2, BackupsAssumption DEF Database
  <2>4. 1 .. SchemaVersion \subseteq live.ran
    BY <1>1, <2>1, BackupsAssumption DEF Database
  <2>5. QED
    BY <1>1, <2>2, <2>3, <2>4 DEF BackupsInv, BackupsTypeOK, VersionTells, NamesUpTo, FromKnown, PutAside
<1>12. ASSUME NEW name \in 1 .. made, Restore(name) PROVE BackupsInv'
  <2>1. PICK auto \in BOOLEAN : Create(auto, live)
    BY <1>12 DEF Restore, Safety
  <2>2. /\ backups' \subseteq File /\ made' \in 0 .. MaxBackups /\ NamesUpTo'
        /\ \A b \in backups' : 1 .. b.db.version \subseteq b.db.ran
        /\ \E b \in backups' : b.db = Stripped(live)
    BY <2>1, CreateKeeps
  <2>3. chosen' = name /\ stage' = "restoring" /\ UNCHANGED <<live, recent, from, replaced, ends>>
    BY <1>12 DEF Restore
  <2>4. name \in 0 .. MaxBackups
    BY BackupsAssumption DEF BackupsInv, BackupsTypeOK
  <2>5. Stripped(live)' = Stripped(live)
    BY <2>3 DEF Stripped
  <2>6. QED
    BY <1>1, <2>2, <2>3, <2>4, <2>5 DEF BackupsInv, BackupsTypeOK, VersionTells, FromKnown, PutAside
<1>13. CASE Replace
  <2>1. PICK b \in backups : live' = Stripped(b.db)
    BY <1>13 DEF Replace, Named
  <2>2. b.db \in Database
    BY <1>1, <2>1 DEF File
  <2>3. live' \in Database /\ 1 .. live'.version \subseteq live'.ran
    BY <1>1, <2>1, <2>2, StrippedDatabase
  <2>4. replaced' = live /\ stage' = "opening" /\ UNCHANGED <<backups, made, recent, chosen, from, ends>>
    BY <1>13 DEF Replace
  <2>5. QED
    BY <1>1, <2>3, <2>4 DEF BackupsInv, BackupsTypeOK, VersionTells, NamesUpTo, FromKnown, PutAside
<1>14. CASE Write
  <2>1. PICK secret \in BOOLEAN : live' = [live EXCEPT !.text = @ + 1, !.secret = secret]
    BY <1>14 DEF Write
  <2>2. live.text < MaxWritten
    BY <1>14 DEF Write
  <2>3. live' \in Database /\ live'.version = live.version /\ live'.ran = live.ran
    <3>1. PICK text : text = live.text + 1
      OBVIOUS
    <3>2. text \in 0 .. MaxWritten
      BY <1>1, <2>2, <3>1, BackupsAssumption DEF Database
    <3>3. live' = [live EXCEPT !.text = text, !.secret = secret]
      BY <2>1, <3>1
    <3>4. QED
      BY <1>1, <3>2, <3>3 DEF Database
  <2>4. stage = "up" /\ UNCHANGED <<backups, made, recent, stage, chosen, from, replaced, ends>>
    BY <1>14 DEF Write
  <2>5. QED
    BY <1>1, <2>3, <2>4 DEF BackupsInv, BackupsTypeOK, VersionTells, NamesUpTo, FromKnown, PutAside
<1>15. CASE EndsInCopy
  <2>1. PICK auto \in BOOLEAN, db \in {Blank, live} : backups' = Written(backups, auto, db)
    BY <1>15 DEF EndsInCopy
  <2>2. db \in Database /\ 1 .. db.version \subseteq db.ran
    BY <1>1, <2>1, BlankDatabase
  <2>3. /\ made < MaxBackups /\ made' = made + 1 /\ stage' = "down" /\ ends' = ends + 1 /\ ends < MaxEnds
        /\ UNCHANGED <<live, recent, chosen, from, replaced>>
    BY <1>15 DEF EndsInCopy
  <2>4. /\ backups' \subseteq File /\ made' \in 0 .. MaxBackups /\ NamesUpTo'
        /\ \A b \in backups' : 1 .. b.db.version \subseteq b.db.ran
    BY <2>1, <2>2, <2>3, CopyMade
  <2>5. ends' \in 0 .. MaxEnds
    BY <2>3, BackupsAssumption DEF BackupsInv, BackupsTypeOK
  <2>6. QED
    BY <1>1, <2>3, <2>4, <2>5 DEF BackupsInv, BackupsTypeOK, VersionTells, FromKnown, PutAside
<1>16. CASE UNCHANGED backupVars
  BY <1>2, <1>16 DEF backupVars, BackupsInv, BackupsTypeOK
<1>17. QED
  BY <1>3, <1>4, <1>5, <1>6, <1>7, <1>8, <1>9, <1>10, <1>11, <1>12, <1>13, <1>14, <1>15, <1>16
     DEF BackupsNext

THEOREM BackupsInvariant == BackupsSpec => []BackupsInv
  BY BackupsStart, BackupsStep, PTL DEF BackupsSpec

(* The version that a database claims, live or in a backup, is one that it *)
(* was brought to, wherever a migration ended (db._migrate).               *)
THEOREM VersionsTell == BackupsSpec => []VersionTells
<1>1. BackupsInv => VersionTells
  BY DEF BackupsInv
<1>2. QED
  BY <1>1, BackupsInvariant, PTL

(* What a restore replaces is in the folder when it is replaced, whatever  *)
(* the pruning of the safety copy took (backup.restore).                   *)
THEOREM RestoresUndo == BackupsSpec => RestoreUndoes
<1>1. BackupsInv /\ [BackupsNext]_backupVars =>
        [Replace => \E b \in backups : b.db = Stripped(live)]_backupVars
  BY DEF BackupsInv, PutAside, Replace
<1>2. QED
  BY <1>1, BackupsInvariant, PTL DEF BackupsSpec, RestoreUndoes
=============================================================================
