------------------------------- MODULE Setup -------------------------------
(***************************************************************************)
(* The first start (api/setup.py): the user chooses an empty directory,    *)
(* maybe with a backup to restore; the directory is prepared under a       *)
(* selection of this thread only (config.provisional_data_dir) and is      *)
(* remembered last, in the pointer file that the next start reads.  The    *)
(* wizard then asks for the rest and closes.                               *)
(***************************************************************************)
EXTENDS Naturals, FiniteSets

CONSTANTS
  Homes,     \* directories a user may choose
  NoHome,    \* the pointer file names none
  MaxStarts  \* bounds the starts of the program

ASSUME SetupAssumption == NoHome \notin Homes /\ MaxStarts \in Nat

VARIABLES
  pointsTo,  \* what the pointer file names
  homes,    \* each directory: absent, empty, half (anything else) or a database
  up,       \* the program runs
  required, \* app.state.setup_required
  ticking,  \* the scheduler's thread runs
  choosing, \* _complete: where it is
  chose,    \* the user has answered the question of the ping here
  pinged,   \* a ping was sent
  starts

setupVars == <<pointsTo, homes, up, required, ticking, choosing, chose, pinged, starts>>

Minimums == {"connection", "images", "archive"}
SetupSteps == {"make", "copy", "open", "pending", "consent", "point", "leave"}

(* The rows that matter: the wizard's (missing in a database older than    *)
(* it), the consent, and what finish asks for.                             *)
Prepared == [kind : {"db"}, wizard : {"missing", "0", "1"}, consent : BOOLEAN, has : SUBSET Minimums]
Of(kind) == [kind |-> kind, wizard |-> "missing", consent |-> FALSE, has |-> {}]
Home == Prepared \cup {Of(k) : k \in {"absent", "empty", "half", "db"}}

(* A backup holds no token (backup.py, _strip_token).                      *)
Uploads == {d \in Prepared : "connection" \notin d.has}
NoUpload == Of("empty")
NotChoosing == [at |-> "idle", home |-> NoHome, existed |-> FALSE, upload |-> NoUpload]

SetupTypeOK ==
  /\ pointsTo \in Homes \cup {NoHome} /\ homes \in [Homes -> Home]
  /\ up \in BOOLEAN /\ required \in BOOLEAN /\ ticking \in BOOLEAN
  /\ choosing \in [at : SetupSteps \cup {"idle"}, home : Homes \cup {NoHome}, existed : BOOLEAN,
                   upload : Uploads \cup {NoUpload}]
  /\ chose \in BOOLEAN /\ pinged \in BOOLEAN /\ starts \in 0 .. MaxStarts
  /\ (ticking => up) /\ (choosing.at # "idle" => up /\ required)

SetupInit ==
  /\ pointsTo = NoHome /\ homes \in [Homes -> {Of(k) : k \in {"absent", "empty"}}]
  /\ up = FALSE /\ required = FALSE /\ ticking = FALSE /\ choosing = NotChoosing
  /\ chose = FALSE /\ pinged = FALSE /\ starts = 0

-----------------------------------------------------------------------------

Here == homes[pointsTo]
Pinged(when) == pinged' = (pinged \/ (when /\ Here.consent))

(* create_app and _lifespan. *)
StartUp ==
  /\ ~up /\ starts < MaxStarts /\ starts' = starts + 1
  /\ up' = TRUE
  /\ required' = (pointsTo = NoHome)
  /\ ticking' = ~required'
  /\ IF pointsTo = NoHome THEN UNCHANGED pinged ELSE Pinged(TRUE)
  /\ UNCHANGED <<pointsTo, homes, choosing, chose>>

Die ==
  /\ up /\ up' = FALSE /\ ticking' = FALSE /\ choosing' = NotChoosing
  /\ UNCHANGED <<pointsTo, homes, required, chose, pinged, starts>>

(* The upload was staged and validated; _target wants an empty directory.  *)
Choose(home, upload) ==
  /\ up /\ required /\ choosing.at = "idle"
  /\ homes[home].kind \in {"absent", "empty"}
  /\ choosing' = [at |-> "make", home |-> home, existed |-> homes[home].kind = "empty",
                  upload |-> upload]
  /\ UNCHANGED <<pointsTo, homes, up, required, ticking, chose, pinged, starts>>

PointsEarly(step) ==
  CASE step = "make" -> "copy" [] step = "copy" -> "open" [] step = "open" -> "point"
    [] step = "point" -> "pending" [] step = "pending" -> "consent" [] step = "consent" -> "leave"
    [] OTHER -> "idle"
PendingFirst(step) ==
  CASE step = "make" -> "copy" [] step = "copy" -> "pending" [] step = "pending" -> "open"
    [] step = "open" -> "consent" [] step = "consent" -> "point" [] step = "point" -> "leave"
    [] OTHER -> "idle"
Following(step) ==
  CASE step = "make" -> "copy" [] step = "copy" -> "open" [] step = "open" -> "pending"
    [] step = "pending" -> "consent" [] step = "consent" -> "point" [] step = "point" -> "leave"
    [] OTHER -> "idle"

(* What the steps make of the directory.  init_db keeps the rows of a      *)
(* restored database and writes a new one without any.                     *)
Made(home, step, upload) ==
  CASE step = "make" -> Of("empty")
    [] step = "copy" -> IF upload = NoUpload THEN home ELSE Of("half")
    [] step = "open" -> IF upload = NoUpload THEN Of("db") ELSE upload
    [] step = "pending" -> [home EXCEPT !.wizard = "0"]
    [] step = "consent" -> [home EXCEPT !.consent = FALSE]
    [] OTHER -> home

Complete ==
  /\ choosing.at \in SetupSteps \ {"leave"}
  /\ LET step == choosing.at  home == choosing.home
     IN /\ homes' = [homes EXCEPT ![home] = Made(@, step, choosing.upload)]
        /\ pointsTo' = IF step = "point" THEN home ELSE pointsTo
        /\ choosing' = [choosing EXCEPT !.at = Following(step)]
  /\ UNCHANGED <<up, required, ticking, chose, pinged, starts>>

(* finish_setup, in the same request. *)
Opens ==
  /\ choosing.at = "leave"
  /\ required' = FALSE /\ ticking' = TRUE /\ choosing' = NotChoosing
  /\ UNCHANGED <<pointsTo, homes, up, chose, pinged, starts>>

(* A step fails: _rollback empties the directory, as far as it can.        *)
Rollback(cleaned) ==
  /\ choosing.at \in SetupSteps \ {"leave"}
  /\ homes' = [homes EXCEPT ![choosing.home] =
       IF ~cleaned THEN Of("half") ELSE IF choosing.existed THEN Of("empty") ELSE Of("absent")]
  /\ choosing' = NotChoosing
  /\ UNCHANGED <<pointsTo, up, required, ticking, chose, pinged, starts>>

-----------------------------------------------------------------------------
(* The other routes answer once the directory is there. *)

Answering == up /\ ~required /\ pointsTo # NoHome

SetConsent(value) ==
  /\ Answering /\ chose' = TRUE
  /\ homes' = [homes EXCEPT ![pointsTo].consent = value]
  /\ UNCHANGED <<pointsTo, up, required, ticking, choosing, pinged, starts>>

Gain(what) ==
  /\ Answering /\ homes' = [homes EXCEPT ![pointsTo].has = @ \cup {what}]
  /\ UNCHANGED <<pointsTo, up, required, ticking, choosing, chose, pinged, starts>>

Forget(what) ==
  /\ Answering /\ homes' = [homes EXCEPT ![pointsTo].has = @ \ {what}]
  /\ UNCHANGED <<pointsTo, up, required, ticking, choosing, chose, pinged, starts>>

(* finish: one transaction, so no minimum is lost in between.              *)
Finish ==
  /\ Answering /\ Here.wizard = "0" /\ Here.has = Minimums
  /\ homes' = [homes EXCEPT ![pointsTo].wizard = "1"]
  /\ ticking' = TRUE /\ Pinged(TRUE)
  /\ UNCHANGED <<pointsTo, up, required, choosing, chose, starts>>

SetupNext ==
  \/ StartUp \/ Die \/ Complete \/ Opens \/ Finish
  \/ \E home \in Homes, upload \in Uploads \cup {NoUpload} : Choose(home, upload)
  \/ \E cleaned \in BOOLEAN : Rollback(cleaned)
  \/ \E value \in BOOLEAN : SetConsent(value)
  \/ \E what \in Minimums : Gain(what) \/ Forget(what)
SetupSpec == SetupInit /\ [][SetupNext]_setupVars

-----------------------------------------------------------------------------

(* Whatever fails or dies in between, the directory that the pointer names *)
(* is complete: a database whose wizard has its row ("Only this decision   *)
(* creates the pending row", _complete), so that no start takes a half     *)
(* prepared one, or a restored one, for an installation that is set up.    *)
PointedIsPrepared ==
  pointsTo # NoHome => Here.kind = "db" /\ Here.wizard # "missing"

(* "First-start consent is asked afresh and stays off until it is chosen   *)
(* here" (_complete): no ping is sent on the word of a restored database,  *)
(* not by a later start either.                                            *)
PingsIfChosen == pinged => chose

(* "The scheduler itself stays stopped until first-start setup has         *)
(* finished" (main.py, _lifespan).                                         *)
ChecksWait == ticking => Here.wizard = "1"
=============================================================================
