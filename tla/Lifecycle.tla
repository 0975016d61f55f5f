----------------------------- MODULE Lifecycle -----------------------------
(***************************************************************************)
(* The state machine of a post (backend/posts/lifecycle.py): the only      *)
(* place that writes posts.state.  It is a table and two ways of using it: *)
(* a caller lets a refused edge raise, or suppresses the TransitionError   *)
(* and goes on with the state unchanged.                                   *)
(***************************************************************************)

LOCAL_STATES  == {"draft", "ready", "failed", "archived"}
REMOTE_STATES == {"remote_draft", "scheduled", "published"}
BUSY_STATES   == {"pushing", "needs_reconcile"}
ALL_STATES    == LOCAL_STATES \cup REMOTE_STATES \cup BUSY_STATES
                   \cup {"remote_missing"}

TRANSITIONS ==
  [draft           |-> {"ready", "pushing"},
   ready           |-> {"draft", "pushing"},
   pushing         |-> {"remote_draft", "scheduled", "published", "failed",
                        "needs_reconcile", "ready"},
   needs_reconcile |-> {"remote_draft", "scheduled", "published", "draft",
                        "ready", "failed"},
   remote_draft    |-> {"scheduled", "published", "pushing", "failed",
                        "remote_missing", "draft"},
   scheduled       |-> {"scheduled", "published", "pushing", "failed",
                        "remote_missing", "draft"},
   published       |-> {"published", "remote_missing", "draft", "archived"},
   failed          |-> {"ready", "draft", "pushing", "needs_reconcile",
                        "remote_missing"},
   remote_missing  |-> {"draft", "ready", "archived"},
   archived        |-> {"draft", "ready"}]

(* A publish time as it stands against the clock: absent, ahead or passed. *)
Times == {"none", "future", "past"}

(* transition() accepts the edge, or the post is there already. *)
Allowed(s, t) == s = t \/ t \in TRANSITIONS[s]

(* transition() under contextlib.suppress(TransitionError). *)
Moved(s, t) == IF Allowed(s, t) THEN t ELSE s

(* The state that goes with a publish time (push._remote_state,            *)
(* sync._classify with the table in sync_one).                             *)
StateFor(time) ==
  CASE time = "none"   -> "remote_draft"
    [] time = "future" -> "scheduled"
    [] time = "past"   -> "published"

(* _refuse_unpublished_archive: a missing post is filed away only if its   *)
(* publish time had passed.                                                *)
Archivable(s, time) ==
  /\ Allowed(s, "archived")
  /\ s = "remote_missing" => time = "past"
=============================================================================
