------------------------------ MODULE Wording ------------------------------
(***************************************************************************)
(* What one post says: its text and tags here and on CivitAI.  A push      *)
(* creates the post under a marker tag and clears the marker again;        *)
(* push_text sends later edits; a sync compares the site with the          *)
(* baseline, which is what was last sent (posts/push.py,                   *)
(* posts/operations.py, posts/sync.py, store/posts.py).  Accepted          *)
(* suggestions are edits (llm/service.py).                                 *)
(*                                                                         *)
(* A tag's numeric id on the site is its name here: a row has learned it   *)
(* or not.  Title and detail are one text.                                 *)
(***************************************************************************)
EXTENDS Naturals, FiniteSets

CONSTANTS
  Texts, TagNames, Marker,
  NoSite,          \* the site has no such post; no baseline yet
  Clerks,          \* requests that accept suggestions
  MaxWords, MaxPosts, MaxForeign \* bound the edits, the calls and the edits on the site

Said == [text : Texts, tags : SUBSET (TagNames \cup {Marker})]
ASSUME WordingAssumption ==
  /\ Texts # {} /\ Marker \notin TagNames /\ NoSite \notin Said
  /\ MaxWords \in Nat /\ MaxPosts \in Nat /\ MaxForeign \in Nat

VARIABLES
  text, labels,  \* the post's text; its rows in post_tags
  dirty,         \* edited since it was sent: "Local changes not sent yet"
  base,          \* pushed_fields_json
  snapshot,      \* remote_snapshot_json
  diverged,      \* remote_diverged: "Changed on CivitAI"
  phase,         \* how far a push has come
  remoteText,    \* CivitAI's post
  sending,       \* the push and push_text: where they are, what they have read
  retag,         \* set_tags: the rows it has read and what was asked for
  comparing,     \* sync_one: the baseline it has read
  proposals,     \* llm_suggestions of the post, numbered
  accepting,     \* of each clerk: the suggestion it has written, else 0
  words, calls, foreign

here == <<text, labels, dirty>>
believed == <<base, snapshot, diverged>>
asking == <<proposals, accepting>>
wordingVars == <<here, believed, phase, remoteText, sending, retag, comparing, asking,
                 words, calls, foreign>>

Label == [name : TagNames \cup {Marker}, learned : BOOLEAN]
Senders == {"push", "text"}
Sending == [at : {"idle", "create", "sent", "tags", "clear", "drop", "add"}, text : Texts,
            listed : SUBSET (TagNames \cup {Marker}), todo : SUBSET TagNames]
Proposal == [text : Texts, accepted : BOOLEAN]
Unlearned(names) == {[name |-> n, learned |-> FALSE] : n \in names}
NamesOf(rows) == {r.name : r \in rows}
Plain(rows) == {r \in rows : r.name # Marker}

WordingTypeOK ==
  /\ text \in Texts /\ labels \in SUBSET Label /\ dirty \in BOOLEAN
  /\ \A r, q \in labels : r.name = q.name => r = q
  /\ base \in Said \cup {NoSite} /\ snapshot \in Said \cup {NoSite} /\ diverged \in BOOLEAN
  /\ phase \in {"plan", "attempted", "created", "live"}
  /\ remoteText \in Said \cup {NoSite}
  /\ sending \in [Senders -> Sending]
  /\ retag \in [on : BOOLEAN, known : SUBSET Label, names : SUBSET TagNames]
  /\ comparing \in [on : BOOLEAN, base : Said \cup {NoSite}]
  /\ DOMAIN proposals \subseteq 1 .. MaxWords
  /\ \A p \in DOMAIN proposals : proposals[p] \in Proposal
  /\ accepting \in [Clerks -> 0 .. MaxWords]
  /\ words \in 0 .. MaxWords /\ calls \in 0 .. MaxPosts /\ foreign \in 0 .. MaxForeign

Resting == [at |-> "idle", text |-> CHOOSE t \in Texts : TRUE, listed |-> {}, todo |-> {}]
NoRetag == [on |-> FALSE, known |-> {}, names |-> {}]
NotComparing == [on |-> FALSE, base |-> NoSite]

WordingInit ==
  /\ text \in Texts /\ labels \in {Unlearned(names) : names \in SUBSET TagNames}
  /\ dirty = FALSE /\ base = NoSite /\ snapshot = NoSite /\ diverged = FALSE
  /\ phase = "plan" /\ remoteText = NoSite
  /\ sending = [w \in Senders |-> Resting]
  /\ retag = NoRetag /\ comparing = NotComparing
  /\ proposals = <<>> /\ accepting = [c \in Clerks |-> 0]
  /\ words = 0 /\ calls = 0 /\ foreign = 0

-----------------------------------------------------------------------------
(* Edits.  guard_post_mutation looks whether a push runs, and no more.     *)

Guarded == sending["push"].at = "idle"
Word == words < MaxWords /\ words' = words + 1

Update(value) == text' = value /\ dirty' = TRUE

EditText(value) ==
  /\ Guarded /\ Word /\ Update(value)
  /\ UNCHANGED <<labels, believed, phase, remoteText, sending, retag, comparing, asking, calls, foreign>>

(* set_tags reads the rows, then replaces them in a transaction of its own.*)
ReadLabels(names) ==
  /\ Guarded /\ Word /\ ~retag.on
  /\ retag' = [on |-> TRUE, known |-> labels, names |-> names]
  /\ UNCHANGED <<here, believed, phase, remoteText, sending, comparing, asking, calls, foreign>>

ReplacedAll(rows, known, names) ==
  {r \in known : r.name \in names} \cup Unlearned(names \ NamesOf(known))
Replaced(rows, known, names) ==
  (rows \ Plain(rows)) \cup {r \in known : r.name \in names} \cup Unlearned(names \ NamesOf(known))

WriteLabels ==
  /\ retag.on
  /\ labels' = Replaced(labels, retag.known, retag.names)
  /\ dirty' = TRUE /\ retag' = NoRetag
  /\ UNCHANGED <<text, believed, phase, remoteText, sending, comparing, asking, words, calls, foreign>>

(* A text the model proposes; the user accepts or dismisses it.            *)
Propose(value) ==
  /\ Word
  /\ proposals' = [p \in DOMAIN proposals \cup {words'} |->
                     IF p \in DOMAIN proposals THEN proposals[p] ELSE [text |-> value, accepted |-> FALSE]]
  /\ UNCHANGED <<here, believed, phase, remoteText, sending, retag, comparing, accepting, calls, foreign>>

AcceptWrites(c, p) ==
  /\ Guarded /\ accepting[c] = 0 /\ Update(proposals[p].text)
  /\ accepting' = [accepting EXCEPT ![c] = p]
  /\ UNCHANGED <<labels, believed, phase, remoteText, sending, retag, comparing, proposals,
                 words, calls, foreign>>

(* The accepted one is marked and those accepted before it go.             *)
Superseding(rows, p) ==
  [q \in {q \in DOMAIN rows : q = p \/ ~rows[q].accepted} |->
     IF q = p THEN [rows[q] EXCEPT !.accepted = TRUE] ELSE rows[q]]

AcceptMarks(c) ==
  /\ accepting[c] # 0
  /\ proposals' = Superseding(proposals, accepting[c])
  /\ accepting' = [accepting EXCEPT ![c] = 0]
  /\ UNCHANGED <<here, believed, phase, remoteText, sending, retag, comparing, words, calls, foreign>>

Dismiss(p) ==
  /\ proposals' = [q \in DOMAIN proposals \ {p} |-> proposals[q]]
  /\ UNCHANGED <<here, believed, phase, remoteText, sending, retag, comparing, accepting,
                 words, calls, foreign>>

(* The owner changes the post on the site itself.                          *)
EditOnSite(said) ==
  /\ phase = "live" /\ foreign < MaxForeign /\ foreign' = foreign + 1
  /\ remoteText' = said
  /\ UNCHANGED <<here, believed, phase, sending, retag, comparing, asking, words, calls>>

-----------------------------------------------------------------------------
(* A push: create the post under the marker, clear the marker, then add    *)
(* the tags the site has not taken; it may stop at every step.             *)

At(w, step) == sending[w].at = step
Goes(w, step) == sending' = [sending EXCEPT ![w].at = step]
Sent == UNCHANGED <<retag, comparing, asking, words, calls, foreign>>

(* The attempt and its marker are committed before the call.               *)
Attempt ==
  /\ At("push", "idle") /\ phase = "plan" /\ calls < MaxPosts /\ calls' = calls + 1
  /\ phase' = "attempted"
  /\ labels' = labels \cup Unlearned({Marker})
  /\ sending' = [sending EXCEPT !["push"] =
       [at |-> "create", text |-> text, listed |-> NamesOf(labels), todo |-> {}]]
  /\ UNCHANGED <<text, dirty, believed, remoteText, retag, comparing, asking, words, foreign>>

CreatePost(answered) ==
  /\ At("push", "create")
  /\ remoteText' = [text |-> sending["push"].text, tags |-> sending["push"].listed \cup {Marker}]
  /\ phase' = IF answered THEN "created" ELSE phase
  /\ sending' = [sending EXCEPT !["push"] = IF answered THEN [Resting EXCEPT !.at = "tags"] ELSE Resting]
  /\ UNCHANGED <<here, believed>> /\ Sent

(* A later run finds the post by its marker, or knows it already.          *)
Resume ==
  /\ At("push", "idle") /\ calls < MaxPosts /\ calls' = calls + 1
  /\ phase = "created" \/ (phase = "attempted" /\ remoteText # NoSite)
  /\ phase' = "created" /\ Goes("push", "tags")
  /\ UNCHANGED <<here, believed, remoteText, retag, comparing, asking, words, foreign>>

(* Tags that were learned are not sent again; the step is skipped when an  *)
(* earlier attempt of the run has completed it.                            *)
ReadTags(skipped) ==
  /\ At("push", "tags") /\ (skipped => Marker \notin NamesOf(labels))
  /\ sending' = [sending EXCEPT !["push"] =
       [Resting EXCEPT !.at = IF Marker \in NamesOf(labels) THEN "clear" ELSE "add",
                    !.todo = IF skipped THEN {} ELSE NamesOf({r \in Plain(labels) : ~r.learned})]]
  /\ UNCHANGED <<here, believed, phase, remoteText>> /\ Sent

ClearMarker ==
  /\ At("push", "clear") /\ Goes("push", "drop")
  /\ remoteText' = [remoteText EXCEPT !.tags = @ \ {Marker}]
  /\ UNCHANGED <<here, believed, phase>> /\ Sent

DropMarker ==
  /\ At("push", "drop") /\ Goes("push", "add")
  /\ labels' = Plain(labels)
  /\ UNCHANGED <<text, dirty, believed, phase, remoteText>> /\ Sent

(* set_tag_remote_id writes by name; a tag the site refuses is passed over.*)
Learn(rows, name) == {IF r.name = name THEN [r EXCEPT !.learned = TRUE] ELSE r : r \in rows}
AddTag(w, name, taken) ==
  /\ At(w, "add") /\ name \in sending[w].todo
  /\ sending' = [sending EXCEPT ![w].todo = @ \ {name}]
  /\ IF name \in sending[w].listed \/ taken
     THEN labels' = Learn(labels, name) /\ remoteText' =
            (IF name \in sending[w].listed THEN remoteText ELSE [remoteText EXCEPT !.tags = @ \cup {name}])
     ELSE UNCHANGED <<labels, remoteText>>
  /\ UNCHANGED <<text, dirty, believed, phase>> /\ Sent

Differs(old, now) == old # NoSite /\ old # now

(* The images follow; then sync_one looks and snapshot_pushed takes what   *)
(* CivitAI holds for the new baseline and the post for clean.              *)
PushDone ==
  /\ At("push", "add") /\ sending["push"].todo = {}
  /\ diverged' = Differs(base, remoteText) /\ snapshot' = remoteText
  /\ base' = remoteText /\ dirty' = FALSE /\ phase' = "live"
  /\ sending' = [sending EXCEPT !["push"] = Resting]
  /\ UNCHANGED <<text, labels, remoteText>> /\ Sent

Stop(w) ==
  /\ sending[w].at # "idle"
  /\ sending' = [sending EXCEPT ![w] = Resting]
  /\ UNCHANGED <<here, believed, phase, remoteText>> /\ Sent

-----------------------------------------------------------------------------
(* push_text, the sync and adopt_remote_snapshot. *)

ReadText ==
  /\ Guarded /\ At("text", "idle") /\ phase \in {"created", "live"}
  /\ calls < MaxPosts /\ calls' = calls + 1
  /\ sending' = [sending EXCEPT !["text"] = [Resting EXCEPT !.at = "sent", !.text = text]]
  /\ UNCHANGED <<here, believed, phase, remoteText, retag, comparing, asking, words, foreign>>

(* post_update, and the answer of the read that confirms it.               *)
SendText ==
  /\ At("text", "sent")
  /\ remoteText' = [remoteText EXCEPT !.text = sending["text"].text]
  /\ base' = IF base = NoSite THEN base ELSE [base EXCEPT !.text = sending["text"].text]
  /\ sending' = [sending EXCEPT !["text"] =
       [@ EXCEPT !.at = "tags", !.listed = remoteText.tags]]
  /\ UNCHANGED <<here, snapshot, diverged, phase>> /\ Sent

(* _sync_tags: tags the post no longer has go, as far as CivitAI agrees.   *)
RemoveTags(gone) ==
  /\ At("text", "tags") /\ gone \in SUBSET (sending["text"].listed \ NamesOf(Plain(labels)))
  /\ remoteText' = [remoteText EXCEPT !.tags = @ \ gone]
  /\ sending' = [sending EXCEPT !["text"] = [@ EXCEPT !.at = "add", !.todo = NamesOf(Plain(labels))]]
  /\ UNCHANGED <<here, believed, phase>> /\ Sent

(* The text is read once more; another one there fails the request.        *)
TextDone ==
  /\ At("text", "add") /\ sending["text"].todo = {}
  /\ sending' = [sending EXCEPT !["text"] = Resting]
  /\ IF remoteText.text = sending["text"].text
     THEN /\ base' = remoteText /\ snapshot' = remoteText
          /\ dirty' = FALSE /\ diverged' = FALSE
     ELSE UNCHANGED <<dirty, believed>>
  /\ UNCHANGED <<text, labels, phase, remoteText>> /\ Sent

CompareStarts ==
  /\ ~comparing.on /\ phase = "live"
  /\ comparing' = [on |-> TRUE, base |-> base]
  /\ UNCHANGED <<here, believed, phase, remoteText, sending, retag, asking, words, calls, foreign>>

CompareEnds ==
  /\ comparing.on
  /\ diverged' = Differs(comparing.base, remoteText) /\ snapshot' = remoteText
  /\ comparing' = NotComparing
  /\ UNCHANGED <<here, base, phase, remoteText, sending, retag, asking, words, calls, foreign>>

(* "Take CivitAI's version": the text is taken, the tags are not.          *)
AdoptSnapshot ==
  /\ Guarded /\ snapshot # NoSite /\ Word
  /\ text' = snapshot.text /\ dirty' = FALSE
  /\ base' = snapshot /\ diverged' = FALSE
  /\ UNCHANGED <<labels, snapshot, phase, remoteText, sending, retag, comparing, asking, calls, foreign>>

Pushes ==
  \/ Attempt \/ Resume \/ ClearMarker \/ DropMarker \/ PushDone
  \/ \E answered \in BOOLEAN : CreatePost(answered) \/ ReadTags(~answered)
Sends ==
  \/ ReadText \/ SendText \/ TextDone \/ CompareStarts \/ CompareEnds \/ AdoptSnapshot
  \/ \E gone \in SUBSET (TagNames \cup {Marker}) : RemoveTags(gone)
  \/ \E w \in Senders : Stop(w) \/ \E name \in TagNames, taken \in BOOLEAN : AddTag(w, name, taken)
Suggestions ==
  \/ \E value \in Texts : Propose(value)
  \/ \E p \in DOMAIN proposals : Dismiss(p) \/ \E c \in Clerks : AcceptWrites(c, p)
  \/ \E c \in Clerks : AcceptMarks(c)
Edits ==
  \/ \E value \in Texts : EditText(value)
  \/ \E names \in SUBSET TagNames : ReadLabels(names)
  \/ WriteLabels
  \/ \E said \in Said : Marker \notin said.tags /\ EditOnSite(said)
WordingNext == Pushes \/ Sends \/ Suggestions \/ Edits
WordingSpec == WordingInit /\ [][WordingNext]_wordingVars

-----------------------------------------------------------------------------

(* While CivitAI's post carries the marker, the row that says so is still  *)
(* here (add_transient_tag: "so it can be found and removed again after a  *)
(* crash"), although edits that passed their guard before the push replace *)
(* the tags in the middle of it, and a lost answer or a stop comes between *)
(* any two steps.                                                          *)
MarkerStays ==
  remoteText # NoSite /\ Marker \in remoteText.tags => Marker \in NamesOf(labels)

(* A post that says something else than what was last sent is marked as    *)
(* unsent ("Local changes not sent yet", i18n/en.json; "Marks the post     *)
(* dirty so a re-push knows to run", store/posts.py update).               *)
UnsentIsShown ==
  base # NoSite /\ ~dirty => text = base.text

(* set_tags keeps "remote ids for tags that stay" (its docstring).         *)
LearnedIsKept ==
  [][\A r \in labels, q \in labels' :
       r.name = q.name /\ r.learned => q.learned]_wordingVars
=============================================================================
