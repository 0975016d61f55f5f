---------------------------- MODULE Connection ----------------------------
(***************************************************************************)
(* The OAuth connection to CivitAI (backend/civitai/oauth.py with          *)
(* backend/api/oauth.py).  Any thread may ask for an access token; one     *)
(* that is about to expire is refreshed, which voids the refresh token     *)
(* spent for it.  A lock admits one refresh at a time, but connecting and  *)
(* disconnecting do not take it.                                           *)
(*                                                                         *)
(* One authorization by the user is a grant; a refresh is a turn of it.    *)
(* The access and the refresh token are written in one transaction and are *)
(* one value here.  Reading them and reading the instant of expiry are     *)
(* separate queries.                                                       *)
(***************************************************************************)
EXTENDS Integers

CONSTANTS
  Threads,   \* worker and request threads that call CivitAI
  Grants,    \* authorizations the user may give: bounds the connects
  MaxTurns,  \* bounds the refreshes of a grant
  Overload,  \* does the token endpoint answer 5xx or 429 at times?
  NoThread, NoGrant

ASSUME NobodyAssumption == NoThread \notin Threads /\ NoGrant \notin Grants
ASSUME TurnsAssumption == MaxTurns \in Nat
ASSUME OverloadAssumption == Overload \in BOOLEAN

VARIABLES
  \* the settings rows: the tokens, and is their instant past the margin?
  stored, due,
  \* _refresh_lock, and of each thread its place and the tokens it has read
  \* or was answered
  lock, at, mine,
  \* _pending: the attempt in the user's browser; the callback being served
  \* and whom it is for
  pending, coming, comes,
  \* CivitAI: attempts begun, codes spent, the turn of each grant whose
  \* refresh token is valid, revoked grants
  begun, granted, turn, revoked,
  \* history: grants of which the answer to a refresh was lost
  lost

thread   == <<lock, at, mine>>
flow     == <<pending, coming, comes, begun>>
provider == <<granted, turn, revoked>>
vars     == <<stored, due, thread, flow, provider, lost>>

Token == [grant : Grants, turn : 0 .. MaxTurns]
NoToken == [grant |-> NoGrant, turn |-> 0]

TypeOK ==
  /\ stored \in Token \cup {NoToken} /\ due \in BOOLEAN
  /\ lock \in Threads \cup {NoThread}
  /\ at \in [Threads -> {"idle", "read", "expiry", "wait", "send", "keep", "clear"}]
  /\ mine \in [Threads -> Token \cup {NoToken}]
  /\ pending \in Grants \cup {NoGrant}
  /\ coming \in {"idle", "exchange", "store", "finish"}
  /\ comes \in Grants \cup {NoGrant}
  /\ begun \in SUBSET Grants /\ granted \in SUBSET Grants
  /\ turn \in [Grants -> 0 .. MaxTurns]
  /\ revoked \in SUBSET Grants /\ lost \in SUBSET Grants

Init ==
  /\ stored = NoToken /\ due = FALSE
  /\ lock = NoThread
  /\ at = [c \in Threads |-> "idle"]
  /\ mine = [c \in Threads |-> NoToken]
  /\ pending = NoGrant /\ coming = "idle" /\ comes = NoGrant
  /\ begun = {} /\ granted = {}
  /\ turn = [g \in Grants |-> 0]
  /\ revoked = {} /\ lost = {}

-----------------------------------------------------------------------------
(* access_token and refresh. *)

(* The call returns or raises; inside refresh, `with _refresh_lock` ends.  *)
KeepsLock(c) == lock
Freed(c) == IF lock = c THEN NoThread ELSE lock
Return(c) ==
  /\ at' = [at EXCEPT ![c] = "idle"]
  /\ mine' = [mine EXCEPT ![c] = NoToken]
  /\ lock' = Freed(c)

Ask(c) ==
  /\ at[c] = "idle"
  /\ at' = [at EXCEPT ![c] = "read"]
  /\ UNCHANGED <<stored, due, lock, mine, flow, provider, lost>>

(* _read: the tokens.  No connection, no token. *)
ReadTokens(c) ==
  /\ at[c] = "read"
  /\ IF stored = NoToken
     THEN Return(c)
     ELSE /\ at' = [at EXCEPT ![c] = "expiry"]
          /\ mine' = [mine EXCEPT ![c] = stored]
          /\ UNCHANGED lock
  /\ UNCHANGED <<stored, due, flow, provider, lost>>

(* _read and _expiring: the instant.  A good token is used as it is; an    *)
(* expiring one is refreshed - by whoever holds the lock.                  *)
ReadExpiry(c) ==
  /\ at[c] = "expiry"
  /\ IF ~due
     THEN Return(c)
     ELSE /\ at' = [at EXCEPT ![c] = IF lock = c THEN "send" ELSE "wait"]
          /\ UNCHANGED <<lock, mine>>
  /\ UNCHANGED <<stored, due, flow, provider, lost>>

(* refresh has the lock, and reads again: another thread may have been     *)
(* faster.                                                                 *)
SendAtOnce == "send"
ReadAgain == "read"
Enter(c) ==
  /\ at[c] = "wait" /\ lock = NoThread
  /\ lock' = c
  /\ at' = [at EXCEPT ![c] = ReadAgain]
  /\ UNCHANGED <<stored, due, mine, flow, provider, lost>>

Valid(token) == token.grant \notin revoked /\ token.turn = turn[token.grant]

(* The provider turns the grant; the answer arrives or is lost, and then   *)
(* the exception passes through.                                           *)
SendLands(c) ==
  LET g == mine[c].grant IN
  /\ at[c] = "send" /\ Valid(mine[c]) /\ turn[g] < MaxTurns
  /\ turn' = [turn EXCEPT ![g] = @ + 1]
  /\ \/ /\ at' = [at EXCEPT ![c] = "keep"]
        /\ mine' = [mine EXCEPT ![c] = [grant |-> g, turn |-> turn[g] + 1]]
        /\ UNCHANGED <<lock, lost>>
     \/ Return(c) /\ lost' = lost \cup {g}
  /\ UNCHANGED <<stored, due, flow, granted, revoked>>

(* Any answer but a 200 with a token counts as a refusal. *)
SendRefused(c) ==
  /\ at[c] = "send"
  /\ ~Valid(mine[c]) \/ Overload
  /\ at' = [at EXCEPT ![c] = "clear"]
  /\ UNCHANGED <<stored, due, lock, mine, flow, provider, lost>>

(* No answer, and nothing landed. *)
SendFails(c) ==
  /\ at[c] = "send"
  /\ Return(c)
  /\ UNCHANGED <<stored, due, flow, provider, lost>>

(* _store of the answer, and disconnect after a refusal. *)
OldWritten(c) == stored
Written(c) == mine[c]
KeepAnswer(c) ==
  /\ at[c] = "keep"
  /\ stored' = Written(c) /\ due' = FALSE
  /\ Return(c)
  /\ UNCHANGED <<flow, provider, lost>>

(* The four rows go together: half a connection is none. *)
HalfCleared == [stored EXCEPT !.grant = NoGrant]
Cleared == NoToken
ClearRefused(c) ==
  /\ at[c] = "clear"
  /\ stored' = Cleared /\ due' = FALSE
  /\ Return(c)
  /\ UNCHANGED <<flow, provider, lost>>

-----------------------------------------------------------------------------
(* The routes of api/oauth.py.  One callback is served at a time. *)

Start(g) ==
  /\ stored = NoToken /\ g \notin begun
  /\ pending' = g /\ begun' = begun \cup {g}
  /\ UNCHANGED <<stored, due, thread, coming, comes, provider, lost>>

(* The browser comes back with the state of the pending attempt. *)
Callback ==
  /\ coming = "idle" /\ pending # NoGrant
  /\ coming' = "exchange" /\ comes' = pending
  /\ UNCHANGED <<stored, due, thread, pending, begun, provider, lost>>

(* complete: the code is traded for tokens once.  A lost answer passes     *)
(* through as an exception, and the attempt stays pending.                 *)
ExchangeLands ==
  /\ coming = "exchange" /\ comes \notin granted
  /\ granted' = granted \cup {comes}
  /\ \/ coming' = "store" /\ UNCHANGED comes
     \/ coming' = "idle" /\ comes' = NoGrant
  /\ UNCHANGED <<stored, due, thread, pending, begun, turn, revoked, lost>>

(* Refused, or no answer and nothing landed. *)
ExchangeFails ==
  /\ coming = "exchange"
  /\ \/ coming' = "finish" /\ UNCHANGED comes
     \/ coming' = "idle" /\ comes' = NoGrant
  /\ UNCHANGED <<stored, due, thread, pending, begun, provider, lost>>

(* _store, without the refresh lock. *)
StoreNew ==
  /\ coming = "store"
  /\ stored' = [grant |-> comes, turn |-> 0] /\ due' = FALSE
  /\ coming' = "finish"
  /\ UNCHANGED <<thread, pending, comes, begun, provider, lost>>

(* _finish clears what is pending by now. *)
FinishCallback ==
  /\ coming = "finish"
  /\ pending' = NoGrant /\ coming' = "idle" /\ comes' = NoGrant
  /\ UNCHANGED <<stored, due, thread, begun, provider, lost>>

(* cancel, or a callback that reports a denial. *)
Cancel ==
  /\ pending # NoGrant
  /\ pending' = NoGrant
  /\ UNCHANGED <<stored, due, thread, coming, comes, begun, provider, lost>>

Disconnect ==
  /\ stored # NoToken
  /\ stored' = Cleared /\ due' = FALSE /\ pending' = NoGrant
  /\ UNCHANGED <<thread, coming, comes, begun, provider, lost>>

-----------------------------------------------------------------------------
(* Outside. *)

TimePasses ==
  /\ stored # NoToken /\ ~due
  /\ due' = TRUE
  /\ UNCHANGED <<stored, thread, flow, provider, lost>>

(* The user revokes a grant on CivitAI, or its refresh token ages out. *)
Revoke(g) ==
  /\ g \in granted \ revoked
  /\ revoked' = revoked \cup {g}
  /\ UNCHANGED <<stored, due, thread, flow, granted, turn, lost>>

(* The process ends and starts again: only the settings survive. *)
Restart ==
  /\ \/ \E c \in Threads : at[c] # "idle"
     \/ coming # "idle" \/ pending # NoGrant
  /\ lost' = lost \cup {mine[c].grant : c \in {d \in Threads : at[d] = "keep"}}
  /\ lock' = NoThread
  /\ at' = [c \in Threads |-> "idle"]
  /\ mine' = [c \in Threads |-> NoToken]
  /\ pending' = NoGrant /\ coming' = "idle" /\ comes' = NoGrant
  /\ UNCHANGED <<stored, due, begun, provider>>

-----------------------------------------------------------------------------
Answering(c) ==
  \/ ReadTokens(c) \/ ReadExpiry(c) \/ Enter(c)
  \/ SendLands(c) \/ SendRefused(c) \/ SendFails(c)
  \/ KeepAnswer(c) \/ ClearRefused(c)

Routes ==
  \/ \E g \in Grants : Start(g)
  \/ Callback \/ ExchangeLands \/ ExchangeFails \/ StoreNew \/ FinishCallback
  \/ Cancel \/ Disconnect

Outside == TimePasses \/ (\E g \in Grants : Revoke(g)) \/ Restart

Next == (\E c \in Threads : Ask(c) \/ Answering(c)) \/ Routes \/ Outside

Spec == Init /\ [][Next]_vars

(* A thread is scheduled, and its calls time out after 30 seconds. *)
FairSpec == Spec /\ \A c \in Threads : WF_vars(Answering(c))

-----------------------------------------------------------------------------
(* Properties. *)

(* "Two threads spending the same refresh token would rotate it twice":    *)
(* what a thread sends is the token CivitAI expects, whatever the other    *)
(* threads, the user and restarts did - unless an answer was lost.         *)
SpendsCurrent ==
  \A c \in Threads : at[c] = "send" /\ mine[c].grant \notin lost
    => mine[c].turn = turn[mine[c].grant]

(* "The provider rotates the refresh token on every use": the stored one   *)
(* is the current one, or the answer that replaces it has arrived.         *)
StoredIsCurrent ==
  stored # NoToken /\ stored.grant \notin lost
    => \/ stored.turn = turn[stored.grant]
       \/ \E c \in Threads : at[c] = "keep" /\ mine[c].grant = stored.grant

(* No thread keeps the others waiting for ever. *)
LockReleased == \A c \in Threads : lock = c ~> lock # c

(* "A refusal here means the connection is gone", and a connection the     *)
(* user forgot is gone as well: it begins, changes and ends by what the    *)
(* user does, or ends because CivitAI no longer takes its token.           *)
ConnectionIsTheUsers ==
  [][stored'.grant # stored.grant
       => Disconnect \/ StoreNew \/ (stored # NoToken /\ ~Valid(stored))]_vars

-----------------------------------------------------------------------------
(* The inductive invariant behind SpendsCurrent and StoredIsCurrent.       *)

(* A thread past its second look has the lock, and has tokens in hand.     *)
Holding ==
  \A c \in Threads :
    /\ at[c] \in {"send", "keep", "clear"} => lock = c
    /\ at[c] \in {"expiry", "send", "keep"} => mine[c] \in Token

(* What was read under the lock stays current, and so does an answer.      *)
Current ==
  \A c \in Threads :
    /\ lock = c /\ at[c] = "expiry" /\ mine[c].grant \notin lost
         => mine[c].turn = turn[mine[c].grant]
    /\ at[c] = "keep" => mine[c].turn = turn[mine[c].grant]

(* Nobody holds tokens of g, and it has not turned. *)
Untouched(g) ==
  /\ turn[g] = 0 /\ stored.grant # g
  /\ \A c \in Threads : mine[c].grant # g

(* Tokens come from codes that were spent, and the tokens of a callback    *)
(* that has not stored them yet are known to it alone.                     *)
NewGrants ==
  /\ \A g \in Grants \ granted : Untouched(g)
  /\ coming # "idle" => comes \in Grants
  /\ coming = "store" => comes \in granted /\ Untouched(comes)

IInv == TypeOK /\ Holding /\ Current /\ NewGrants /\ SpendsCurrent /\ StoredIsCurrent
=============================================================================
