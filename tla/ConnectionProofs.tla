------------------------- MODULE ConnectionProofs -------------------------
(***************************************************************************)
(* IInv of Connection is inductive: for any number of threads, grants and  *)
(* refreshes, a thread spends the refresh token CivitAI expects, and the   *)
(* stored one is current or about to be replaced.                          *)
(***************************************************************************)
EXTENDS Connection, TLAPS

USE NobodyAssumption, TurnsAssumption, OverloadAssumption

LEMMA ConnInit == Init => IInv
<1> SUFFICES ASSUME Init PROVE IInv
  OBVIOUS
<1>1. TypeOK
  <2>1. due \in BOOLEAN
    BY DEF Init
  <2>2. turn \in [Grants -> 0 .. MaxTurns]
    BY DEF Init
  <2> QED
    BY <2>1, <2>2 DEF Init, TypeOK
<1>2. Holding /\ Current /\ SpendsCurrent /\ StoredIsCurrent
  BY DEF Init, Holding, Current, SpendsCurrent, StoredIsCurrent
<1>3. NewGrants
  BY DEF Init, NewGrants, Untouched, NoToken
<1> QED
  BY <1>1, <1>2, <1>3 DEF IInv

(* A thread's call returns, with the tokens of nobody else touched: the    *)
(* place of every thread else and what it has read stay.                   *)
LEMMA ReturnKeeps ==
  ASSUME TypeOK, Holding, NEW c \in Threads, Return(c)
  PROVE  /\ lock' \in Threads \cup {NoThread}
         /\ at' \in [Threads -> {"idle", "read", "expiry", "wait", "send", "keep", "clear"}]
         /\ mine' \in [Threads -> Token \cup {NoToken}]
         /\ Holding'
         /\ at'[c] = "idle" /\ mine'[c] = NoToken
         /\ \A d \in Threads \ {c} : at'[d] = at[d] /\ mine'[d] = mine[d]
         /\ \A d \in Threads : lock' = d => d # c /\ lock = d
<1>1. \A d \in Threads \ {c} : at'[d] = at[d] /\ mine'[d] = mine[d]
  BY DEF Return, TypeOK
<1>2. at'[c] = "idle" /\ mine'[c] = NoToken
  BY DEF Return, TypeOK
<1>3. \A d \in Threads : lock' = d => d # c /\ lock = d
  BY DEF Return, Freed
<1>4. \A d \in Threads \ {c} : lock = d => lock' = d
  BY DEF Return, Freed
<1>5. lock' \in Threads \cup {NoThread}
  BY DEF Return, Freed, TypeOK
<1>6. Holding'
  BY <1>1, <1>2, <1>4 DEF Holding
<1>7. /\ at' \in [Threads -> {"idle", "read", "expiry", "wait", "send", "keep", "clear"}]
      /\ mine' \in [Threads -> Token \cup {NoToken}]
  BY DEF Return, TypeOK
<1> QED
  BY <1>1, <1>2, <1>3, <1>5, <1>6, <1>7

(* What a return does to the rest of IInv when nothing else changes. *)
LEMMA ReturnAlone ==
  ASSUME IInv, NEW c \in Threads, Return(c), at[c] # "keep",
         UNCHANGED <<stored, due, flow, provider, lost>>
  PROVE  IInv'
<1> USE DEF IInv
<1>1. /\ at' \in [Threads -> {"idle", "read", "expiry", "wait", "send", "keep", "clear"}]
      /\ lock' \in Threads \cup {NoThread}
      /\ mine' \in [Threads -> Token \cup {NoToken}]
      /\ Holding'
      /\ at'[c] = "idle" /\ mine'[c] = NoToken
      /\ \A d \in Threads \ {c} : at'[d] = at[d] /\ mine'[d] = mine[d]
      /\ \A d \in Threads : lock' = d => d # c /\ lock = d
  BY ReturnKeeps
<1>2. TypeOK'
  BY <1>1 DEF TypeOK, flow, provider
<1>3. Current' /\ SpendsCurrent'
  BY <1>1 DEF Current, SpendsCurrent, provider
<1>4. NewGrants'
  BY <1>1 DEF NewGrants, Untouched, flow, provider, NoToken
<1>5. StoredIsCurrent'
  BY <1>1 DEF StoredIsCurrent, provider
<1> QED
  BY <1>1, <1>2, <1>3, <1>4, <1>5

(* Steps of the routes and of the world that touch neither tokens nor      *)
(* threads.                                                                *)
LEMMA FlowKeeps ==
  ASSUME IInv, TypeOK', UNCHANGED <<stored, thread, granted, turn, lost>>,
         coming' = "store" => coming = "store" /\ comes' = comes,
         coming' # "idle" => comes' \in Grants
  PROVE  IInv'
<1> USE DEF IInv, thread
<1>1. Holding' /\ Current' /\ SpendsCurrent' /\ StoredIsCurrent'
  BY DEF Holding, Current, SpendsCurrent, StoredIsCurrent
<1>2. NewGrants'
  BY DEF NewGrants, Untouched
<1> QED
  BY <1>1, <1>2

LEMMA AskKeeps == ASSUME IInv, NEW c \in Threads, Ask(c) PROVE IInv'
<1> USE DEF IInv
<1>1. TypeOK'
  BY DEF Ask, TypeOK, flow, provider
<1>2. \A d \in Threads : at'[d] = IF d = c THEN "read" ELSE at[d]
  BY DEF Ask, TypeOK
<1>3. Holding' /\ Current' /\ SpendsCurrent'
  BY <1>2 DEF Ask, Holding, Current, SpendsCurrent, provider
<1>4. NewGrants'
  BY DEF Ask, NewGrants, Untouched, flow, provider
<1>5. StoredIsCurrent'
  BY <1>2 DEF Ask, StoredIsCurrent, provider
<1> QED
  BY <1>1, <1>3, <1>4, <1>5

(* Under the lock no other thread has an answer in hand, so what is read   *)
(* there is current.                                                       *)
LEMMA ReadTokensKeeps == ASSUME IInv, NEW c \in Threads, ReadTokens(c) PROVE IInv'
<1> USE DEF IInv
<1>1. CASE stored = NoToken
  BY <1>1, ReturnAlone DEF ReadTokens
<1>2. CASE stored # NoToken
  <2>1. /\ at' = [at EXCEPT ![c] = "expiry"]
        /\ mine' = [mine EXCEPT ![c] = stored]
        /\ UNCHANGED <<lock, stored, due, flow, provider, lost>>
    BY <1>2 DEF ReadTokens
  <2>2. \A d \in Threads : /\ at'[d] = IF d = c THEN "expiry" ELSE at[d]
                           /\ mine'[d] = IF d = c THEN stored ELSE mine[d]
    BY <2>1 DEF TypeOK
  <2>3. stored \in Token /\ at[c] = "read"
    BY <1>2 DEF ReadTokens, TypeOK
  <2>4. TypeOK'
    BY <2>1, <2>3 DEF TypeOK, flow, provider
  <2>5. Holding'
    BY <2>1, <2>2, <2>3 DEF Holding
  <2>6. lock = c => \A d \in Threads : at[d] # "keep"
    BY <2>3 DEF Holding
  <2>7. Current'
    <3>1. \A d \in Threads : at'[d] = "keep" => mine'[d].turn = turn'[mine'[d].grant]
      BY <2>1, <2>2 DEF Current, provider
    <3>2. ASSUME NEW d \in Threads, lock' = d, at'[d] = "expiry", mine'[d].grant \notin lost'
          PROVE  mine'[d].turn = turn'[mine'[d].grant]
      <4>1. CASE d = c
        <5>1. lock = c /\ mine'[d] = stored /\ turn' = turn /\ stored.grant \notin lost
          BY <2>1, <2>2, <3>2, <4>1 DEF provider
        <5>2. stored.turn = turn[stored.grant]
          BY <1>2, <2>6, <5>1 DEF StoredIsCurrent
        <5> QED
          BY <5>1, <5>2
      <4>2. CASE d # c
        BY <2>1, <2>2, <3>2, <4>2 DEF Current, provider
      <4> QED
        BY <4>1, <4>2
    <3> QED
      BY <3>1, <3>2 DEF Current
  <2>8. SpendsCurrent'
    BY <2>1, <2>2 DEF SpendsCurrent, provider
  <2>9. NewGrants'
    BY <2>1, <2>2 DEF NewGrants, Untouched, flow, provider
  <2>10. StoredIsCurrent'
    BY <2>1, <2>2, <2>3 DEF StoredIsCurrent, provider
  <2> QED
    BY <2>4, <2>5, <2>7, <2>8, <2>9, <2>10
<1> QED
  BY <1>1, <1>2

LEMMA ReadExpiryKeeps == ASSUME IInv, NEW c \in Threads, ReadExpiry(c) PROVE IInv'
<1> USE DEF IInv
<1>1. CASE ~due
  BY <1>1, ReturnAlone DEF ReadExpiry
<1>2. CASE due
  <2> USE <1>2
  <2>1. \A d \in Threads : at'[d] = IF d # c THEN at[d]
                                     ELSE IF lock = c THEN "send" ELSE "wait"
    BY DEF ReadExpiry, TypeOK
  <2>2. at[c] = "expiry" /\ UNCHANGED <<lock, mine, turn, lost, stored>>
    BY DEF ReadExpiry, provider
  <2>3. TypeOK'
    BY DEF ReadExpiry, TypeOK, flow, provider
  <2>4. Holding' /\ Current' /\ SpendsCurrent'
    BY <2>1, <2>2 DEF Holding, Current, SpendsCurrent
  <2>5. NewGrants'
    BY DEF ReadExpiry, NewGrants, Untouched, flow, provider
  <2>6. StoredIsCurrent'
    BY <2>1, <2>2 DEF StoredIsCurrent
  <2> QED
    BY <2>3, <2>4, <2>5, <2>6
<1> QED
  BY <1>1, <1>2

LEMMA EnterKeeps == ASSUME IInv, NEW c \in Threads, Enter(c) PROVE IInv'
<1> USE DEF IInv
<1>1. \A d \in Threads : at'[d] = IF d = c THEN "read" ELSE at[d]
  BY DEF Enter, ReadAgain, TypeOK
<1>2. at[c] = "wait" /\ lock = NoThread /\ lock' = c /\ UNCHANGED <<mine, turn, lost, stored>>
  BY DEF Enter, provider
<1>3. TypeOK'
  BY DEF Enter, ReadAgain, TypeOK, flow, provider
<1>4. \A d \in Threads : at[d] \notin {"send", "keep", "clear"}
  BY <1>2 DEF Holding
<1>5. Holding' /\ Current' /\ SpendsCurrent'
  BY <1>1, <1>2, <1>4 DEF Holding, Current, SpendsCurrent
<1>6. NewGrants'
  BY DEF Enter, NewGrants, Untouched, flow, provider
<1>7. StoredIsCurrent'
  BY <1>1, <1>2 DEF StoredIsCurrent
<1> QED
  BY <1>3, <1>5, <1>6, <1>7

(* Only the thread with the lock spends, so a turn voids what no other     *)
(* thread relies on; and the grant turned is one whose code was spent.     *)
LEMMA SendLandsKeeps == ASSUME IInv, NEW c \in Threads, SendLands(c) PROVE IInv'
<1> USE DEF IInv
<1> DEFINE g == mine[c].grant
<1>1. /\ at[c] = "send" /\ turn[g] < MaxTurns
      /\ turn' = [turn EXCEPT ![g] = @ + 1]
      /\ UNCHANGED <<stored, due, flow, granted, revoked>>
  BY DEF SendLands
<1>2. lock = c /\ mine[c] \in Token /\ g \in Grants
  BY <1>1 DEF Holding, Token
<1>3. \A d \in Threads \ {c} : at[d] \notin {"send", "keep", "clear"} /\ lock # d
  BY <1>2 DEF Holding
<1>4. turn'[g] = turn[g] + 1 /\ \A h \in Grants \ {g} : turn'[h] = turn[h]
  BY <1>1, <1>2 DEF TypeOK
<1>5. turn' \in [Grants -> 0 .. MaxTurns] /\ turn'[g] \in 0 .. MaxTurns
  BY <1>1, <1>2 DEF TypeOK
<1>6. g \in granted /\ (coming = "store" => comes # g)
  BY <1>2 DEF NewGrants, Untouched
<1>7. CASE /\ at' = [at EXCEPT ![c] = "keep"]
           /\ mine' = [mine EXCEPT ![c] = [grant |-> g, turn |-> turn[g] + 1]]
           /\ UNCHANGED <<lock, lost>>
  <2>1. /\ at'[c] = "keep" /\ mine'[c] = [grant |-> g, turn |-> turn[g] + 1]
        /\ \A d \in Threads \ {c} : at'[d] = at[d] /\ mine'[d] = mine[d]
    BY <1>7 DEF TypeOK
  <2>2. mine'[c] \in Token /\ mine'[c].grant = g /\ mine'[c].turn = turn'[g]
    BY <2>1, <1>2, <1>4, <1>5 DEF Token
  <2>3. /\ at' \in [Threads -> {"idle", "read", "expiry", "wait", "send", "keep", "clear"}]
        /\ mine' \in [Threads -> Token \cup {NoToken}]
    BY <1>7, <2>1, <2>2 DEF TypeOK
  <2>4. TypeOK'
    BY <1>1, <1>5, <1>7, <2>3 DEF TypeOK, flow
  <2>5. Holding'
    BY <1>2, <1>7, <2>1, <2>2 DEF Holding
  <2>6. Current' /\ SpendsCurrent'
    BY <1>2, <1>3, <1>7, <2>1, <2>2 DEF Current, SpendsCurrent
  <2>7. \A h \in Grants \ {g} : Untouched(h) => Untouched(h)'
    BY <1>1, <1>4, <2>1, <2>2 DEF Untouched
  <2>8. NewGrants'
    BY <1>1, <1>6, <2>7 DEF NewGrants, flow
  <2>9. StoredIsCurrent'
    <3> SUFFICES ASSUME stored # NoToken, stored.grant \notin lost
                 PROVE  \/ stored.turn = turn'[stored.grant]
                        \/ \E d \in Threads : at'[d] = "keep" /\ mine'[d].grant = stored.grant
      BY <1>1, <1>7 DEF StoredIsCurrent
    <3>1. stored \in Token /\ stored.grant \in Grants
      BY DEF TypeOK, Token
    <3>2. CASE stored.grant = g
      BY <2>1, <2>2, <3>2
    <3>3. CASE stored.grant # g
      BY <1>1, <1>3, <1>4, <3>1, <3>3 DEF StoredIsCurrent
    <3> QED
      BY <3>2, <3>3
  <2> QED
    BY <2>4, <2>5, <2>6, <2>8, <2>9
<1>8. CASE Return(c) /\ lost' = lost \cup {g}
  <2>1. /\ at' \in [Threads -> {"idle", "read", "expiry", "wait", "send", "keep", "clear"}]
        /\ lock' \in Threads \cup {NoThread}
        /\ mine' \in [Threads -> Token \cup {NoToken}]
        /\ Holding'
        /\ at'[c] = "idle" /\ mine'[c] = NoToken
        /\ \A d \in Threads \ {c} : at'[d] = at[d] /\ mine'[d] = mine[d]
        /\ \A d \in Threads : lock' = d => d # c /\ lock = d
    BY <1>8, ReturnKeeps
  <2>2. TypeOK'
    BY <1>1, <1>2, <1>5, <1>8, <2>1 DEF TypeOK, flow
  <2>3. Current' /\ SpendsCurrent'
    BY <1>3, <2>1 DEF Current, SpendsCurrent
  <2>4. \A h \in Grants \ {g} : Untouched(h) => Untouched(h)'
    BY <1>1, <1>4, <2>1 DEF Untouched, NoToken
  <2>5. NewGrants'
    BY <1>1, <1>6, <2>4 DEF NewGrants, flow
  <2>6. StoredIsCurrent'
    <3> SUFFICES ASSUME stored # NoToken, stored.grant \notin lost, stored.grant # g
                 PROVE  stored.turn = turn'[stored.grant]
      BY <1>1, <1>8 DEF StoredIsCurrent
    <3>1. stored.grant \in Grants
      BY DEF TypeOK, Token
    <3>2. \A d \in Threads : at[d] # "keep"
      BY <1>1, <1>3
    <3> QED
      BY <1>4, <3>1, <3>2 DEF StoredIsCurrent
  <2> QED
    BY <2>1, <2>2, <2>3, <2>5, <2>6
<1> QED
  BY <1>7, <1>8 DEF SendLands

LEMMA SendRefusedKeeps == ASSUME IInv, NEW c \in Threads, SendRefused(c) PROVE IInv'
<1> USE DEF IInv
<1>1. /\ at[c] = "send" /\ at' = [at EXCEPT ![c] = "clear"]
      /\ UNCHANGED <<stored, due, lock, mine, flow, provider, lost>>
  BY DEF SendRefused
<1>2. \A d \in Threads : at'[d] = IF d = c THEN "clear" ELSE at[d]
  BY <1>1 DEF TypeOK
<1>3. TypeOK'
  BY <1>1 DEF TypeOK, flow, provider
<1>4. Holding' /\ Current' /\ SpendsCurrent'
  BY <1>1, <1>2 DEF Holding, Current, SpendsCurrent, provider
<1>5. NewGrants'
  BY <1>1 DEF NewGrants, Untouched, flow, provider
<1>6. StoredIsCurrent'
  BY <1>1, <1>2 DEF StoredIsCurrent, provider
<1> QED
  BY <1>3, <1>4, <1>5, <1>6

(* The answer of a refresh is current until the lock is released, whatever *)
(* was stored meanwhile.                                                   *)
LEMMA KeepAnswerKeeps == ASSUME IInv, NEW c \in Threads, KeepAnswer(c) PROVE IInv'
<1> USE DEF IInv
<1>1. /\ at[c] = "keep" /\ stored' = mine[c] /\ due' = FALSE /\ Return(c)
      /\ UNCHANGED <<flow, provider, lost>>
  BY DEF KeepAnswer, Written
<1>2. /\ at' \in [Threads -> {"idle", "read", "expiry", "wait", "send", "keep", "clear"}]
      /\ lock' \in Threads \cup {NoThread}
      /\ mine' \in [Threads -> Token \cup {NoToken}]
      /\ Holding'
      /\ at'[c] = "idle" /\ mine'[c] = NoToken
      /\ \A d \in Threads \ {c} : at'[d] = at[d] /\ mine'[d] = mine[d]
      /\ \A d \in Threads : lock' = d => d # c /\ lock = d
  BY <1>1, ReturnKeeps
<1>3. stored' \in Token /\ stored'.turn = turn[stored'.grant]
  BY <1>1 DEF Holding, Current
<1>4. due' \in BOOLEAN
  BY <1>1
<1>5. TypeOK'
  BY <1>1, <1>2, <1>3, <1>4 DEF TypeOK, flow, provider
<1>6. Current' /\ SpendsCurrent'
  BY <1>1, <1>2 DEF Current, SpendsCurrent, provider
<1>7. NewGrants'
  BY <1>1, <1>2 DEF NewGrants, Untouched, flow, provider, NoToken
<1>8. StoredIsCurrent'
  BY <1>1, <1>3 DEF StoredIsCurrent, provider
<1> QED
  BY <1>2, <1>5, <1>6, <1>7, <1>8

LEMMA ClearRefusedKeeps == ASSUME IInv, NEW c \in Threads, ClearRefused(c) PROVE IInv'
<1> USE DEF IInv
<1>1. /\ at[c] = "clear" /\ stored' = NoToken /\ due' = FALSE /\ Return(c)
      /\ UNCHANGED <<flow, provider, lost>>
  BY DEF ClearRefused, Cleared
<1>2. /\ at' \in [Threads -> {"idle", "read", "expiry", "wait", "send", "keep", "clear"}]
      /\ lock' \in Threads \cup {NoThread}
      /\ mine' \in [Threads -> Token \cup {NoToken}]
      /\ Holding'
      /\ at'[c] = "idle" /\ mine'[c] = NoToken
      /\ \A d \in Threads \ {c} : at'[d] = at[d] /\ mine'[d] = mine[d]
      /\ \A d \in Threads : lock' = d => d # c /\ lock = d
  BY <1>1, ReturnKeeps
<1>3. due' \in BOOLEAN
  BY <1>1
<1>4. TypeOK'
  BY <1>1, <1>2, <1>3 DEF TypeOK, flow, provider
<1>5. Current' /\ SpendsCurrent'
  BY <1>1, <1>2 DEF Current, SpendsCurrent, provider
<1>6. NewGrants'
  BY <1>1, <1>2 DEF NewGrants, Untouched, flow, provider, NoToken
<1>7. StoredIsCurrent'
  BY <1>1 DEF StoredIsCurrent
<1> QED
  BY <1>2, <1>4, <1>5, <1>6, <1>7

LEMMA ExchangeLandsKeeps == ASSUME IInv, ExchangeLands PROVE IInv'
<1> USE DEF IInv
<1>1. /\ coming = "exchange" /\ comes \notin granted
      /\ granted' = granted \cup {comes}
      /\ \/ coming' = "store" /\ comes' = comes
         \/ coming' = "idle" /\ comes' = NoGrant
      /\ UNCHANGED <<stored, due, lock, at, mine, pending, begun, turn, revoked, lost>>
  BY DEF ExchangeLands, thread
<1>2. comes \in Grants /\ Untouched(comes)
  BY <1>1 DEF NewGrants
<1>3. TypeOK'
  BY <1>1, <1>2 DEF TypeOK
<1>4. Holding' /\ Current' /\ SpendsCurrent' /\ StoredIsCurrent'
  BY <1>1 DEF Holding, Current, SpendsCurrent, StoredIsCurrent
<1>5. \A h \in Grants : Untouched(h) => Untouched(h)'
  BY <1>1 DEF Untouched
<1>6. NewGrants'
  BY <1>1, <1>2, <1>5 DEF NewGrants
<1> QED
  BY <1>3, <1>4, <1>6

(* The tokens of a new grant are current, since nobody has seen them.      *)
LEMMA StoreNewKeeps == ASSUME IInv, StoreNew PROVE IInv'
<1> USE DEF IInv
<1>1. /\ coming = "store" /\ coming' = "finish" /\ comes' = comes
      /\ stored' = [grant |-> comes, turn |-> 0] /\ due' = FALSE
      /\ UNCHANGED <<lock, at, mine, pending, begun, granted, turn, revoked, lost>>
  BY DEF StoreNew, thread, provider
<1>2. comes \in granted /\ comes \in Grants /\ turn[comes] = 0
  BY <1>1 DEF NewGrants, Untouched
<1>3. stored' \in Token
  BY <1>1, <1>2 DEF Token
<1>4. due' \in BOOLEAN
  BY <1>1
<1>5. TypeOK'
  BY <1>1, <1>2, <1>3, <1>4 DEF TypeOK
<1>6. Holding' /\ Current' /\ SpendsCurrent'
  BY <1>1 DEF Holding, Current, SpendsCurrent
<1>7. NewGrants'
  BY <1>1, <1>2 DEF NewGrants, Untouched
<1>8. StoredIsCurrent'
  BY <1>1, <1>2 DEF StoredIsCurrent
<1> QED
  BY <1>5, <1>6, <1>7, <1>8

LEMMA DisconnectKeeps == ASSUME IInv, Disconnect PROVE IInv'
<1> USE DEF IInv
<1>1. /\ stored' = NoToken /\ due' = FALSE /\ pending' = NoGrant
      /\ UNCHANGED <<lock, at, mine, coming, comes, begun, granted, turn, revoked, lost>>
  BY DEF Disconnect, Cleared, thread, provider
<1>2. due' \in BOOLEAN
  BY <1>1
<1>3. TypeOK'
  BY <1>1, <1>2 DEF TypeOK
<1>4. Holding' /\ Current' /\ SpendsCurrent' /\ StoredIsCurrent'
  BY <1>1 DEF Holding, Current, SpendsCurrent, StoredIsCurrent
<1>5. NewGrants'
  BY <1>1 DEF NewGrants, Untouched, NoToken
<1> QED
  BY <1>3, <1>4, <1>5

(* An answer in hand when the process ends is lost with it. *)
LEMMA RestartKeeps == ASSUME IInv, Restart PROVE IInv'
<1> USE DEF IInv
<1>1. /\ lost' = lost \cup {mine[c].grant : c \in {d \in Threads : at[d] = "keep"}}
      /\ lock' = NoThread
      /\ at' = [c \in Threads |-> "idle"]
      /\ mine' = [c \in Threads |-> NoToken]
      /\ pending' = NoGrant /\ coming' = "idle" /\ comes' = NoGrant
      /\ UNCHANGED <<stored, due, begun, granted, turn, revoked>>
  BY DEF Restart, provider
<1>2. \A d \in Threads : at'[d] = "idle" /\ mine'[d] = NoToken /\ lock' # d
  BY <1>1
<1>3. \A d \in Threads : at[d] = "keep" => mine[d].grant \in Grants \cap lost'
  BY <1>1 DEF Holding, Token
<1>4. lost' \in SUBSET Grants
  BY <1>1, <1>3 DEF TypeOK
<1>5. TypeOK'
  BY <1>1, <1>4 DEF TypeOK
<1>6. Holding' /\ Current' /\ SpendsCurrent'
  BY <1>2 DEF Holding, Current, SpendsCurrent
<1>7. NewGrants'
  BY <1>1, <1>2 DEF NewGrants, Untouched, NoToken
<1>8. StoredIsCurrent'
  BY <1>1, <1>3 DEF StoredIsCurrent
<1> QED
  BY <1>5, <1>6, <1>7, <1>8

-----------------------------------------------------------------------------
LEMMA ConnNext == IInv /\ [Next]_vars => IInv'
<1> SUFFICES ASSUME IInv, [Next]_vars PROVE IInv'
  OBVIOUS
<1>1. ASSUME NEW c \in Threads, Ask(c) \/ Answering(c) PROVE IInv'
  <2>1. CASE Ask(c)
    BY <2>1, AskKeeps
  <2>2. CASE ReadTokens(c)
    BY <2>2, ReadTokensKeeps
  <2>3. CASE ReadExpiry(c)
    BY <2>3, ReadExpiryKeeps
  <2>4. CASE Enter(c)
    BY <2>4, EnterKeeps
  <2>5. CASE SendLands(c)
    BY <2>5, SendLandsKeeps
  <2>6. CASE SendRefused(c)
    BY <2>6, SendRefusedKeeps
  <2>7. CASE SendFails(c)
    <3>1. /\ at[c] # "keep" /\ Return(c)
          /\ UNCHANGED <<stored, due, flow, provider, lost>>
      BY <2>7 DEF SendFails
    <3> QED
      BY <3>1, ReturnAlone
  <2>8. CASE KeepAnswer(c)
    BY <2>8, KeepAnswerKeeps
  <2>9. CASE ClearRefused(c)
    BY <2>9, ClearRefusedKeeps
  <2> QED
    BY <1>1, <2>1, <2>2, <2>3, <2>4, <2>5, <2>6, <2>7, <2>8, <2>9 DEF Answering
<1>2. ASSUME NEW g \in Grants, Start(g) PROVE IInv'
  <2>1. TypeOK'
    BY <1>2 DEF IInv, TypeOK, Start, thread, provider
  <2> QED
    BY <1>2, <2>1, FlowKeeps DEF IInv, NewGrants, Start, thread, provider
<1>3. CASE Callback
  <2>1. TypeOK' /\ comes' \in Grants
    BY <1>3 DEF IInv, TypeOK, Callback, thread, provider
  <2> QED
    BY <1>3, <2>1, FlowKeeps DEF Callback, thread, provider
<1>4. CASE ExchangeLands
  BY <1>4, ExchangeLandsKeeps
<1>5. CASE ExchangeFails
  <2>1. TypeOK'
    BY <1>5 DEF IInv, TypeOK, ExchangeFails, thread, provider
  <2> QED
    BY <1>5, <2>1, FlowKeeps DEF IInv, NewGrants, ExchangeFails, thread, provider
<1>6. CASE StoreNew
  BY <1>6, StoreNewKeeps
<1>7. CASE FinishCallback
  <2>1. TypeOK'
    BY <1>7 DEF IInv, TypeOK, FinishCallback, thread, provider
  <2> QED
    BY <1>7, <2>1, FlowKeeps DEF FinishCallback, thread, provider
<1>8. CASE Cancel
  <2>1. TypeOK'
    BY <1>8 DEF IInv, TypeOK, Cancel, thread, provider
  <2> QED
    BY <1>8, <2>1, FlowKeeps DEF IInv, NewGrants, Cancel, thread, provider
<1>9. CASE Disconnect
  BY <1>9, DisconnectKeeps
<1>10. CASE TimePasses
  <2>1. due' \in BOOLEAN
    BY <1>10 DEF TimePasses
  <2>2. TypeOK'
    BY <1>10, <2>1 DEF IInv, TypeOK, TimePasses, thread, flow, provider
  <2> QED
    BY <1>10, <2>2, FlowKeeps DEF IInv, NewGrants, TimePasses, flow, provider
<1>11. ASSUME NEW g \in Grants, Revoke(g) PROVE IInv'
  <2>1. TypeOK'
    BY <1>11 DEF IInv, TypeOK, Revoke, thread, flow
  <2> QED
    BY <1>11, <2>1, FlowKeeps DEF IInv, NewGrants, Revoke, flow
<1>12. CASE Restart
  BY <1>12, RestartKeeps
<1>13. CASE UNCHANGED vars
  <2> USE <1>13 DEF vars, thread, flow, provider
  <2>1. TypeOK' /\ Holding' /\ Current'
    BY DEF IInv, TypeOK, Holding, Current
  <2>2. NewGrants' /\ SpendsCurrent' /\ StoredIsCurrent'
    BY DEF IInv, NewGrants, Untouched, SpendsCurrent, StoredIsCurrent
  <2> QED
    BY <2>1, <2>2 DEF IInv
<1> QED
  BY <1>1, <1>2, <1>3, <1>4, <1>5, <1>6, <1>7, <1>8, <1>9, <1>10, <1>11, <1>12, <1>13
     DEF Next, Routes, Outside

(* The invariant of the connection holds for any number of threads, grants *)
(* and refreshes: who holds the lock holds tokens that are current, and an *)
(* answer in hand is the current token of its grant (oauth.refresh).       *)
THEOREM ConnectionInvariant == Spec => []IInv
<1> QED
  BY ConnInit, ConnNext, PTL DEF Spec

(* No refresh token is spent twice (the reason given for _refresh_lock):   *)
(* unless an answer of that grant was lost, what is sent is what CivitAI   *)
(* expects, however threads, routes and restarts interleave.               *)
THEOREM TokenSpentOnce == Spec => []SpendsCurrent
<1>1. IInv => SpendsCurrent
  BY DEF IInv
<1> QED
  BY <1>1, ConnectionInvariant, PTL

(* The stored refresh token is the one CivitAI will take, or the answer    *)
(* that replaces it has arrived and is about to be stored (oauth._store).  *)
THEOREM StoredTokenCurrent == Spec => []StoredIsCurrent
<1>1. IInv => StoredIsCurrent
  BY DEF IInv
<1> QED
  BY <1>1, ConnectionInvariant, PTL

(* Every reachable state is well typed: the connection is stored whole or  *)
(* not at all, and nobody holds the lock who does not exist.               *)
THEOREM TypeCorrect == Spec => []TypeOK
<1>1. IInv => TypeOK
  BY DEF IInv
<1> QED
  BY <1>1, ConnectionInvariant, PTL
=============================================================================
