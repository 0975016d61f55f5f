---------------------------- MODULE SuggestProofs ----------------------------
(***************************************************************************)
(* The model's worker (llm/service.py, llm/worker.py): at most one process *)
(* lives, and an answer reaches the call that asked for it, however late   *)
(* it comes and whoever has given up waiting.                              *)
(***************************************************************************)
EXTENDS Suggest, TLAPS, FiniteSetTheorems, SequenceTheorems

-----------------------------------------------------------------------------
(* One model: the lock tells whose process may be alive.                   *)

(* Only the holder of the lock loads or stops a process; a process that    *)
(* is alive is the known worker, or the one being loaded.                  *)
Guarded ==
  /\ guard = Loading <=> run.stage = "loading"
  /\ \A s \in Stoppers : stopper[s].stage = "stopping" => guard = s
  /\ Alive \subseteq IF guard = Loading THEN {run.worker} ELSE {worker}

(* A batch past its load, and a call that has not ended, have a process.   *)
HasWorker ==
  /\ run.stage \in {"loading", "ask", "wait"} => run.worker \in Loads
  /\ \A c \in Calls : call[c].stage \in {"lock", "sent"} => call[c].worker \in Loads

-----------------------------------------------------------------------------
(* Each answer to its call: the numbers of a process are given out once.   *)
Elements(s) == {s[i] : i \in DOMAIN s}
Held(p) == Elements(p.asked) \cup Elements(p.said)

Numbered == \A n \in Loads : \A m \in Held(proc[n]) : m.id \in 0 .. proc[n].ids

OwnNumber ==
  \A c \in Calls : call[c].stage = "sent" =>
    /\ call[c].id \in 1 .. proc[call[c].worker].ids
    /\ \A m \in Held(proc[call[c].worker]) : m.id = call[c].id => m.of = c

SuggestInv == SuggestTypeOK /\ Guarded /\ HasWorker /\ Numbered /\ OwnNumber /\ AnswersItsCall

LEMMA SuggestStarts == SuggestInit => SuggestInv
<1> SUFFICES ASSUME SuggestInit PROVE SuggestInv
  OBVIOUS
<1> USE DEF SuggestInit
<1>1. Fresh \in Process /\ NoRun \in Batch /\ NotCalled \in Thread /\ AtRest \in Stopping
  BY SuggestAssumption DEF Fresh, NoRun, NotCalled, AtRest, Process, Batch, Thread, Stopping
<1>2. SuggestTypeOK
  <2>1. worker \in Loads \cup {NoWorker} /\ guard \in {Free, Loading} \cup Stoppers
    OBVIOUS
  <2>2. proc \in [Loads -> Process] /\ run \in Batch
    BY <1>1
  <2>3. call \in [Calls -> Thread] /\ stopper \in [Stoppers -> Stopping]
    BY <1>1
  <2>4. cancelled \in BOOLEAN
    BY Zenon
  <2>5. runs \in 0 .. MaxRuns /\ stops \in 0 .. MaxStops
    BY SuggestAssumption
  <2>6. QED
    BY <2>1, <2>2, <2>3, <2>4, <2>5 DEF SuggestTypeOK
<1>3. Guarded
  BY SuggestAssumption DEF Guarded, Alive, Free, Loading, NoRun, Fresh, AtRest
<1>4. \A n \in Loads : Held(proc[n]) = {} /\ proc[n].ids = 0
  BY DEF Held, Elements, Fresh
<1>5. HasWorker /\ Numbered /\ OwnNumber /\ AnswersItsCall
  BY <1>4 DEF HasWorker, Numbered, OwnNumber, AnswersItsCall, NoRun, NotCalled
<1>6. QED
  BY <1>2, <1>3, <1>5 DEF SuggestInv

-----------------------------------------------------------------------------
(* What a queue holds.                                                     *)
LEMMA QueueHolds ==
  ASSUME NEW S, NEW s \in Seq(S)
  PROVE  /\ Elements(s) \subseteq S
         /\ \A x : Elements(Append(s, x)) = Elements(s) \cup {x}
         /\ s # <<>> => Head(s) \in Elements(s) /\ Elements(Tail(s)) \subseteq Elements(s)
<1>1. Elements(s) \subseteq S
  BY DEF Elements
<1>2. ASSUME NEW x PROVE Elements(Append(s, x)) = Elements(s) \cup {x}
  <2>1. DOMAIN s = 1 .. Len(s) /\ DOMAIN Append(s, x) = 1 .. (Len(s) + 1) /\ Len(s) \in Nat
    OBVIOUS
  <2>2. Append(s, x)[Len(s) + 1] = x /\ \A i \in 1 .. Len(s) : Append(s, x)[i] = s[i]
    OBVIOUS
  <2>3. Elements(Append(s, x)) \subseteq Elements(s) \cup {x}
    BY <2>1, <2>2 DEF Elements
  <2>4. Elements(s) \subseteq Elements(Append(s, x))
    BY <2>1, <2>2 DEF Elements
  <2>5. x \in Elements(Append(s, x))
    BY <2>1, <2>2 DEF Elements
  <2>6. QED
    BY <2>3, <2>4, <2>5
<1>3. ASSUME s # <<>> PROVE Head(s) \in Elements(s) /\ Elements(Tail(s)) \subseteq Elements(s)
  <2>1. DOMAIN s = 1 .. Len(s) /\ Len(s) \in Nat \ {0} /\ Head(s) = s[1]
    BY <1>3
  <2>2. DOMAIN Tail(s) = 1 .. (Len(s) - 1) /\ \A i \in 1 .. (Len(s) - 1) : Tail(s)[i] = s[i + 1]
    BY <1>3
  <2>3. QED
    BY <2>1, <2>2 DEF Elements
<1>4. QED
  BY <1>1, <1>2, <1>3

(* A message, once sent, keeps its number and its call; the end of a       *)
(* process adds a message that carries no number.                          *)
Carried ==
  /\ \A n \in Loads :
       /\ proc'[n].ids >= proc[n].ids
       /\ \A m \in Held(proc'[n]) : m = Closed \/ \E o \in Held(proc[n]) : m.id = o.id /\ m.of = o.of
  /\ \A c \in Calls : call'[c].stage = "sent" =>
       call[c].stage = "sent" /\ call'[c].worker = call[c].worker /\ call'[c].id = call[c].id

LEMMA CarriedNumbers ==
  ASSUME SuggestInv, SuggestTypeOK', Carried
  PROVE  Numbered' /\ OwnNumber'
<1>1. \A n \in Loads : proc[n].ids \in Nat /\ proc'[n].ids \in Nat
  BY DEF SuggestInv, SuggestTypeOK, Process
<1>2. Numbered'
  <2> SUFFICES ASSUME NEW n \in Loads, NEW m \in Held(proc'[n]) PROVE m.id \in 0 .. proc'[n].ids
    BY DEF Numbered
  <2>1. m = Closed \/ \E o \in Held(proc[n]) : m.id = o.id
    BY DEF Carried
  <2>2. \A o \in Held(proc[n]) : o.id \in 0 .. proc[n].ids
    BY DEF SuggestInv, Numbered
  <2>3. proc'[n].ids >= proc[n].ids
    BY DEF Carried
  <2>4. QED
    BY <1>1, <2>1, <2>2, <2>3 DEF Closed
<1>3. OwnNumber'
  <2> SUFFICES ASSUME NEW c \in Calls, call'[c].stage = "sent"
               PROVE  /\ call'[c].id \in 1 .. proc'[call'[c].worker].ids
                      /\ \A m \in Held(proc'[call'[c].worker]) : m.id = call'[c].id => m.of = c
    BY DEF OwnNumber
  <2>1. call[c].stage = "sent" /\ call'[c].worker = call[c].worker /\ call'[c].id = call[c].id
    BY DEF Carried
  <2>2. PICK n \in Loads : n = call[c].worker
    BY <2>1 DEF SuggestInv, HasWorker
  <2>3. call[c].id \in 1 .. proc[n].ids /\ \A m \in Held(proc[n]) : m.id = call[c].id => m.of = c
    BY <2>1, <2>2 DEF SuggestInv, OwnNumber
  <2>4. call[c].id \in 1 .. proc'[n].ids
    BY <1>1, <2>3 DEF Carried
  <2>5. \A m \in Held(proc'[n]) : m.id = call[c].id => m.of = c
    BY <1>1, <2>3 DEF Carried, Closed
  <2>6. QED
    BY <2>1, <2>2, <2>4, <2>5
<1>4. QED
  BY <1>2, <1>3

-----------------------------------------------------------------------------
(* What each change of a process, of the batch and of a call leaves.       *)
LEMMA StageSet ==
  ASSUME SuggestTypeOK, NEW n \in Loads, NEW stage \in {"up", "closing", "down"},
         proc' = [proc EXCEPT ![n].stage = stage]
  PROVE  /\ proc' \in [Loads -> Process]
         /\ proc'[n].stage = stage /\ proc'[n].ids = proc[n].ids /\ proc'[n].asked = proc[n].asked
         /\ proc'[n].said = proc[n].said
         /\ \A m \in Loads \ {n} : proc'[m] = proc[m]
<1>1. proc[n] \in Process
  BY DEF SuggestTypeOK
<1>2. PICK p : p = [proc[n] EXCEPT !.stage = stage]
  OBVIOUS
<1>3. /\ p \in Process /\ p.stage = stage /\ p.ids = proc[n].ids /\ p.asked = proc[n].asked
      /\ p.said = proc[n].said
  BY <1>1, <1>2 DEF Process
<1>4. proc' = [proc EXCEPT ![n] = p]
  BY <1>2
<1>5. QED
  BY <1>3, <1>4 DEF SuggestTypeOK

(* Its input is thrown away and its end is told.                           *)
LEMMA Ceased ==
  ASSUME SuggestTypeOK, NEW n \in Loads,
         proc' = [proc EXCEPT ![n].stage = "down", ![n].asked = <<>>, ![n].said = Append(@, Closed)]
  PROVE  /\ proc' \in [Loads -> Process]
         /\ proc'[n].stage = "down" /\ proc'[n].ids = proc[n].ids
         /\ \A m \in Held(proc'[n]) : m = Closed \/ m \in Held(proc[n])
         /\ \A m \in Loads \ {n} : proc'[m] = proc[m]
<1>1. proc[n] \in Process
  BY DEF SuggestTypeOK
<1>2. PICK s : s = Append(proc[n].said, Closed)
  OBVIOUS
<1>3. s \in Seq(Message \cup {Closed}) /\ Elements(s) = Elements(proc[n].said) \cup {Closed}
  <2>1. proc[n].said \in Seq(Message \cup {Closed})
    BY <1>1 DEF Process
  <2>2. Closed \in Message \cup {Closed}
    OBVIOUS
  <2>3. QED
    BY <1>2, <2>1, <2>2, QueueHolds
<1>4. PICK p : p = [stage |-> "down", asked |-> <<>>, said |-> s, ids |-> proc[n].ids,
                    lock |-> proc[n].lock]
  OBVIOUS
<1>5. p \in Process
  <2>1. <<>> \in Seq(Message)
    OBVIOUS
  <2>2. QED
    BY <1>1, <1>3, <1>4, <2>1 DEF Process
<1>6. proc'[n] = p
  BY <1>1, <1>2, <1>4 DEF SuggestTypeOK, Process
<1>7. proc' \in [Loads -> Process] /\ \A m \in Loads \ {n} : proc'[m] = proc[m]
  BY <1>5, <1>6 DEF SuggestTypeOK
<1>8. Elements(p.asked) = {}
  BY <1>4 DEF Elements
<1>9. \A m \in Held(p) : m = Closed \/ m \in Held(proc[n])
  BY <1>3, <1>4, <1>8 DEF Held
<1>10. QED
  BY <1>4, <1>6, <1>7, <1>9

(* A message joins its input, with a new number.                           *)
LEMMA Asked ==
  ASSUME SuggestTypeOK, NEW n \in Loads, NEW c \in Calls, NEW id \in Nat, NEW x \in Message,
         proc' = [proc EXCEPT ![n].ids = id, ![n].lock = c, ![n].asked = Append(@, x)]
  PROVE  /\ proc' \in [Loads -> Process]
         /\ proc'[n].stage = proc[n].stage /\ proc'[n].ids = id
         /\ \A m \in Held(proc'[n]) : m \in Held(proc[n]) \/ m = x
         /\ \A m \in Loads \ {n} : proc'[m] = proc[m]
<1>1. proc[n] \in Process
  BY DEF SuggestTypeOK, Process
<1>4. PICK s : s = Append(proc[n].asked, x)
  OBVIOUS
<1>5. s \in Seq(Message) /\ Elements(s) = Elements(proc[n].asked) \cup {x}
  <2>1. proc[n].asked \in Seq(Message)
    BY <1>1 DEF Process
  <2>2. QED
    BY <1>4, <2>1, QueueHolds
<1>6. PICK p : p = [stage |-> proc[n].stage, asked |-> s, said |-> proc[n].said, ids |-> id, lock |-> c]
  OBVIOUS
<1>7. p \in Process
  BY <1>1, <1>5, <1>6 DEF Process
<1>9. proc'[n] = p
  BY <1>1, <1>4, <1>6 DEF SuggestTypeOK, Process
<1>10. proc' \in [Loads -> Process] /\ \A m \in Loads \ {n} : proc'[m] = proc[m]
  BY <1>7, <1>9 DEF SuggestTypeOK
<1>11. \A m \in Held(p) : m \in Held(proc[n]) \/ m = x
  BY <1>5, <1>6 DEF Held
<1>12. QED
  BY <1>6, <1>9, <1>10, <1>11

(* A message leaves the queue of answers.                                  *)
LEMMA Heard ==
  ASSUME SuggestTypeOK, NEW n \in Loads, NEW lock \in Calls \cup {NoCall}, proc[n].said # <<>>,
         proc' = [proc EXCEPT ![n].said = Tail(@), ![n].lock = lock]
  PROVE  /\ proc' \in [Loads -> Process]
         /\ proc'[n].stage = proc[n].stage /\ proc'[n].ids = proc[n].ids
         /\ Held(proc'[n]) \subseteq Held(proc[n])
         /\ \A m \in Loads \ {n} : proc'[m] = proc[m]
<1>1. proc[n] \in Process
  BY DEF SuggestTypeOK
<1>2. PICK s : s = Tail(proc[n].said)
  OBVIOUS
<1>3. s \in Seq(Message \cup {Closed}) /\ Elements(s) \subseteq Elements(proc[n].said)
  <2>1. proc[n].said \in Seq(Message \cup {Closed})
    BY <1>1 DEF Process
  <2>2. QED
    BY <1>2, <2>1, QueueHolds
<1>4. PICK p : p = [stage |-> proc[n].stage, asked |-> proc[n].asked, said |-> s,
                    ids |-> proc[n].ids, lock |-> lock]
  OBVIOUS
<1>5. p \in Process
  BY <1>1, <1>3, <1>4 DEF Process
<1>6. proc'[n] = p
  BY <1>1, <1>2, <1>4 DEF SuggestTypeOK, Process
<1>7. proc' \in [Loads -> Process] /\ \A m \in Loads \ {n} : proc'[m] = proc[m]
  BY <1>5, <1>6 DEF SuggestTypeOK
<1>8. Held(p) \subseteq Held(proc[n])
  BY <1>3, <1>4 DEF Held
<1>9. QED
  BY <1>4, <1>6, <1>7, <1>8

(* A request becomes the answer to it.                                     *)
LEMMA Told ==
  ASSUME SuggestTypeOK, NEW n \in Loads, NEW good \in BOOLEAN, proc[n].asked # <<>>,
         proc' = [proc EXCEPT ![n].asked = Tail(@),
                              ![n].said = Append(@, [Head(proc[n].asked) EXCEPT !.good = good])]
  PROVE  /\ proc' \in [Loads -> Process]
         /\ proc'[n].stage = proc[n].stage /\ proc'[n].ids = proc[n].ids
         /\ \A m \in Held(proc'[n]) : \E o \in Held(proc[n]) : m.id = o.id /\ m.of = o.of
         /\ \A m \in Loads \ {n} : proc'[m] = proc[m]
<1>1. proc[n] \in Process /\ proc[n].asked \in Seq(Message)
  BY DEF SuggestTypeOK, Process
<1>2. PICK o : o = Head(proc[n].asked)
  OBVIOUS
<1>3. o \in Message /\ o \in Elements(proc[n].asked)
  BY <1>1, <1>2, QueueHolds
<1>4. PICK x : x = [o EXCEPT !.good = good]
  OBVIOUS
<1>5. x \in Message /\ x.id = o.id /\ x.of = o.of
  BY <1>3, <1>4 DEF Message
<1>6. PICK s : s = Append(proc[n].said, x)
  OBVIOUS
<1>7. s \in Seq(Message \cup {Closed}) /\ Elements(s) = Elements(proc[n].said) \cup {x}
  <2>1. proc[n].said \in Seq(Message \cup {Closed})
    BY <1>1 DEF Process
  <2>2. QED
    BY <1>5, <1>6, <2>1, QueueHolds
<1>8. PICK a : a = Tail(proc[n].asked)
  OBVIOUS
<1>9. a \in Seq(Message) /\ Elements(a) \subseteq Elements(proc[n].asked)
  BY <1>1, <1>8, QueueHolds
<1>10. PICK p : p = [stage |-> proc[n].stage, asked |-> a, said |-> s, ids |-> proc[n].ids,
                     lock |-> proc[n].lock]
  OBVIOUS
<1>11. p \in Process
  BY <1>1, <1>7, <1>9, <1>10 DEF Process
<1>12. proc' = [proc EXCEPT ![n].asked = Tail(@), ![n].said = Append(@, x)]
  BY <1>2, <1>4
<1>13. proc'[n] = p
  BY <1>1, <1>6, <1>8, <1>10, <1>12 DEF SuggestTypeOK, Process
<1>14. proc' \in [Loads -> Process] /\ \A m \in Loads \ {n} : proc'[m] = proc[m]
  BY <1>11, <1>12, <1>13 DEF SuggestTypeOK
<1>15. \A m \in Held(p) : m = x \/ m \in Held(proc[n])
  BY <1>7, <1>9, <1>10 DEF Held
<1>16. o \in Held(proc[n])
  BY <1>3 DEF Held
<1>17. QED
  BY <1>5, <1>10, <1>13, <1>14, <1>15, <1>16

(* The lock of generate, or the number of a request that was not written.  *)
LEMMA Unwritten ==
  ASSUME SuggestTypeOK, NEW n \in Loads,
         \/ proc' = [proc EXCEPT ![n].lock = NoCall]
         \/ proc' = [proc EXCEPT ![n].ids = proc[n].ids + 1]
  PROVE  /\ proc' \in [Loads -> Process]
         /\ proc'[n].stage = proc[n].stage /\ proc'[n].ids >= proc[n].ids
         /\ Held(proc'[n]) = Held(proc[n])
         /\ \A m \in Loads \ {n} : proc'[m] = proc[m]
<1>1. proc[n] \in Process
  BY DEF SuggestTypeOK
<1>2. \E p \in {[proc[n] EXCEPT !.lock = NoCall], [proc[n] EXCEPT !.ids = proc[n].ids + 1]} :
        proc' = [proc EXCEPT ![n] = p]
  OBVIOUS
<1>3. PICK p \in {[proc[n] EXCEPT !.lock = NoCall], [proc[n] EXCEPT !.ids = proc[n].ids + 1]} :
        proc' = [proc EXCEPT ![n] = p]
  BY <1>2
<1>4. /\ p \in Process /\ p.stage = proc[n].stage /\ p.ids >= proc[n].ids
      /\ p.asked = proc[n].asked /\ p.said = proc[n].said
  BY <1>1, <1>3 DEF Process
<1>5. Held(p) = Held(proc[n])
  BY <1>4 DEF Held
<1>6. proc' \in [Loads -> Process] /\ proc'[n] = p /\ \A m \in Loads \ {n} : proc'[m] = proc[m]
  BY <1>3, <1>4 DEF SuggestTypeOK
<1>7. QED
  BY <1>4, <1>5, <1>6

(* A call that is over.                                                    *)
LEMMA EndedCall ==
  ASSUME SuggestTypeOK, NEW c \in Calls, NEW stage \in {"answered", "failed"},
         NEW answer \in Calls \cup {NoCall}, stage = "answered" => answer = c,
         Ended(c, stage, answer)
  PROVE  /\ call' \in [Calls -> Thread]
         /\ call'[c].stage \in {"off", "answered", "failed"}
         /\ call'[c].stage = "answered" => call'[c].answer = c
         /\ \A d \in Calls \ {c} : call'[d] = call[d]
<1>1. call[c] \in Thread
  BY DEF SuggestTypeOK
<1>2. PICK t : t = IF Awaited(c) THEN [call[c] EXCEPT !.stage = stage, !.answer = answer]
                   ELSE NotCalled
  OBVIOUS
<1>3. /\ t \in Thread /\ t.stage \in {"off", "answered", "failed"}
      /\ t.stage = "answered" => t.answer = c
  BY <1>1, <1>2 DEF Thread, NotCalled
<1>4. call' = [call EXCEPT ![c] = t]
  BY <1>2 DEF Ended
<1>5. QED
  BY <1>3, <1>4 DEF SuggestTypeOK

(* The batch moves on.                                                     *)
LEMMA BatchMoves ==
  ASSUME NEW r \in Batch
  PROVE  /\ \A stage \in {"load", "loading", "ask", "wait", "release", "releasing"},
               w \in Loads \cup {NoWorker} : \A q :
              \/ q = [r EXCEPT !.stage = stage, !.worker = w]
              \/ q = [r EXCEPT !.stage = stage] /\ w = r.worker
              => q \in Batch /\ q.stage = stage /\ q.worker = w
         /\ \A abandoned \in BOOLEAN : \A q : q = [r EXCEPT !.stage = "release", !.abandoned = abandoned]
              => q \in Batch /\ q.stage = "release"
         /\ \A q \in {[r EXCEPT !.failed = @ + 1], [r EXCEPT !.good = @ + 1]} :
              q \in Batch /\ q.worker = r.worker
         /\ Onward(r) \in Batch
         /\ Onward(r).stage \in {"ask", "release"} /\ Onward(r).worker = r.worker
<1>1. ASSUME NEW stage \in {"load", "loading", "ask", "wait", "release", "releasing"},
             NEW w \in Loads \cup {NoWorker}, NEW q,
             \/ q = [r EXCEPT !.stage = stage, !.worker = w]
             \/ q = [r EXCEPT !.stage = stage] /\ w = r.worker
      PROVE  q \in Batch /\ q.stage = stage /\ q.worker = w
  BY <1>1 DEF Batch
<1>2. ASSUME NEW abandoned \in BOOLEAN, NEW q, q = [r EXCEPT !.stage = "release", !.abandoned = abandoned]
      PROVE  q \in Batch /\ q.stage = "release"
  BY <1>2 DEF Batch
<1>3. \A q \in {[r EXCEPT !.failed = @ + 1], [r EXCEPT !.good = @ + 1]} : q \in Batch /\ q.worker = r.worker
  BY DEF Batch
<1>4. CASE r.item = Items \/ GivesUp(r)
  <2>1. Onward(r) = [r EXCEPT !.stage = "release"]
    BY <1>4 DEF Onward
  <2>2. Onward(r) \in Batch /\ Onward(r).stage = "release" /\ Onward(r).worker = r.worker
    BY <2>1 DEF Batch
  <2>3. QED
    BY <1>1, <1>2, <1>3, <2>1, <2>2
<1>5. CASE r.item # Items /\ ~GivesUp(r)
  <2>1. Onward(r) = [r EXCEPT !.stage = "ask", !.item = @ + 1]
    BY <1>5 DEF Onward
  <2>2. r.item + 1 \in 1 .. Items
    BY <1>5, SuggestAssumption DEF Batch
  <2>3. Onward(r) \in Batch /\ Onward(r).stage = "ask" /\ Onward(r).worker = r.worker
    BY <2>1, <2>2 DEF Batch
  <2>4. QED
    BY <1>1, <1>2, <1>3, <2>3
<1>6. QED
  BY <1>4, <1>5

-----------------------------------------------------------------------------
LEMMA Locks ==
  Free \notin Stoppers /\ Loading \notin Stoppers /\ Free # Loading
  BY SuggestAssumption DEF Free, Loading, Stoppers, Runs, Job, User

LEMMA CarriedOver ==
  ASSUME SuggestInv,
         \A n \in Loads : proc'[n].ids = proc[n].ids /\ Held(proc'[n]) = Held(proc[n]),
         call' = call
  PROVE  Carried /\ AnswersItsCall'
<1>1. \A n \in Loads : proc[n].ids \in Nat
  BY DEF SuggestInv, SuggestTypeOK, Process
<1>2. QED
  BY <1>1 DEF Carried, AnswersItsCall, SuggestInv

(* What a step leaves in place when it changes little of what a part of    *)
(* the invariant is about.                                                 *)
LEMMA GuardKept ==
  ASSUME SuggestInv, guard' = guard, worker' = worker,
         \A s \in Stoppers : stopper'[s].stage = "stopping" => stopper[s].stage = "stopping",
         \A n \in Loads : proc'[n].stage \in {proc[n].stage, "down"},
         run'.stage = "loading" <=> run.stage = "loading",
         run.stage = "loading" => run'.worker = run.worker
  PROVE  Guarded'
  BY DEF SuggestInv, Guarded, Alive

LEMMA NumbersKept ==
  ASSUME SuggestInv, SuggestTypeOK', proc' = proc,
         \A c \in Calls : call'[c] = call[c] \/ call'[c].stage \in {"off", "lock"}
  PROVE  Numbered' /\ OwnNumber' /\ AnswersItsCall'
<1>1. \A n \in Loads : proc[n].ids \in Nat
  BY DEF SuggestInv, SuggestTypeOK, Process
<1>2. Carried
  BY <1>1 DEF Carried
<1>3. AnswersItsCall'
  BY DEF AnswersItsCall, SuggestInv
<1>4. QED
  BY <1>2, <1>3, CarriedNumbers

(* The batch and the user's requests, step by step.                        *)
LEMMA StartAndCancel ==
  ASSUME SuggestInv, SuggestStart \/ Cancel \/ UserStops
  PROVE  SuggestInv'
<1>1. SuggestTypeOK
  BY DEF SuggestInv
<1>2. NoRun \in Batch
  BY SuggestAssumption DEF NoRun, Batch
<1>3. CASE SuggestStart
  <2>1. run' \in Batch /\ run'.stage = "load" /\ runs' \in 0 .. MaxRuns
    <3>1. run' = [NoRun EXCEPT !.stage = "load"] /\ runs' = runs + 1 /\ runs < MaxRuns
      BY <1>3 DEF SuggestStart
    <3>2. run' \in Batch /\ run'.stage = "load"
      BY <1>2, <3>1, BatchMoves DEF Batch
    <3>3. QED
      BY <1>1, <3>1, <3>2, SuggestAssumption DEF SuggestTypeOK
  <2>2. cancelled' \in BOOLEAN
    BY <1>3, Zenon DEF SuggestStart
  <2>3. SuggestTypeOK'
    BY <1>1, <1>3, <2>1, <2>2 DEF SuggestStart, SuggestTypeOK
  <2>4. Guarded'
    BY <1>3, <2>1, GuardKept DEF SuggestStart
  <2>5. HasWorker'
    BY <1>3, <2>1 DEF SuggestStart, HasWorker, SuggestInv
  <2>6. QED
    BY <1>3, <2>3, <2>4, <2>5, NumbersKept DEF SuggestStart, SuggestInv
<1>4. CASE Cancel
  <2>1. cancelled' \in BOOLEAN
    BY <1>4, Zenon DEF Cancel
  <2>2. SuggestTypeOK'
    BY <1>1, <1>4, <2>1 DEF Cancel, SuggestTypeOK
  <2>3. Guarded' /\ HasWorker'
    BY <1>4, GuardKept DEF Cancel, HasWorker, SuggestInv
  <2>4. QED
    BY <1>4, <2>2, <2>3, NumbersKept DEF Cancel, SuggestInv
<1>5. CASE UserStops
  <2>1. User \in Stoppers /\ stopper[User] \in Stopping
    BY <1>1 DEF SuggestTypeOK, Stoppers
  <2>2. PICK t : t = [stopper[User] EXCEPT !.stage = "want"]
    OBVIOUS
  <2>3. t \in Stopping /\ t.stage = "want"
    BY <2>1, <2>2 DEF Stopping
  <2>4. stopper' = [stopper EXCEPT ![User] = t]
    BY <1>5, <2>2 DEF UserStops
  <2>5. stopper' \in [Stoppers -> Stopping]
    BY <1>1, <2>3, <2>4 DEF SuggestTypeOK
  <2>6. stops' = stops + 1 /\ stops < MaxStops
    BY <1>5 DEF UserStops
  <2>7. stops' \in 0 .. MaxStops
    BY <1>1, <2>6, SuggestAssumption DEF SuggestTypeOK
  <2>8. SuggestTypeOK'
    BY <1>1, <1>5, <2>5, <2>7 DEF UserStops, SuggestTypeOK
  <2>9. \A s \in Stoppers : stopper'[s].stage = "stopping" => stopper[s].stage = "stopping"
    BY <1>1, <2>3, <2>4 DEF SuggestTypeOK
  <2>10. Guarded' /\ HasWorker'
    BY <1>5, <2>9, GuardKept DEF UserStops, HasWorker, SuggestInv
  <2>11. QED
    BY <1>5, <2>8, <2>10, NumbersKept DEF UserStops, SuggestInv
<1>6. QED
  BY <1>3, <1>4, <1>5

LEMMA LoadSteps ==
  ASSUME SuggestInv, Reuse \/ Loaded \/ \E n \in Loads : Load(n)
  PROVE  SuggestInv'
<1>1. SuggestTypeOK /\ run \in Batch
  BY DEF SuggestInv, SuggestTypeOK
<1>2. CASE Reuse
  <2>1. worker \in Loads /\ run' = [run EXCEPT !.stage = "ask", !.worker = worker]
    BY <1>2 DEF Reuse, Reusable, Alive
  <2>2. run' \in Batch /\ run'.stage = "ask" /\ run'.worker = worker
    BY <1>1, <2>1, BatchMoves DEF Batch
  <2>3. SuggestTypeOK'
    BY <1>1, <1>2, <2>2 DEF Reuse, SuggestTypeOK
  <2>4. Guarded' /\ HasWorker'
    BY <1>2, <2>1, <2>2, GuardKept DEF Reuse, HasWorker, SuggestInv
  <2>5. QED
    BY <1>2, <2>3, <2>4, NumbersKept DEF Reuse, SuggestInv
<1>3. ASSUME NEW n \in Loads, Load(n) PROVE SuggestInv'
  <2>1. run' = [run EXCEPT !.stage = "loading", !.worker = n] /\ proc' = [proc EXCEPT ![n].stage = "up"]
    BY <1>3 DEF Load
  <2>2. run' \in Batch /\ run'.stage = "loading" /\ run'.worker = n
    BY <1>1, <2>1, BatchMoves DEF Batch
  <2>3. /\ proc' \in [Loads -> Process]
        /\ proc'[n].stage = "up" /\ proc'[n].ids = proc[n].ids /\ proc'[n].asked = proc[n].asked
        /\ proc'[n].said = proc[n].said
        /\ \A m \in Loads \ {n} : proc'[m] = proc[m]
    BY <1>1, <2>1, StageSet
  <2>4. SuggestTypeOK'
    BY <1>1, <1>3, <2>2, <2>3 DEF Load, SuggestTypeOK
  <2>5. Guarded'
    <3>1. Alive = {}
      BY <1>3 DEF Load, Reusable, SuggestInv, Guarded, Free, Loading
    <3>2. Alive' \subseteq {n}
      BY <2>3, <3>1 DEF Alive
    <3>3. \A s \in Stoppers : stopper[s].stage # "stopping"
      BY <1>3, Locks DEF Load, SuggestInv, Guarded
    <3>4. QED
      BY <1>3, <2>2, <3>2, <3>3 DEF Load, Guarded
  <2>6. HasWorker'
    BY <1>3, <2>2 DEF Load, HasWorker, SuggestInv
  <2>7. Carried /\ AnswersItsCall'
    <3>1. \A m \in Loads : Held(proc'[m]) = Held(proc[m]) /\ proc'[m].ids = proc[m].ids
      BY <2>3 DEF Held
    <3>2. QED
      BY <1>3, <3>1, CarriedOver DEF Load
  <2>8. QED
    BY <2>4, <2>5, <2>6, <2>7, CarriedNumbers DEF SuggestInv
<1>4. CASE Loaded
  <2>1. guard = Loading /\ run.worker \in Loads /\ guard' = Free /\ Alive \subseteq {run.worker}
    BY <1>4 DEF Loaded, SuggestInv, Guarded, HasWorker
  <2>2. \A s \in Stoppers : stopper[s].stage # "stopping"
    BY <2>1, Locks DEF SuggestInv, Guarded
  <2>3. Free # Loading
    BY Locks
  <2>4. CASE worker' = run.worker /\ run' = [run EXCEPT !.stage = "ask"] /\ proc' = proc
    <3>1. run' \in Batch /\ run'.stage = "ask" /\ run'.worker = run.worker
      BY <1>1, <2>4, BatchMoves DEF Batch
    <3>2. SuggestTypeOK'
      BY <1>1, <1>4, <2>1, <2>4, <3>1 DEF Loaded, SuggestTypeOK
    <3>3. Guarded'
      BY <1>4, <2>1, <2>2, <2>3, <2>4, <3>1 DEF Loaded, Guarded, Alive
    <3>4. HasWorker'
      BY <1>4, <2>1, <3>1 DEF Loaded, HasWorker, SuggestInv
    <3>5. QED
      BY <1>4, <2>4, <3>2, <3>3, <3>4, NumbersKept DEF Loaded, SuggestInv
  <2>5. CASE worker' = worker /\ run' = NoRun /\ proc' = [proc EXCEPT ![run.worker].stage = "down"]
    <3>1. run' \in Batch /\ run'.stage = "off"
      BY <2>5, SuggestAssumption DEF NoRun, Batch
    <3>2. /\ proc' \in [Loads -> Process] /\ proc'[run.worker].stage = "down"
          /\ \A m \in Loads : proc'[m].ids = proc[m].ids /\ Held(proc'[m]) = Held(proc[m])
          /\ \A m \in Loads \ {run.worker} : proc'[m] = proc[m]
      <4>1. PICK w \in Loads : w = run.worker
        BY <2>1
      <4>2. /\ proc' \in [Loads -> Process]
            /\ proc'[w].stage = "down" /\ proc'[w].ids = proc[w].ids /\ proc'[w].asked = proc[w].asked
            /\ proc'[w].said = proc[w].said
            /\ \A m \in Loads \ {w} : proc'[m] = proc[m]
        BY <1>1, <2>5, <4>1, StageSet
      <4>3. QED
        BY <4>1, <4>2 DEF Held
    <3>3. SuggestTypeOK'
      BY <1>1, <1>4, <2>1, <2>5, <3>1, <3>2 DEF Loaded, SuggestTypeOK
    <3>4. Alive' = {}
      BY <2>1, <3>2 DEF Alive
    <3>5. Guarded'
      BY <1>4, <2>1, <2>2, <2>3, <3>1, <3>4 DEF Loaded, Guarded
    <3>6. HasWorker'
      BY <1>4, <3>1 DEF Loaded, HasWorker, SuggestInv
    <3>7. Carried /\ AnswersItsCall'
      BY <1>4, <3>2, CarriedOver DEF Loaded
    <3>8. QED
      BY <3>3, <3>5, <3>6, <3>7, CarriedNumbers DEF SuggestInv
  <2>6. QED
    BY <1>4, <2>4, <2>5 DEF Loaded
<1>5. QED
  BY <1>2, <1>3, <1>4

LEMMA ItemSteps ==
  ASSUME SuggestInv, Ask \/ ItemFails \/ ItemDone \/ StopSeen
  PROVE  SuggestInv'
<1>1. SuggestTypeOK /\ run \in Batch
  BY DEF SuggestInv, SuggestTypeOK
<1>2. UNCHANGED <<worker, guard, proc, stopper, cancelled, runs, stops>>
  BY DEF Ask, ItemFails, ItemDone, StopSeen
<1>3. run.stage \in {"ask", "wait"} /\ run.worker \in Loads
  BY DEF Ask, ItemFails, ItemDone, StopSeen, SuggestInv, HasWorker
<1>4. ASSUME run' \in Batch, run'.stage \in {"ask", "wait", "release"},
             run'.stage \in {"ask", "wait"} => run'.worker \in Loads,
             \E c, t : /\ (call' = [call EXCEPT ![c] = t] \/ call' = call)
                       /\ t \in Thread /\ t.stage \in {"off", "lock"}
                       /\ (t.stage = "lock" => t.worker \in Loads)
      PROVE  SuggestInv'
  <2>1. PICK c, t : /\ (call' = [call EXCEPT ![c] = t] \/ call' = call)
                    /\ t \in Thread /\ t.stage \in {"off", "lock"}
                    /\ (t.stage = "lock" => t.worker \in Loads)
    BY <1>4
  <2>2. call' \in [Calls -> Thread] /\ \A d \in Calls : call'[d] = call[d] \/ call'[d] = t
    BY <1>1, <2>1 DEF SuggestTypeOK
  <2>3. SuggestTypeOK'
    BY <1>1, <1>2, <1>4, <2>2 DEF SuggestTypeOK
  <2>4. Guarded'
    BY <1>2, <1>3, <1>4, GuardKept
  <2>5. HasWorker'
    BY <1>4, <2>1, <2>2 DEF HasWorker, SuggestInv
  <2>6. QED
    BY <1>2, <2>1, <2>2, <2>3, <2>4, <2>5, NumbersKept DEF SuggestInv
<1>5. NotCalled \in Thread /\ NotCalled.stage = "off"
  BY DEF NotCalled, Thread
<1>6. CASE Ask
  <2>1. run'.stage = "wait" /\ run'.worker = run.worker /\ run' \in Batch
    BY <1>1, <1>6, BatchMoves DEF Ask, Batch
  <2>2. PICK t : t = [NotCalled EXCEPT !.stage = "lock", !.worker = run.worker]
    OBVIOUS
  <2>3. t \in Thread /\ t.stage = "lock" /\ t.worker = run.worker
    BY <1>3, <1>5, <2>2 DEF NotCalled, Thread
  <2>4. call' = [call EXCEPT ![Mine] = t]
    BY <1>6, <2>2 DEF Ask
  <2>5. QED
    BY <1>3, <1>4, <2>1, <2>3, <2>4
<1>7. CASE ItemFails \/ ItemDone
  <2>1. PICK r \in {[run EXCEPT !.failed = @ + 1], [run EXCEPT !.good = @ + 1]} : run' = Onward(r)
    BY <1>7 DEF ItemFails, ItemDone
  <2>2. r \in Batch /\ r.worker = run.worker
    BY <1>1, <2>1 DEF Batch
  <2>3. run' \in Batch /\ run'.stage \in {"ask", "release"} /\ run'.worker = run.worker
    BY <2>1, <2>2, BatchMoves
  <2>4. call' = [call EXCEPT ![Mine] = NotCalled]
    BY <1>7 DEF ItemFails, ItemDone
  <2>5. QED
    BY <1>3, <1>4, <1>5, <2>3, <2>4
<1>8. CASE StopSeen
  <2>1. PICK abandoned : abandoned = (run.stage = "wait")
    OBVIOUS
  <2>2. abandoned \in BOOLEAN
    BY <2>1
  <2>3. run' = [run EXCEPT !.stage = "release", !.abandoned = abandoned]
    BY <1>8, <2>1, Zenon DEF StopSeen
  <2>4. run' \in Batch /\ run'.stage = "release"
    BY <1>1, <2>2, <2>3 DEF Batch
  <2>5. call' = call
    BY <1>8 DEF StopSeen
  <2>6. QED
    BY <1>4, <1>5, <2>4, <2>5
<1>9. QED
  BY <1>6, <1>7, <1>8

LEMMA ReleaseSteps ==
  ASSUME SuggestInv, Release \/ Released
  PROVE  SuggestInv'
<1>1. SuggestTypeOK /\ run \in Batch
  BY DEF SuggestInv, SuggestTypeOK
<1>2. NoRun \in Batch /\ NoRun.stage = "off"
  BY SuggestAssumption DEF NoRun, Batch
<1>3. UNCHANGED <<worker, guard, proc, call, cancelled, runs, stops>>
  BY DEF Release, Released
<1>4. run' \in Batch /\ run'.stage \in {"off", "releasing"}
  <2>1. CASE run' = NoRun
    BY <1>2, <2>1
  <2>2. CASE run' = [run EXCEPT !.stage = "releasing"]
    BY <1>1, <2>2, BatchMoves DEF Batch
  <2>3. QED
    BY <2>1, <2>2 DEF Release, Released
<1>5. run.stage \in {"release", "releasing"}
  BY DEF Release, Released
<1>6. /\ stopper' \in [Stoppers -> Stopping]
      /\ \A s \in Stoppers : stopper'[s] = stopper[s] \/ stopper'[s].stage = "want"
  <2>1. Wanted \in Stopping /\ Wanted.stage = "want"
    BY <1>1 DEF Wanted, Stopping, Batch
  <2>2. Job \in Stoppers /\ stopper[Job] \in Stopping
    BY <1>1 DEF SuggestTypeOK, Stoppers
  <2>3. PICK t : t = [stopper[Job] EXCEPT !.stage = "want"]
    OBVIOUS
  <2>4. t \in Stopping /\ t.stage = "want"
    BY <2>2, <2>3 DEF Stopping
  <2>5. \/ stopper' = [stopper EXCEPT ![runs] = Wanted]
        \/ stopper' = [stopper EXCEPT ![Job] = t]
        \/ stopper' = stopper
    BY <2>3 DEF Release, Released
  <2>6. QED
    BY <1>1, <2>1, <2>4, <2>5 DEF SuggestTypeOK
<1>7. SuggestTypeOK'
  BY <1>1, <1>3, <1>4, <1>6 DEF SuggestTypeOK
<1>8. Guarded' /\ HasWorker'
  <2>1. Guarded'
    BY <1>3, <1>4, <1>5, <1>6, GuardKept
  <2>2. QED
    BY <1>3, <1>4, <2>1 DEF HasWorker, SuggestInv
<1>9. QED
  BY <1>3, <1>7, <1>8, NumbersKept DEF SuggestInv

(* The calls and the process, step by step.                                *)
LEMMA WriteStep ==
  ASSUME SuggestInv, NEW c \in Calls, Write(c)
  PROVE  SuggestInv'
<1>1. SuggestTypeOK /\ call[c] \in Thread
  BY DEF SuggestInv, SuggestTypeOK
<1>2. PICK n \in Loads : n = call[c].worker
  BY DEF SuggestInv, HasWorker, Write
<1>3. UNCHANGED <<worker, guard, run, stopper, cancelled, runs, stops>>
  BY DEF Write
<1>4. PICK id : id = proc[n].ids + 1
  OBVIOUS
<1>5. id \in Nat /\ proc[n].ids \in Nat
  BY <1>1, <1>4 DEF SuggestTypeOK, Process
<1>6. CASE proc[n].stage = "up"
  <2>1. PICK x : x = [id |-> id, of |-> c, good |-> TRUE]
    OBVIOUS
  <2>2. x \in Message /\ x.id = id /\ x.of = c
    <3>1. TRUE \in BOOLEAN
      OBVIOUS
    <3>2. QED
      BY <1>5, <2>1, <3>1 DEF Message
  <2>3. proc' = [proc EXCEPT ![n].ids = id, ![n].lock = c, ![n].asked = Append(@, x)]
    BY <1>2, <1>4, <1>6, <2>1 DEF Write
  <2>4. call' = [call EXCEPT ![c].stage = "sent", ![c].id = id]
    BY <1>2, <1>4, <1>6 DEF Write
  <2>5. /\ proc' \in [Loads -> Process]
        /\ proc'[n].stage = proc[n].stage /\ proc'[n].ids = id
        /\ \A m \in Held(proc'[n]) : m \in Held(proc[n]) \/ m = x
        /\ \A m \in Loads \ {n} : proc'[m] = proc[m]
    <3>1. SuggestTypeOK /\ n \in Loads /\ c \in Calls /\ id \in Nat /\ x \in Message
      BY <1>1, <1>5, <2>2
    <3>2. QED
      BY ONLY <3>1, <2>3, Asked, Zenon
  <2>6. /\ call' \in [Calls -> Thread]
        /\ call'[c].stage = "sent" /\ call'[c].id = id /\ call'[c].worker = n
        /\ \A d \in Calls \ {c} : call'[d] = call[d]
    <3>1. PICK t : t = [stage |-> "sent", worker |-> n, id |-> id, answer |-> call[c].answer]
      OBVIOUS
    <3>2. call'[c] = t
      BY <1>1, <1>2, <2>4, <3>1 DEF SuggestTypeOK, Thread
    <3>3. t \in Thread
      BY <1>1, <1>5, <3>1 DEF Thread
    <3>4. call' \in [Calls -> Thread] /\ \A d \in Calls \ {c} : call'[d] = call[d]
      BY <1>1, <2>4, <3>2, <3>3 DEF SuggestTypeOK
    <3>5. QED
      BY <3>1, <3>2, <3>4
  <2>7. SuggestTypeOK'
    BY <1>1, <1>3, <2>5, <2>6 DEF SuggestTypeOK
  <2>8. Guarded'
    BY <1>3, <2>5, GuardKept
  <2>9. HasWorker'
    BY <1>3, <2>6 DEF HasWorker, SuggestInv
  <2>10. Numbered'
    BY <1>4, <1>5, <2>2, <2>5 DEF Numbered, SuggestInv
  <2>11. OwnNumber'
    <3> SUFFICES ASSUME NEW d \in Calls, call'[d].stage = "sent"
                 PROVE  /\ call'[d].id \in 1 .. proc'[call'[d].worker].ids
                        /\ \A m \in Held(proc'[call'[d].worker]) : m.id = call'[d].id => m.of = d
      BY DEF OwnNumber
    <3>1. \A m \in Held(proc[n]) : m.id \in 0 .. proc[n].ids
      BY DEF SuggestInv, Numbered
    <3>2. CASE d = c
      BY <1>4, <1>5, <2>2, <2>5, <2>6, <3>1, <3>2
    <3>3. CASE d # c
      <4>1. call'[d] = call[d] /\ call[d].worker \in Loads
        BY <2>6, <3>3 DEF SuggestInv, HasWorker
      <4>2. /\ call[d].id \in 1 .. proc[call[d].worker].ids
            /\ \A m \in Held(proc[call[d].worker]) : m.id = call[d].id => m.of = d
        BY <4>1 DEF SuggestInv, OwnNumber
      <4>3. QED
        BY <1>4, <1>5, <2>2, <2>5, <4>1, <4>2
    <3>4. QED
      BY <3>2, <3>3
  <2>12. AnswersItsCall'
    BY <2>6 DEF AnswersItsCall, SuggestInv
  <2>13. QED
    BY <2>7, <2>8, <2>9, <2>10, <2>11, <2>12 DEF SuggestInv
<1>7. CASE proc[n].stage # "up"
  <2>1. proc' = [proc EXCEPT ![n].ids = proc[n].ids + 1] /\ Ended(c, "failed", NoCall)
    BY <1>2, <1>7 DEF Write
  <2>2. /\ proc' \in [Loads -> Process]
        /\ proc'[n].stage = proc[n].stage /\ proc'[n].ids >= proc[n].ids
        /\ Held(proc'[n]) = Held(proc[n])
        /\ \A m \in Loads \ {n} : proc'[m] = proc[m]
    BY <1>1, <2>1, Unwritten
  <2>3. /\ call' \in [Calls -> Thread]
        /\ call'[c].stage \in {"off", "answered", "failed"}
        /\ call'[c].stage = "answered" => call'[c].answer = c
        /\ \A d \in Calls \ {c} : call'[d] = call[d]
    BY <1>1, <2>1, EndedCall
  <2>4. SuggestTypeOK'
    BY <1>1, <1>3, <2>2, <2>3 DEF SuggestTypeOK
  <2>5. Guarded'
    BY <1>3, <2>2, GuardKept
  <2>6. HasWorker' /\ AnswersItsCall'
    BY <1>3, <2>3 DEF HasWorker, AnswersItsCall, SuggestInv
  <2>7. Carried
    <3>1. \A m \in Loads : proc[m].ids \in Nat
      BY <1>1 DEF SuggestTypeOK, Process
    <3>2. QED
      BY <2>2, <2>3, <3>1 DEF Carried
  <2>8. QED
    BY <2>4, <2>5, <2>6, <2>7, CarriedNumbers DEF SuggestInv
<1>8. QED
  BY <1>6, <1>7

LEMMA HearStep ==
  ASSUME SuggestInv, NEW c \in Calls, Hear(c)
  PROVE  SuggestInv'
<1>1. SuggestTypeOK /\ call[c] \in Thread
  BY DEF SuggestInv, SuggestTypeOK
<1>2. PICK n \in Loads : n = call[c].worker
  BY DEF SuggestInv, HasWorker, Hear
<1>3. UNCHANGED <<worker, guard, run, stopper, cancelled, runs, stops>>
  BY DEF Hear
<1>4. proc[n].said # <<>> /\ proc[n].said \in Seq(Message \cup {Closed}) /\ call[c].stage = "sent"
  BY <1>1, <1>2 DEF Hear, SuggestTypeOK, Process
<1>5. PICK message : message = Head(proc[n].said)
  OBVIOUS
<1>6. message \in Message \cup {Closed} /\ message \in Held(proc[n])
  BY <1>4, <1>5, QueueHolds DEF Held
<1>7. PICK lock \in Calls \cup {NoCall} :
        proc' = [proc EXCEPT ![n].said = Tail(@), ![n].lock = lock]
  <2>1. CASE message = Closed \/ Answers(c, message)
    BY <1>2, <1>5, <2>1 DEF Hear
  <2>2. CASE ~(message = Closed \/ Answers(c, message))
    <3>1. proc[n].lock \in Calls \cup {NoCall}
      BY <1>1 DEF SuggestTypeOK, Process
    <3>2. proc' = [proc EXCEPT ![n].said = Tail(@), ![n].lock = proc[n].lock]
      BY <1>2, <1>5, <2>2 DEF Hear
    <3>3. QED
      BY <3>1, <3>2
  <2>3. QED
    BY <2>1, <2>2
<1>8. /\ proc' \in [Loads -> Process]
      /\ proc'[n].stage = proc[n].stage /\ proc'[n].ids = proc[n].ids
      /\ Held(proc'[n]) \subseteq Held(proc[n])
      /\ \A m \in Loads \ {n} : proc'[m] = proc[m]
  BY ONLY <1>1, <1>4, <1>7, n \in Loads, lock \in Calls \cup {NoCall}, Heard
<1>9. /\ call' \in [Calls -> Thread]
      /\ call' = call \/ /\ call'[c].stage \in {"off", "answered", "failed"}
                         /\ call'[c].stage = "answered" => call'[c].answer = c
      /\ \A d \in Calls \ {c} : call'[d] = call[d]
  <2>1. CASE ~(message = Closed \/ Answers(c, message))
    <3>1. call' = call
      BY <1>2, <1>5, <2>1 DEF Hear
    <3>2. QED
      BY <1>1, <3>1 DEF SuggestTypeOK
  <2>2. CASE message = Closed \/ Answers(c, message)
    <3>1. Ended(c, IF message.good THEN "answered" ELSE "failed", message.of)
      BY <1>2, <1>5, <2>2 DEF Hear
    <3>2. message.of \in Calls \cup {NoCall}
      BY <1>6 DEF Message, Closed
    <3>3. message.good => message.of = c
      <4>1. CASE message = Closed
        BY <4>1 DEF Closed
      <4>2. CASE message.id = call[c].id
        BY <1>2, <1>4, <1>6, <4>2 DEF SuggestInv, OwnNumber
      <4>3. QED
        BY <2>2, <4>1, <4>2 DEF Answers
    <3>4. PICK stage \in {"answered", "failed"} :
            Ended(c, stage, message.of) /\ (stage = "answered" => message.of = c)
      BY <3>1, <3>3
    <3>5. QED
      BY <1>1, <3>2, <3>4, EndedCall
  <2>3. QED
    BY <2>1, <2>2
<1>10. SuggestTypeOK'
  BY <1>1, <1>3, <1>8, <1>9 DEF SuggestTypeOK
<1>11. Guarded'
  BY <1>3, <1>8, GuardKept
<1>12. HasWorker' /\ AnswersItsCall'
  BY <1>3, <1>9 DEF HasWorker, AnswersItsCall, SuggestInv
<1>13. Carried
  <2>1. \A m \in Loads : proc[m].ids \in Nat
    BY <1>1 DEF SuggestTypeOK, Process
  <2>2. QED
    BY <1>8, <1>9, <2>1 DEF Carried
<1>14. QED
  BY <1>10, <1>11, <1>12, <1>13, CarriedNumbers DEF SuggestInv

LEMMA TimeOutStep ==
  ASSUME SuggestInv, NEW c \in Calls, TimeOut(c)
  PROVE  SuggestInv'
<1>1. SuggestTypeOK
  BY DEF SuggestInv
<1>2. PICK n \in Loads : n = call[c].worker
  BY DEF SuggestInv, HasWorker, TimeOut
<1>3. UNCHANGED <<worker, guard, run, stopper, cancelled, runs, stops>>
  BY DEF TimeOut
<1>4. proc' = [proc EXCEPT ![n].lock = NoCall] /\ Ended(c, "failed", NoCall)
  BY <1>2 DEF TimeOut
<1>5. /\ proc' \in [Loads -> Process]
      /\ proc'[n].stage = proc[n].stage /\ proc'[n].ids >= proc[n].ids
      /\ Held(proc'[n]) = Held(proc[n])
      /\ \A m \in Loads \ {n} : proc'[m] = proc[m]
  BY <1>1, <1>4, Unwritten
<1>6. /\ call' \in [Calls -> Thread]
      /\ call'[c].stage \in {"off", "answered", "failed"}
      /\ call'[c].stage = "answered" => call'[c].answer = c
      /\ \A d \in Calls \ {c} : call'[d] = call[d]
  BY <1>1, <1>4, EndedCall
<1>7. SuggestTypeOK'
  BY <1>1, <1>3, <1>5, <1>6 DEF SuggestTypeOK
<1>8. Guarded'
  BY <1>3, <1>5, GuardKept
<1>9. HasWorker' /\ AnswersItsCall'
  BY <1>3, <1>6 DEF HasWorker, AnswersItsCall, SuggestInv
<1>10. Carried
  <2>1. \A m \in Loads : proc[m].ids \in Nat
    BY <1>1 DEF SuggestTypeOK, Process
  <2>2. QED
    BY <1>5, <1>6, <2>1 DEF Carried
<1>11. QED
  BY <1>7, <1>8, <1>9, <1>10, CarriedNumbers DEF SuggestInv

LEMMA ProcessSteps ==
  ASSUME SuggestInv, NEW n \in Loads, Answer(n) \/ Dies(n)
  PROVE  SuggestInv'
<1>1. SuggestTypeOK
  BY DEF SuggestInv
<1>2. UNCHANGED <<worker, guard, run, call, stopper, cancelled, runs, stops>>
  BY DEF Answer, Dies
<1>3. /\ proc' \in [Loads -> Process]
      /\ proc'[n].stage \in {proc[n].stage, "down"} /\ proc'[n].ids = proc[n].ids
      /\ \A m \in Held(proc'[n]) : m = Closed \/ \E o \in Held(proc[n]) : m.id = o.id /\ m.of = o.of
      /\ \A m \in Loads \ {n} : proc'[m] = proc[m]
  <2>1. CASE Answer(n)
    <3>1. PICK good \in BOOLEAN :
            proc' = [proc EXCEPT ![n].asked = Tail(@),
                                 ![n].said = Append(@, [Head(proc[n].asked) EXCEPT !.good = good])]
      BY <2>1 DEF Answer
    <3>2. proc[n].asked # <<>>
      BY <2>1 DEF Answer
    <3>3. /\ proc' \in [Loads -> Process]
          /\ proc'[n].stage = proc[n].stage /\ proc'[n].ids = proc[n].ids
          /\ \A m \in Held(proc'[n]) : \E o \in Held(proc[n]) : m.id = o.id /\ m.of = o.of
          /\ \A m \in Loads \ {n} : proc'[m] = proc[m]
      BY ONLY <1>1, n \in Loads, good \in BOOLEAN, <3>1, <3>2, Told
    <3>4. QED
      BY <3>3
  <2>2. CASE Dies(n)
    <3>1. proc' = [proc EXCEPT ![n].stage = "down", ![n].asked = <<>>, ![n].said = Append(@, Closed)]
      BY <2>2 DEF Dies
    <3>2. /\ proc' \in [Loads -> Process]
          /\ proc'[n].stage = "down" /\ proc'[n].ids = proc[n].ids
          /\ \A m \in Held(proc'[n]) : m = Closed \/ m \in Held(proc[n])
          /\ \A m \in Loads \ {n} : proc'[m] = proc[m]
      BY ONLY <1>1, n \in Loads, <3>1, Ceased
    <3>3. QED
      BY <3>2
  <2>3. QED
    BY <2>1, <2>2
<1>4. SuggestTypeOK'
  BY <1>1, <1>2, <1>3 DEF SuggestTypeOK
<1>5. Guarded'
  BY <1>2, <1>3, GuardKept
<1>6. HasWorker' /\ AnswersItsCall'
  BY <1>2 DEF HasWorker, AnswersItsCall, SuggestInv
<1>7. Carried
  <2>1. \A m \in Loads : proc[m].ids \in Nat
    BY <1>1 DEF SuggestTypeOK, Process
  <2>2. QED
    BY <1>2, <1>3, <2>1 DEF Carried
<1>8. QED
  BY <1>4, <1>5, <1>6, <1>7, CarriedNumbers DEF SuggestInv

(* Those who stop a process, step by step.                                 *)
LEMMA StopBeginStep ==
  ASSUME SuggestInv, NEW s \in Stoppers, StopBegin(s)
  PROVE  SuggestInv'
<1>1. SuggestTypeOK
  BY DEF SuggestInv
<1>2. guard = Free /\ UNCHANGED <<run, call, cancelled, runs, stops>>
  BY DEF StopBegin
<1>3. \A r \in Stoppers : stopper[r].stage # "stopping"
  BY <1>2, Locks DEF SuggestInv, Guarded
<1>4. run.stage # "loading" /\ Alive \subseteq {worker}
  BY <1>2, Locks DEF SuggestInv, Guarded
<1>5. CASE Meant(s) /\ worker \in Alive
  <2>1. /\ guard' = s /\ stopper' = [stopper EXCEPT ![s].stage = "stopping"]
        /\ proc' = [proc EXCEPT ![worker].stage = "closing"] /\ worker' = worker
    BY <1>5 DEF StopBegin
  <2>2. PICK w \in Loads : w = worker
    BY <1>5 DEF Alive
  <2>3. /\ proc' \in [Loads -> Process]
        /\ proc'[w].stage = "closing" /\ proc'[w].ids = proc[w].ids /\ proc'[w].asked = proc[w].asked
        /\ proc'[w].said = proc[w].said
        /\ \A m \in Loads \ {w} : proc'[m] = proc[m]
    BY <1>1, <2>1, <2>2, StageSet
  <2>4. stopper' \in [Stoppers -> Stopping] /\ \A r \in Stoppers \ {s} : stopper'[r] = stopper[r]
    <3>1. PICK t : t = [stopper[s] EXCEPT !.stage = "stopping"]
      OBVIOUS
    <3>2. t \in Stopping
      BY <1>1, <3>1 DEF SuggestTypeOK, Stopping
    <3>3. stopper' = [stopper EXCEPT ![s] = t]
      BY <2>1, <3>1
    <3>4. QED
      BY <1>1, <3>2, <3>3 DEF SuggestTypeOK
  <2>5. SuggestTypeOK'
    BY <1>1, <1>2, <2>1, <2>3, <2>4 DEF SuggestTypeOK
  <2>6. Guarded'
    <3>1. Alive' \subseteq {worker}
      BY <1>4, <2>2, <2>3 DEF Alive
    <3>2. guard' # Loading
      BY <2>1, Locks
    <3>3. QED
      BY <1>2, <1>3, <1>4, <2>1, <2>4, <3>1, <3>2 DEF Guarded
  <2>7. HasWorker'
    BY <1>2 DEF HasWorker, SuggestInv
  <2>8. Carried /\ AnswersItsCall'
    <3>1. \A m \in Loads : Held(proc'[m]) = Held(proc[m]) /\ proc'[m].ids = proc[m].ids
      BY <2>3 DEF Held
    <3>2. QED
      BY <1>2, <3>1, CarriedOver
  <2>9. QED
    BY <2>5, <2>6, <2>7, <2>8, CarriedNumbers DEF SuggestInv
<1>6. CASE ~(Meant(s) /\ worker \in Alive)
  <2>1. /\ stopper' = [stopper EXCEPT ![s] = AtRest] /\ guard' = guard /\ proc' = proc
        /\ worker' = worker \/ (worker' = NoWorker /\ worker \notin Alive)
    BY <1>6 DEF StopBegin
  <2>2. /\ stopper' \in [Stoppers -> Stopping]
        /\ \A r \in Stoppers : stopper'[r] = stopper[r] \/ stopper'[r].stage = "off"
    <3>1. AtRest \in Stopping /\ AtRest.stage = "off"
      BY DEF AtRest, Stopping
    <3>2. QED
      BY <1>1, <2>1, <3>1 DEF SuggestTypeOK
  <2>3. SuggestTypeOK'
    BY <1>1, <1>2, <2>1, <2>2 DEF SuggestTypeOK
  <2>4. Guarded'
    <3>1. Alive' = Alive /\ Alive \subseteq {worker'}
      BY <1>4, <2>1 DEF Alive
    <3>2. guard' # Loading
      BY <1>2, <2>1, Locks
    <3>3. QED
      BY <1>2, <1>3, <1>4, <2>1, <2>2, <3>1, <3>2 DEF Guarded
  <2>5. HasWorker'
    BY <1>2 DEF HasWorker, SuggestInv
  <2>6. QED
    BY <1>2, <2>1, <2>3, <2>4, <2>5, NumbersKept DEF SuggestInv
<1>7. QED
  BY <1>5, <1>6

LEMMA StopEndStep ==
  ASSUME SuggestInv, NEW s \in Stoppers, StopEnd(s)
  PROVE  SuggestInv'
<1>1. SuggestTypeOK
  BY DEF SuggestInv
<1>2. /\ guard' = Free /\ worker' = NoWorker /\ UNCHANGED <<run, call, cancelled, runs, stops>>
      /\ stopper' = [stopper EXCEPT ![s] = AtRest] /\ stopper[s].stage = "stopping"
  BY DEF StopEnd
<1>3. guard = s /\ \A r \in Stoppers \ {s} : stopper[r].stage # "stopping"
  BY <1>2 DEF SuggestInv, Guarded
<1>4. run.stage # "loading" /\ Alive \subseteq {worker}
  BY <1>3, Locks DEF SuggestInv, Guarded
<1>5. /\ stopper' \in [Stoppers -> Stopping] /\ stopper'[s].stage = "off"
      /\ \A r \in Stoppers \ {s} : stopper'[r] = stopper[r]
  <2>1. AtRest \in Stopping /\ AtRest.stage = "off"
    BY DEF AtRest, Stopping
  <2>2. QED
    BY <1>1, <1>2, <2>1 DEF SuggestTypeOK
<1>6. /\ proc' \in [Loads -> Process] /\ Alive' = {}
      /\ \A m \in Loads : /\ proc'[m].ids = proc[m].ids
                          /\ \A x \in Held(proc'[m]) : x = Closed \/ x \in Held(proc[m])
  <2>1. CASE worker \notin Alive
    <3>1. proc' = proc
      BY <2>1 DEF StopEnd
    <3>2. Alive = {}
      BY <1>4, <2>1
    <3>3. QED
      BY <1>1, <3>1, <3>2 DEF Alive, SuggestTypeOK
  <2>2. CASE worker \in Alive
    <3>1. PICK n \in Loads : n = worker
      BY <2>2 DEF Alive
    <3>2. proc' = [proc EXCEPT ![n].stage = "down", ![n].asked = <<>>, ![n].said = Append(@, Closed)]
      BY <2>2, <3>1 DEF StopEnd
    <3>3. /\ proc' \in [Loads -> Process]
          /\ proc'[n].stage = "down" /\ proc'[n].ids = proc[n].ids
          /\ \A m \in Held(proc'[n]) : m = Closed \/ m \in Held(proc[n])
          /\ \A m \in Loads \ {n} : proc'[m] = proc[m]
      BY ONLY <1>1, n \in Loads, <3>2, Ceased
    <3>4. Alive' = {}
      BY <1>4, <3>1, <3>3 DEF Alive
    <3>5. QED
      BY <3>3, <3>4
  <2>3. QED
    BY <2>1, <2>2
<1>7. SuggestTypeOK'
  BY <1>1, <1>2, <1>5, <1>6 DEF SuggestTypeOK
<1>8. Guarded'
  BY <1>2, <1>3, <1>4, <1>5, <1>6, Locks DEF Guarded
<1>9. HasWorker' /\ AnswersItsCall'
  BY <1>2 DEF HasWorker, AnswersItsCall, SuggestInv
<1>10. Carried
  <2>1. \A m \in Loads : proc[m].ids \in Nat
    BY <1>1 DEF SuggestTypeOK, Process
  <2>2. QED
    BY <1>2, <1>6, <2>1 DEF Carried
<1>11. QED
  BY <1>7, <1>8, <1>9, <1>10, CarriedNumbers DEF SuggestInv

-----------------------------------------------------------------------------
THEOREM SuggestInvariant == SuggestSpec => []SuggestInv
<1>1. SuggestInv /\ [SuggestNext]_suggestVars => SuggestInv'
  <2> SUFFICES ASSUME SuggestInv, [SuggestNext]_suggestVars PROVE SuggestInv'
    OBVIOUS
  <2>1. CASE UNCHANGED suggestVars
    <3>1. SuggestTypeOK' /\ Guarded' /\ HasWorker'
      BY <2>1 DEF suggestVars, SuggestInv, SuggestTypeOK, Guarded, HasWorker, Alive
    <3>2. QED
      BY <2>1, <3>1, NumbersKept DEF suggestVars, SuggestInv
  <2>2. CASE SuggestNext
    BY <2>2, StartAndCancel, LoadSteps, ItemSteps, ReleaseSteps, WriteStep, HearStep, TimeOutStep,
       ProcessSteps, StopBeginStep, StopEndStep DEF SuggestNext, BatchStep
  <2>3. QED
    BY <2>1, <2>2
<1>2. QED
  BY <1>1, SuggestStarts, PTL DEF SuggestSpec

(* An answer is taken only by the call it answers, however late the        *)
(* answers of calls that timed out come (Worker.generate).                 *)
THEOREM AnswersGoHome == SuggestSpec => []AnswersItsCall
<1>1. SuggestInv => AnswersItsCall
  BY DEF SuggestInv
<1>2. QED
  BY <1>1, SuggestInvariant, PTL

(* Two models are never loaded at once, whoever loads and stops them       *)
(* (start_worker, stop_worker, _worker_lock).                              *)
THEOREM OneModelLoaded == SuggestSpec => []OneModel
<1>1. SuggestInv => OneModel
  <2> SUFFICES ASSUME SuggestInv PROVE Cardinality(Alive) <= 1
    BY DEF OneModel
  <2>1. PICK w : Alive \subseteq {w}
    BY DEF SuggestInv, Guarded
  <2>2. IsFiniteSet({w}) /\ Cardinality({w}) = 1
    BY FS_Singleton
  <2>3. Cardinality(Alive) <= Cardinality({w})
    BY <2>1, <2>2, FS_Subset
  <2>4. QED
    BY <2>2, <2>3
<1>2. QED
  BY <1>1, SuggestInvariant, PTL
=============================================================================
