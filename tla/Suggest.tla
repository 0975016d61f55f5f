------------------------------ MODULE Suggest ------------------------------
(***************************************************************************)
(* The language model behind suggestions (llm/service.py): one worker      *)
(* process, loaded for a batch and given back after it, because the GPU is *)
(* shared.  A batch asks through threads that it abandons when it is       *)
(* cancelled, and then lets a thread of its own give the model back.  The  *)
(* process (llm/worker.py) answers its standard input in order.            *)
(***************************************************************************)
EXTENDS Integers, Sequences, FiniteSets

CONSTANTS
  Items,    \* what one batch asks for
  Patience, \* failed items after which a batch without success gives up
  MaxRuns,  \* bounds the batches
  MaxLoads, \* bounds the worker processes
  MaxStops  \* bounds the user's requests to unload the model

ASSUME SuggestAssumption ==
  /\ Items \in Nat \ {0} /\ Patience \in Nat \ {0}
  /\ MaxRuns \in Nat /\ MaxLoads \in Nat /\ MaxStops \in Nat

Runs == 1 .. MaxRuns
Loads == 1 .. MaxLoads
Calls == Runs \X (1 .. Items)
NoWorker == 0
NoCall == <<0, 0>>
\* who unloads the model: the batch, a thread of its own for each, the user
Job == 0
User == MaxRuns + 1
Stoppers == {Job, User} \cup Runs
Free == MaxRuns + 2
Loading == MaxRuns + 3

VARIABLES
  worker,   \* _worker
  guard,    \* _worker_lock
  proc,     \* the processes
  run,      \* the batch
  call,     \* the threads in generate
  stopper,  \* the threads in stop_worker
  cancelled, runs, stops

suggestVars == <<worker, guard, proc, run, call, stopper, cancelled, runs, stops>>

\* asked, said: what lies in its input and in the queue of its answers; lock:
\* who is in generate; ids: request numbers given out
Fresh == [stage |-> "none", asked |-> <<>>, said |-> <<>>, ids |-> 0, lock |-> NoCall]
NoRun == [stage |-> "off", worker |-> NoWorker, item |-> 1, abandoned |-> FALSE,
          failed |-> 0, good |-> 0]
NotCalled == [stage |-> "off", worker |-> NoWorker, id |-> 0, answer |-> NoCall]
AtRest == [stage |-> "off", only |-> NoWorker]

Message == [id : Nat, of : Calls, good : BOOLEAN]
Closed == [id |-> 0, of |-> NoCall, good |-> FALSE]

Process == [stage : {"none", "up", "closing", "down"},
            asked : Seq(Message), said : Seq(Message \cup {Closed}),
            ids : Nat, lock : Calls \cup {NoCall}]
Batch == [stage : {"off", "load", "loading", "ask", "wait", "release", "releasing"},
          worker : Loads \cup {NoWorker}, item : 1 .. Items, abandoned : BOOLEAN,
          failed : Nat, good : Nat]
Thread == [stage : {"off", "lock", "sent", "answered", "failed"},
           worker : Loads \cup {NoWorker}, id : Nat, answer : Calls \cup {NoCall}]
Stopping == [stage : {"off", "want", "stopping"}, only : Loads \cup {NoWorker}]

SuggestTypeOK ==
  /\ worker \in Loads \cup {NoWorker} /\ guard \in {Free, Loading} \cup Stoppers
  /\ proc \in [Loads -> Process] /\ run \in Batch
  /\ call \in [Calls -> Thread] /\ stopper \in [Stoppers -> Stopping]
  /\ cancelled \in BOOLEAN /\ runs \in 0 .. MaxRuns /\ stops \in 0 .. MaxStops

SuggestInit ==
  /\ worker = NoWorker /\ guard = Free
  /\ proc = [n \in Loads |-> Fresh]
  /\ run = NoRun /\ call = [c \in Calls |-> NotCalled]
  /\ stopper = [s \in Stoppers |-> AtRest]
  /\ cancelled = FALSE /\ runs = 0 /\ stops = 0

Alive == {n \in Loads : proc[n].stage \in {"up", "closing"}}
Mine == <<runs, run.item>>

-----------------------------------------------------------------------------
(* The batch: suggest and shorten_prompts.                                 *)

SuggestStart ==
  /\ run.stage = "off" /\ runs < MaxRuns
  /\ run' = [NoRun EXCEPT !.stage = "load"] /\ runs' = runs + 1 /\ cancelled' = FALSE
  /\ UNCHANGED <<worker, guard, proc, call, stopper, stops>>

(* Later than that it has no effect.                                       *)
Cancel ==
  /\ run.stage \in {"load", "loading", "ask", "wait"} /\ ~cancelled /\ cancelled' = TRUE
  /\ UNCHANGED <<worker, guard, proc, run, call, stopper, runs, stops>>

(* start_worker takes a live worker as it is.                              *)
NeverReused == FALSE
Reusable == worker \in Alive

Reuse ==
  /\ run.stage = "load" /\ guard = Free /\ Reusable
  /\ run' = [run EXCEPT !.stage = "ask", !.worker = worker]
  /\ UNCHANGED <<worker, guard, proc, call, stopper, cancelled, runs, stops>>

(* Loading a new one takes the lock; a process that reports a failure, or  *)
(* nothing for too long, is stopped and the batch ends.                    *)
Load(n) ==
  /\ run.stage = "load" /\ guard = Free /\ ~Reusable /\ proc[n].stage = "none"
  /\ guard' = Loading /\ run' = [run EXCEPT !.stage = "loading", !.worker = n]
  /\ proc' = [proc EXCEPT ![n].stage = "up"]
  /\ UNCHANGED <<worker, call, stopper, cancelled, runs, stops>>

Loaded ==
  /\ run.stage = "loading" /\ guard' = Free
  /\ \/ worker' = run.worker /\ run' = [run EXCEPT !.stage = "ask"] /\ proc' = proc
     \/ worker' = worker /\ run' = NoRun /\ proc' = [proc EXCEPT ![run.worker].stage = "down"]
  /\ UNCHANGED <<call, stopper, cancelled, runs, stops>>

Ask ==
  /\ run.stage = "ask" /\ ~cancelled
  /\ run' = [run EXCEPT !.stage = "wait"]
  /\ call' = [call EXCEPT ![Mine] = [NotCalled EXCEPT !.stage = "lock", !.worker = run.worker]]
  /\ UNCHANGED <<worker, guard, proc, stopper, cancelled, runs, stops>>

(* After an item: the next, or the end.                                    *)
GivesUp(r) == r.good = 0 /\ r.failed >= Patience
Onward(r) ==
  IF r.item = Items \/ GivesUp(r) THEN [r EXCEPT !.stage = "release"]
  ELSE [r EXCEPT !.stage = "ask", !.item = @ + 1]

(* An item fails when its post is gone, its call raises, or its answer     *)
(* cannot be read or stored.                                               *)
ItemFails ==
  /\ \/ run.stage = "ask" /\ ~cancelled
     \/ run.stage = "wait" /\ call[Mine].stage \in {"answered", "failed"}
  /\ run' = Onward([run EXCEPT !.failed = @ + 1])
  /\ call' = [call EXCEPT ![Mine] = NotCalled]
  /\ UNCHANGED <<worker, guard, proc, stopper, cancelled, runs, stops>>

ItemDone ==
  /\ run.stage = "wait" /\ call[Mine].stage = "answered"
  /\ run' = Onward([run EXCEPT !.good = @ + 1])
  /\ call' = [call EXCEPT ![Mine] = NotCalled]
  /\ UNCHANGED <<worker, guard, proc, stopper, cancelled, runs, stops>>

(* should_stop, between two items or while an answer is awaited.           *)
StopSeen ==
  /\ cancelled
  /\ \/ run.stage = "ask"
     \/ run.stage = "wait" /\ call[Mine].stage \in {"lock", "sent"}
  /\ run' = [run EXCEPT !.stage = "release", !.abandoned = run.stage = "wait"]
  /\ UNCHANGED <<worker, guard, proc, call, stopper, cancelled, runs, stops>>

(* _release: at once, or by a thread of its own when a call is abandoned.  *)
Forgotten == AtRest
Wanted == [stage |-> "want", only |-> run.worker]

Release ==
  /\ run.stage = "release"
  /\ IF run.abandoned
     THEN stopper' = [stopper EXCEPT ![runs] = Wanted] /\ run' = NoRun
     ELSE /\ stopper' = [stopper EXCEPT ![Job].stage = "want"]
          /\ run' = [run EXCEPT !.stage = "releasing"]
  /\ UNCHANGED <<worker, guard, proc, call, cancelled, runs, stops>>

Released ==
  /\ run.stage = "releasing" /\ stopper[Job].stage = "off" /\ run' = NoRun
  /\ UNCHANGED <<worker, guard, proc, call, stopper, cancelled, runs, stops>>

BatchStep ==
  \/ Reuse \/ (\E n \in Loads : Load(n)) \/ Loaded
  \/ Ask \/ ItemFails \/ ItemDone \/ StopSeen \/ Release \/ Released

-----------------------------------------------------------------------------
(* Worker.generate, one thread at a time.                                  *)

(* What the call brings is dropped when its batch no longer waits.         *)
Awaited(c) == run.stage = "wait" /\ c = Mine
Ended(c, stage, answer) ==
  call' = [call EXCEPT ![c] = IF Awaited(c) THEN [@ EXCEPT !.stage = stage, !.answer = answer]
                              ELSE NotCalled]

(* Once the input is closed, or the process gone, writing raises.          *)
Write(c) ==
  LET n == call[c].worker
      id == proc[n].ids + 1
  IN /\ call[c].stage = "lock" /\ proc[n].lock = NoCall
     /\ IF proc[n].stage = "up"
        THEN /\ proc' = [proc EXCEPT ![n].ids = id, ![n].lock = c,
                           ![n].asked = Append(@, [id |-> id, of |-> c, good |-> TRUE])]
             /\ call' = [call EXCEPT ![c].stage = "sent", ![c].id = id]
        ELSE /\ proc' = [proc EXCEPT ![n].ids = id]
             /\ Ended(c, "failed", NoCall)
     /\ UNCHANGED <<worker, guard, run, stopper, cancelled, runs, stops>>

(* An answer to an earlier request is skipped.                             *)
AnyAnswer(c, message) == TRUE
Answers(c, message) == message.id = call[c].id

Hear(c) ==
  LET n == call[c].worker
      message == Head(proc[n].said)
  IN /\ call[c].stage = "sent" /\ proc[n].said # <<>>
     /\ LET over == message = Closed \/ Answers(c, message) IN
          /\ proc' = [proc EXCEPT ![n].said = Tail(@), ![n].lock = IF over THEN NoCall ELSE @]
          /\ IF ~over THEN call' = call
             ELSE Ended(c, IF message.good THEN "answered" ELSE "failed", message.of)
     /\ UNCHANGED <<worker, guard, run, stopper, cancelled, runs, stops>>

(* No answer within REQUEST_TIMEOUT.                                       *)
TimeOut(c) ==
  LET n == call[c].worker IN
  /\ call[c].stage = "sent" /\ proc[n].said = <<>> /\ n \in Alive
  /\ proc' = [proc EXCEPT ![n].lock = NoCall] /\ Ended(c, "failed", NoCall)
  /\ UNCHANGED <<worker, guard, run, stopper, cancelled, runs, stops>>

(* The process answers, well or with an error, and may die at any time.    *)
Answer(n) ==
  /\ n \in Alive /\ proc[n].asked # <<>>
  /\ \E good \in BOOLEAN :
       proc' = [proc EXCEPT ![n].asked = Tail(@),
                            ![n].said = Append(@, [Head(proc[n].asked) EXCEPT !.good = good])]
  /\ UNCHANGED <<worker, guard, run, call, stopper, cancelled, runs, stops>>

Dies(n) ==
  /\ proc[n].stage = "up" /\ guard # Loading
  /\ proc' = [proc EXCEPT ![n].stage = "down", ![n].asked = <<>>, ![n].said = Append(@, Closed)]
  /\ UNCHANGED <<worker, guard, run, call, stopper, cancelled, runs, stops>>

-----------------------------------------------------------------------------
(* stop_worker, under the lock: by a batch, by an abandoned batch's thread *)
(* that means only that batch's worker, by the user and at shutdown.       *)

UserStops ==
  /\ stopper[User].stage = "off" /\ stops < MaxStops
  /\ stopper' = [stopper EXCEPT ![User].stage = "want"] /\ stops' = stops + 1
  /\ UNCHANGED <<worker, guard, proc, run, call, cancelled, runs>>

Meant(s) == stopper[s].only \in {NoWorker, worker}

StopBegin(s) ==
  /\ stopper[s].stage = "want" /\ guard = Free
  /\ IF Meant(s) /\ worker \in Alive
     THEN /\ guard' = s /\ stopper' = [stopper EXCEPT ![s].stage = "stopping"]
          /\ proc' = [proc EXCEPT ![worker].stage = "closing"] /\ worker' = worker
     ELSE /\ stopper' = [stopper EXCEPT ![s] = AtRest]
          /\ worker' = IF Meant(s) THEN NoWorker ELSE worker
          /\ UNCHANGED <<guard, proc>>
  /\ UNCHANGED <<run, call, cancelled, runs, stops>>

(* The process has read its input to the end and left, or is killed.       *)
StopEnd(s) ==
  /\ stopper[s].stage = "stopping" /\ guard' = Free
  /\ stopper' = [stopper EXCEPT ![s] = AtRest]
  /\ proc' = IF worker \in Alive
             THEN [proc EXCEPT ![worker].stage = "down", ![worker].asked = <<>>,
                               ![worker].said = Append(@, Closed)]
             ELSE proc
  /\ worker' = NoWorker
  /\ UNCHANGED <<run, call, cancelled, runs, stops>>

-----------------------------------------------------------------------------

SuggestNext ==
  \/ SuggestStart \/ Cancel \/ BatchStep \/ UserStops
  \/ \E c \in Calls : Write(c) \/ Hear(c) \/ TimeOut(c)
  \/ \E n \in Loads : Answer(n) \/ Dies(n)
  \/ \E s \in Stoppers : StopBegin(s) \/ StopEnd(s)

(* The threads go on, and so does the process; the user owes nothing.      *)
SuggestFairness ==
  /\ WF_suggestVars(BatchStep)
  /\ \A c \in Calls : WF_suggestVars(Write(c) \/ Hear(c) \/ TimeOut(c))
  /\ \A n \in Loads : WF_suggestVars(Answer(n))
  /\ \A s \in Stoppers : WF_suggestVars(StopBegin(s)) /\ WF_suggestVars(StopEnd(s))
SuggestSpec == SuggestInit /\ [][SuggestNext]_suggestVars /\ SuggestFairness

-----------------------------------------------------------------------------

(* An answer is taken only by the call it answers, although calls time out *)
(* and their answers come late (Worker.generate).                          *)
AnswersItsCall == \A c \in Calls : call[c].stage = "answered" => call[c].answer = c

(* Two models are never loaded at once, although batches are abandoned and *)
(* the model is unloaded by other threads ("a single GPU resource").       *)
OneModel == Cardinality(Alive) <= 1

(* The GPU is given back: when no batch runs, the model leaves, or the     *)
(* next batch has begun (service.py, "the model is loaded once per batch   *)
(* and released when the batch ends").                                     *)
ModelReleased == [](run.stage = "off" => <>(Alive = {} \/ run.stage # "off"))

(* An abandoned batch's thread stops the worker "only while no later run   *)
(* has taken the worker over" (_release).                                  *)
LaterRunKept ==
  [][\A s \in Runs : stopper[s].stage = "want" /\ stopper'[s].stage = "stopping" =>
       ~(run.stage \in {"ask", "wait"} /\ run.worker = worker)]_suggestVars
=============================================================================
