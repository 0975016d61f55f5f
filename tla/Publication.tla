---------------------------- MODULE Publication ----------------------------
(***************************************************************************)
(* What a push promises of a post on CivitAI, without runs, requests and   *)
(* crashes: there is at most one copy of it, and the program announces     *)
(* that copy - gives it a publish time of its own accord - only when it is *)
(* whole, with every image and without the internal marker.  People may    *)
(* delete a copy or set a publish time by hand at any moment.              *)
(***************************************************************************)
EXTENDS Naturals

CONSTANT Posts

VARIABLE shown  \* of each post: its copies, is it whole, who set a time

Absent == [copies |-> 0, whole |-> FALSE, timed |-> "no"]

TypeOK ==
  shown \in [Posts -> [copies : 0 .. 1, whole : BOOLEAN, timed : {"no", "push", "hand"}]]

Init == shown = [p \in Posts |-> Absent]

Create(p) ==
  /\ shown[p] = Absent
  /\ shown' = [shown EXCEPT ![p].copies = 1]

Complete(p) ==
  /\ shown[p].copies = 1 /\ ~shown[p].whole
  /\ shown' = [shown EXCEPT ![p].whole = TRUE]

Announce(p) ==
  /\ shown[p].copies = 1 /\ shown[p].whole
  /\ shown' = [shown EXCEPT ![p].timed = "push"]

SetTimeByHand(p) ==
  /\ shown[p].copies = 1
  /\ shown' = [shown EXCEPT ![p].timed = "hand"]

Remove(p) ==
  /\ shown[p].copies = 1
  /\ shown' = [shown EXCEPT ![p] = Absent]

Next == \E p \in Posts :
  Create(p) \/ Complete(p) \/ Announce(p) \/ SetTimeByHand(p) \/ Remove(p)

Spec == Init /\ [][Next]_shown
=============================================================================
