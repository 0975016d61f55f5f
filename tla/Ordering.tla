------------------------------ MODULE Ordering ------------------------------
(* Finite sets as sequences, and parts of sequences: what the program does *)
(* with sorted(), with a list comprehension and with enumerate().          *)
EXTENDS Integers, Sequences, FiniteSets

(* The members of S by the strict order `before`: each by how many of the *)
(* others come before it.                                                  *)
After(k, S, before) == CHOOSE x \in S : Cardinality({y \in S : <<y, x>> \in before}) = k
Ordered(S, before) == [i \in 1 .. Cardinality(S) |-> After(i - 1, S, before)]
ById(ids) == Ordered(ids, {p \in ids \X ids : p[1] < p[2]})

(* The members of a sequence that are at these places.                     *)
AtPlaces(s, places) == LET at == ById(places) IN [i \in DOMAIN at |-> s[at[i]]]
=============================================================================
