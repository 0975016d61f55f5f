---------------------------- MODULE MCConnection ----------------------------
(* Instances of Connection for TLC.                                        *)
EXTENDS Connection, TLC

(* Grants are interchangeable; the runs of one thread use it.  ConnTokens  *)
(* checks liveness and does without.                                       *)
AlikeGrants == Permutations(Grants)
=============================================================================
