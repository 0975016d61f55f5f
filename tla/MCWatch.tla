------------------------------- MODULE MCWatch ------------------------------
(* An instance of Watch for TLC: one retry, a beat after the publish time. *)
EXTENDS Watch

MCDelays == <<1>>
=============================================================================
