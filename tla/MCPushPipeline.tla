-------------------------- MODULE MCPushPipeline --------------------------
(* Instances of PushPipeline for TLC. *)
EXTENDS PushInvariants, TLC

(* Posts, images and remote ids are interchangeable. *)
Symmetric == Permutations(Posts) \cup Permutations(Images) \cup Permutations(Remotes)

(* No step reads what a deleted post carried, and nothing changes it: the  *)
(* invariants were asked of it when the post was there.                    *)
Carried == <<mode, local, table, thread, usr, owner, live, siteTime,
             [r \in live |-> <<siteTag[r], setBy[r], att[r]>>]>>
=============================================================================
