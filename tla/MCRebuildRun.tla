----------------------------- MODULE MCRebuildRun -----------------------------
(* Rebuilds that share a group, and rebuilds that share a repo. *)
EXTENDS RebuildRun, TLC

CONSTANTS r1, r2, r3, g1, g2, a, b, t1a, t1b, t3

(* r1 and r2 rebuild g1; r3 rebuilds g2, which has a repo of g1. *)
RunGroup == r1 :> g1 @@ r2 :> g1 @@ r3 :> g2
TaskRun  == t1a :> r1 @@ t1b :> r1 @@ t3 :> r3
TaskRepo == t1a :> a @@ t1b :> b @@ t3 :> b
=============================================================================
