-------------------------- MODULE MCResidentGraph --------------------------
(* A small server and state directory for TLC. *)
EXTENDS ResidentGraph, TLC

(* The first generation is a segment set, the next ones are files. *)
Shrinking == [g \in Gen |-> IF g = 1 THEN "dir" ELSE "file"]
=============================================================================
