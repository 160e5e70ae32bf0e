--------------------------- MODULE MCRequestQueue ---------------------------
(* Small request directories for TLC. *)
EXTENDS RequestQueue, TLC

CONSTANTS k1, k2

(* Rebuilds of one key. *)
SameKey == [i \in Id |-> k1]

(* An inline request, rebuilds of one key and one of another. *)
Mixed == [i \in Id |-> CASE i = 1 -> Inline [] i = 4 -> k2 [] OTHER -> k1]
=============================================================================
