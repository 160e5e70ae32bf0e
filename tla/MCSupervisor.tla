---------------------------- MODULE MCSupervisor ----------------------------
(* A small daemon root for TLC. *)
EXTENDS Supervisor, TLC
=============================================================================
