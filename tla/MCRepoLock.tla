---------------------------- MODULE MCRepoLock ----------------------------
(* A small registry for TLC. *)
EXTENDS RepoLock, TLC
=============================================================================
