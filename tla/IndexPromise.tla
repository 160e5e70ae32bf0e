---------------------------- MODULE IndexPromise ----------------------------
(***************************************************************************)
(* What the index scheduler promises about one repo, whatever queues and   *)
(* flags it keeps: a trigger makes the repo due; a due repo stays due      *)
(* until an index of it starts after the trigger, or until it is dropped   *)
(* because its circuit is open; and a repo has one running index at most.  *)
(***************************************************************************)
CONSTANT Repo

VARIABLES due, running, open

vars == <<due, running, open>>

Init ==
    /\ due     = {}
    /\ running = {}
    /\ open    = {}

Trigger(r) == due' = due \cup {r} /\ UNCHANGED <<running, open>>

(* The index that starts may have begun too early for the newest trigger,  *)
(* which then stays due.                                                   *)
Start(r) ==
    /\ r \in due \ running
    /\ running' = running \cup {r}
    /\ due' \in {due, due \ {r}}
    /\ UNCHANGED open

Finish(r) ==
    /\ r \in running
    /\ running' = running \ {r}
    /\ UNCHANGED <<due, open>>

(* The circuit opens after a failed index and closes by time or success. *)
Circuit(r) == open' \in {open \cup {r}, open \ {r}} /\ UNCHANGED <<due, running>>

Drop(r) ==
    /\ r \in due \cap open
    /\ due' = due \ {r}
    /\ UNCHANGED <<running, open>>

Next == \E r \in Repo :
            Trigger(r) \/ Start(r) \/ Finish(r) \/ Circuit(r) \/ Drop(r)

Spec == Init /\ [][Next]_vars
=============================================================================
