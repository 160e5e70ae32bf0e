------------------------------ MODULE RepoClaim ------------------------------
(***************************************************************************)
(* What the claim registry promises its callers, whatever objects, maps    *)
(* and condition variables it keeps: per repo, the foreground rebuilds     *)
(* that want it and who holds it.  A rebuild wants the repo from the       *)
(* moment it asks until it gives it back; a background index gets a repo   *)
(* only when nobody holds or wants it, and never waits.                    *)
(***************************************************************************)
CONSTANTS Key, Fg, Bg

VARIABLES want, holders

vars == <<want, holders>>

Init ==
    /\ want    = [k \in Key |-> {}]
    /\ holders = [k \in Key |-> {}]

Take(p, k) ==
    /\ holders[k] = {}
    /\ holders' = [holders EXCEPT ![k] = {p}]

(* A rebuild asks, and may get the repo at once if it is free. *)
Ask(p, k) ==
    /\ \A l \in Key : p \notin want[l]
    /\ want' = [want EXCEPT ![k] = @ \cup {p}]
    /\ Take(p, k) \/ UNCHANGED holders

Get(p, k) ==
    /\ p \in want[k]
    /\ Take(p, k)
    /\ UNCHANGED want

Borrow(p, k) ==
    /\ want[k] = {}
    /\ Take(p, k)
    /\ UNCHANGED want

GiveBack(p, k) ==
    /\ holders[k] = {p}
    /\ holders' = [holders EXCEPT ![k] = {}]
    /\ want'    = [want EXCEPT ![k] = @ \ {p}]

Next == \E k \in Key :
    \/ \E p \in Fg : Ask(p, k) \/ Get(p, k) \/ GiveBack(p, k)
    \/ \E p \in Bg : Borrow(p, k) \/ GiveBack(p, k)

Spec == Init /\ [][Next]_vars
=============================================================================
