---------------------------- MODULE MCStageGate ----------------------------
(* Small gates for TLC. *)
EXTENDS StageGate, TLC

CONSTANTS g1, g2, r1, r2

(* r1 belongs to g1; r2 to no group: its index only occupies the machine. *)
OneGroup == [r \in Repo |-> IF r = r1 THEN {g1} ELSE {}]

(* Every repo belongs to every group. *)
AllGroups == [r \in Repo |-> Group]
=============================================================================
