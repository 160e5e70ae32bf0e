--------------------------- MODULE StageGateProofs ---------------------------
(***************************************************************************)
(* For every set of groups, repos, arms, epochs and barges: at most one    *)
(* heavy stage that was not abandoned, and none beside an index; a cancel  *)
(* of a group reaches every pass of it that is at work; Stop reaches every *)
(* pass; no re-run, deferral marker or drain barrier is left without an    *)
(* owner.  The invariant ties the token of the gate to the registration    *)
(* that CancelGroup finds passes by: two records of the same fact that the *)
(* code updates in different critical sections.                            *)
(***************************************************************************)
EXTENDS StageGate, TLAPS

GateType == [holder : Epoch \cup {None},
             age : {"fresh", "overdue", "forfeited", "abandonable"},
             drain : Stage \cup {None}, drainOld : BOOLEAN,
             barge : [Barge -> {"none", "fresh", "old"}]]
PassType == [Epoch -> Pass \cup {NoPass}]

GateInv ==
    /\ gate \in GateType
    /\ gate.holder = None => gate.age = "fresh"
    /\ gate.drainOld => gate.drain # None

(* A token and a registration name a pass that is there; the registration  *)
(* is of the pass's stage, and gone before the pass re-arms or leaves.     *)
HolderInv ==
    /\ pass \in PassType
    /\ token \in [Stage -> Epoch \cup {None}]
    /\ gate.holder # None => pass[gate.holder] # NoPass
    /\ \A s \in Stage : token[s] # None =>
          /\ pass[token[s]] # NoPass /\ pass[token[s]].stage = s
          /\ pass[token[s]].phase \notin {"rearming", "leaving"}

CountInv ==
    /\ index \in [Repo -> {"idle", "admitted", "running"}]
    /\ linkGen \in [Repo -> [Group -> Gen]]
    /\ arming \subseteq Group \X Gen
    /\ seq \in [Group -> Nat]
    /\ sweep \in (Group \X Gen \X BOOLEAN) \cup {None}
    /\ registered \subseteq Group
    /\ stopping \in {"no", "signalled", "done"}
    /\ budget \in [{"indexed", "cancels", "sweeps", "barges"} -> Nat]
    /\ \A g \in Group : seq[g] + budget["cancels"] <= MaxCancels

TimerTypes ==
    /\ timer \in [Stage -> Arm \cup {None}]
    /\ arm \in [Stage -> Arm \cup {None}]
    /\ ticking \subseteq Stage \X Arm
    /\ firing \subseteq Stage \X Arm
    /\ born \in [Stage -> [Arm -> Gen]]
    /\ deferSince \in [Stage -> {"none", "short", "long"}]
    /\ rerun \subseteq Group
    /\ deferred \subseteq Group

(* A pass at work under a live context is the one that its stage has       *)
(* registered, where a cancel finds it, and was started since the last.    *)
AtWork(e) == /\ Alive(e) /\ pass[e].fate = "live"
             /\ pass[e].phase \in {"queued", "running", "chaining", "returned"}
Registered == \A e \in Epoch : AtWork(e) => token[pass[e].stage] = e
PassesAreCurrent ==
    \A e \in Epoch : AtWork(e) => pass[e].gen = seq[pass[e].stage[2]]
LiveInv == OneHeavyStage /\ StopReachesEveryPass /\ Registered /\ PassesAreCurrent

(* The arms of the link timers are of the current generation, and those of *)
(* the algorithm timers if no overlay sweep arms them.  Once stopped, no   *)
(* body that fired is authorised any more.                                 *)
Fresh(s) == arm[s] # None => born[s][arm[s]] = seq[s[2]]
LinkArmsAreCurrent == \A g \in Group : Fresh(links(g))
ArmInv ==
    /\ LinkArmsAreCurrent
    /\ budget["sweeps"] <= MaxSweeps
    /\ MaxSweeps = 0 => sweep = None /\ \A s \in Stage : Fresh(s)
    /\ stopping = "done" => \A s \in Stage, a \in Arm : <<s, a>> \in firing => arm[s] # a

GateProofInv ==
    /\ GateInv /\ HolderInv /\ CountInv /\ TimerTypes
    /\ LiveInv /\ ArmInv /\ NothingStranded
-----------------------------------------------------------------------------
(* The operators of the model.                                             *)

(* The constants, as far as the proofs use them. *)
LEMMA Constants ==
    /\ None \notin Arm /\ None \notin Epoch /\ None \notin Stage
    /\ \A g \in Group : links(g) \in Stage /\ algo(g) \in Stage
    /\ \A g \in Group : links(g)[2] = g /\ algo(g)[2] = g
    /\ \A g \in Group : links(g)[1] = "links" /\ algo(g)[1] = "algo"
    /\ \A g, h \in Group : links(g) # algo(h)
    /\ \A g, h \in Group : (links(g) = links(h) => g = h) /\ (algo(g) = algo(h) => g = h)
    /\ \A s \in Stage : s[2] \in Group /\ (s = links(s[2]) \/ s = algo(s[2]))
    /\ \A s \in Stage : s[1] = "links" <=> s = links(s[2])
    /\ \A s \in Stage : s[1] = "algo" <=> s = algo(s[2])
    /\ MaxCancels \in Nat /\ MaxSweeps \in Nat
BY NoneAssumption, BoundAssumption DEF Stage, links, algo

(* A pass is never mistaken for the empty entry. *)
LEMMA PassFields ==
    /\ NoPass \notin Pass /\ NoPass.phase = "none"
    /\ \A p \in Pass : /\ p.phase \in PassPhase /\ p.stage \in Stage /\ p.gen \in Gen
                       /\ p.fate \in {"live", "cancelled", "abandoned"}
                       /\ p # NoPass /\ p.phase # "none"
<1>1. NoPass.phase = "none"
  BY DEF NoPass
<1>2. \A p \in Pass : /\ p.phase \in PassPhase /\ p.stage \in Stage /\ p.gen \in Gen
                      /\ p.fate \in {"live", "cancelled", "abandoned"}
  BY DEF Pass
<1>3. "none" \notin PassPhase
  BY DEF PassPhase
<1> QED BY <1>1, <1>2, <1>3

(* What q makes of the passes p when only fates change: nobody comes,      *)
(* nobody leaves, and no fate becomes live.                                *)
OnlyFates(p, q) ==
    /\ q \in PassType
    /\ \A e \in Epoch : p[e] = NoPass <=> q[e] = NoPass
    /\ \A e \in Epoch : p[e] # NoPass =>
         /\ q[e].phase = p[e].phase /\ q[e].stage = p[e].stage /\ q[e].gen = p[e].gen
         /\ q[e].fate = "live" => p[e].fate = "live"
         /\ p[e].fate = "abandoned" => q[e].fate = "abandoned"

(* Another fate for a pass. *)
LEMMA OtherFate ==
    ASSUME NEW p \in Pass, NEW f \in {"live", "cancelled", "abandoned"}
    PROVE  /\ [p EXCEPT !.fate = f] \in Pass
           /\ [p EXCEPT !.fate = f].phase = p.phase /\ [p EXCEPT !.fate = f].stage = p.stage
           /\ [p EXCEPT !.fate = f].gen = p.gen /\ [p EXCEPT !.fate = f].fate = f
BY DEF Pass

(* A reap abandons the holder it gives up on, and touches no other pass. *)
LEMMA ReapedFacts ==
    ASSUME NEW p \in PassType
    PROVE  /\ OnlyFates(p, Reaped(p))
           /\ \A e \in Epoch : Reaped(p)[e] # NoPass =>
                Reaped(p)[e].fate = IF Abandons(gate) /\ e = gate.holder THEN "abandoned"
                                    ELSE p[e].fate
<1>1. \A e \in Epoch : p[e] \in Pass \cup {NoPass}
  BY DEF PassType
<1>2. ASSUME NEW e \in Epoch
      PROVE  /\ Reaped(p)[e] \in Pass \cup {NoPass}
             /\ p[e] = NoPass <=> Reaped(p)[e] = NoPass
             /\ p[e] # NoPass =>
                  /\ Reaped(p)[e].phase = p[e].phase /\ Reaped(p)[e].stage = p[e].stage
                  /\ Reaped(p)[e].gen = p[e].gen
                  /\ Reaped(p)[e].fate = IF Abandons(gate) /\ e = gate.holder THEN "abandoned"
                                         ELSE p[e].fate
  <2>1. Reaped(p)[e] = IF Abandons(gate) /\ e = gate.holder /\ p[e] # NoPass
                       THEN [p[e] EXCEPT !.fate = "abandoned"] ELSE p[e]
    BY DEF Reaped
  <2>2. PICK x \in Pass \cup {NoPass} : x = p[e]
    BY <1>1
  <2>3. CASE x = NoPass
    BY <2>1, <2>2, <2>3
  <2>4. CASE x # NoPass
    <3>1. x \in Pass
      BY <2>4
    <3>2. PICK y \in Pass : /\ y = [x EXCEPT !.fate = "abandoned"] /\ y.phase = x.phase
                            /\ y.stage = x.stage /\ y.gen = x.gen /\ y.fate = "abandoned"
      BY <3>1, OtherFate
    <3>3. y # NoPass
      BY PassFields
    <3> QED BY <2>1, <2>2, <3>1, <3>2, <3>3
  <2> QED BY <2>3, <2>4
<1>3. Reaped(p) \in PassType
  <2>1. Reaped(p) = [e \in Epoch |-> Reaped(p)[e]]
    BY DEF Reaped
  <2> QED BY <1>2, <2>1, Zenon DEF PassType
<1> QED BY <1>2, <1>3 DEF OnlyFates

(* Cancelling ends the contexts it is given. *)
LEMMA CancelledFacts ==
    ASSUME NEW p \in PassType, NEW E
    PROVE  /\ OnlyFates(p, Cancelled(p, E))
           /\ \A e \in Epoch : e \in E /\ Cancelled(p, E)[e] # NoPass => Cancelled(p, E)[e].fate # "live"
<1>1. \A e \in Epoch : p[e] \in Pass \cup {NoPass}
  BY DEF PassType
<1>2. ASSUME NEW e \in Epoch
      PROVE  /\ Cancelled(p, E)[e] \in Pass \cup {NoPass}
             /\ p[e] = NoPass <=> Cancelled(p, E)[e] = NoPass
             /\ p[e] # NoPass =>
                  /\ Cancelled(p, E)[e].phase = p[e].phase /\ Cancelled(p, E)[e].stage = p[e].stage
                  /\ Cancelled(p, E)[e].gen = p[e].gen
                  /\ Cancelled(p, E)[e].fate =
                       IF e \in E /\ p[e].fate = "live" THEN "cancelled" ELSE p[e].fate
  <2>1. Cancelled(p, E)[e] = IF e \in E /\ p[e] # NoPass /\ p[e].fate = "live"
                             THEN [p[e] EXCEPT !.fate = "cancelled"] ELSE p[e]
    BY DEF Cancelled
  <2>2. PICK x \in Pass \cup {NoPass} : x = p[e]
    BY <1>1
  <2>3. CASE x = NoPass
    BY <2>1, <2>2, <2>3
  <2>4. CASE x # NoPass
    <3>1. x \in Pass
      BY <2>4
    <3>2. PICK y \in Pass : /\ y = [x EXCEPT !.fate = "cancelled"] /\ y.phase = x.phase
                            /\ y.stage = x.stage /\ y.gen = x.gen /\ y.fate = "cancelled"
      BY <3>1, OtherFate
    <3>3. y # NoPass
      BY PassFields
    <3> QED BY <2>1, <2>2, <3>1, <3>2, <3>3
  <2> QED BY <2>3, <2>4
<1>3. Cancelled(p, E) \in PassType
  <2>1. Cancelled(p, E) = [e \in Epoch |-> Cancelled(p, E)[e]]
    BY DEF Cancelled
  <2> QED BY <1>2, <2>1, Zenon DEF PassType
<1> QED BY <1>2, <1>3 DEF OnlyFates

(* A reap lets a token go only from a holder that it abandons, and lifts   *)
(* barriers only.                                                          *)
LEMMA ReapFacts ==
    ASSUME GateInv
    PROVE  /\ Reap(gate) \in GateType
           /\ Reap(gate).holder = IF Abandons(gate) THEN None ELSE gate.holder
           /\ Reap(gate).holder = None => Reap(gate).age = "fresh"
           /\ Reap(gate).drain \in {gate.drain, None}
           /\ Reap(gate).drainOld => Reap(gate).drain # None
<1>1. PICK g \in GateType : g = gate
  BY DEF GateInv
<1>2. PICK h : h = (CASE Abandons(g)      -> Vacated(g)
                      [] g.age = "overdue" -> [g EXCEPT !.age = "forfeited"]
                      [] OTHER             -> g)
  OBVIOUS
<1>12. /\ h \in GateType /\ h.holder = IF Abandons(g) THEN None ELSE g.holder
       /\ h.drain = g.drain /\ h.drainOld = g.drainOld /\ h.barge = g.barge
       /\ h.holder = None => h.age = "fresh"
  <2>1. CASE Abandons(g)
    <3>1. g.age # "overdue" /\ h = Vacated(g)
      BY <1>2, <2>1 DEF Abandons
    <3> QED BY <2>1, <3>1 DEF Vacated, GateType
  <2>2. CASE ~ Abandons(g) /\ g.age = "overdue"
    <3>1. h = [g EXCEPT !.age = "forfeited"]
      BY <1>2, <2>2
    <3>2. g.holder # None
      BY <1>1, <2>2 DEF GateInv
    <3> QED BY <2>2, <3>1, <3>2 DEF GateType
  <2>3. CASE ~ Abandons(g) /\ g.age # "overdue"
    <3>1. h = g
      BY <1>2, <2>3
    <3> QED BY <1>1, <2>3, <3>1 DEF GateInv
  <2> QED BY <2>1, <2>2, <2>3
<1>3. PICK b : b = [x \in Barge |-> IF h.barge[x] = "old" THEN "none" ELSE h.barge[x]]
  OBVIOUS
<1>4. b \in [Barge -> {"none", "fresh", "old"}]
  BY <1>3, <1>12 DEF GateType
<1>5. PICK d \in Stage \cup {None} : d = IF g.drainOld /\ InFlight = {} THEN None ELSE h.drain
  BY <1>12 DEF GateType
<1>6. PICK o \in BOOLEAN : o = (h.drainOld /\ InFlight # {})
  OBVIOUS
<1>7. Reap(g) = [h EXCEPT !.drain = d, !.drainOld = o, !.barge = b]
  <2>1. Reap(g) = [h EXCEPT !.drain = IF g.drainOld /\ InFlight = {} THEN None ELSE @,
                            !.drainOld = @ /\ InFlight # {},
                            !.barge = [x \in Barge |-> IF @[x] = "old" THEN "none" ELSE @[x]]]
    BY <1>2 DEF Reap
  <2> QED BY <1>3, <1>5, <1>6, <1>12, <2>1 DEF GateType
<1>8. PICK r : r = Reap(g)
  OBVIOUS
<1>9. /\ r \in GateType /\ r.holder = h.holder /\ r.age = h.age
      /\ r.drain = d /\ r.drainOld = o
  BY <1>4, <1>7, <1>8, <1>12 DEF GateType
<1>10. o => d # None
  BY <1>1, <1>5, <1>6, <1>12 DEF GateInv
<1> QED BY <1>1, <1>5, <1>8, <1>9, <1>10, <1>12

(* A stage that loses its barrier. *)
LEMMA WithoutDrainFacts ==
    ASSUME NEW g \in GateType, g.drainOld => g.drain # None, NEW s
    PROVE  /\ WithoutDrain(g, s) \in GateType
           /\ WithoutDrain(g, s).holder = g.holder /\ WithoutDrain(g, s).age = g.age
           /\ WithoutDrain(g, s).drain = IF g.drain = s THEN None ELSE g.drain
           /\ WithoutDrain(g, s).drainOld => WithoutDrain(g, s).drain # None
<1>1. CASE g.drain = s
  BY <1>1 DEF WithoutDrain, GateType
<1>2. CASE g.drain # s
  BY <1>2 DEF WithoutDrain
<1> QED BY <1>1, <1>2

(* An arm that nothing refers to, if there is one. *)
LEMMA FreshArmFacts ==
    ASSUME NEW s \in Stage, HasFreshArm(s)
    PROVE  /\ FreshArm(s) \in Arm /\ FreshArm(s) \notin {timer[s], arm[s]}
           /\ <<s, FreshArm(s)>> \notin ticking \cup firing
BY DEF HasFreshArm, FreshArm

(* A stage has a new arm, of generation n, that no body is waiting for. *)
NewArm(s, n) == /\ arm'[s] \in Arm /\ born'[s][arm'[s]] = n
                /\ <<s, arm'[s]>> \notin firing
SameArm(s) == arm'[s] = arm[s] /\ born'[s] = born[s]

(* The generation of one arm. *)
LEMMA ArmBorn ==
    ASSUME NEW b \in [Arm -> Gen], NEW a \in Arm, NEW n \in Gen
    PROVE  [b EXCEPT ![a] = n] \in [Arm -> Gen] /\ [b EXCEPT ![a] = n][a] = n
OBVIOUS

(* Arming replaces the timer of one stage. *)
LEMMA RearmFacts ==
    ASSUME TimerTypes, NEW s \in Stage, NEW n \in Gen, NEW f, f \subseteq firing, Rearm(s, n, f)
    PROVE  /\ timer' \in [Stage -> Arm \cup {None}] /\ arm' \in [Stage -> Arm \cup {None}]
           /\ ticking' \subseteq Stage \X Arm /\ firing' \subseteq Stage \X Arm
           /\ born' \in [Stage -> [Arm -> Gen]]
           /\ firing' = f /\ NewArm(s, n) /\ timer'[s] # None
           /\ \A q \in Stage : q # s => SameArm(q) /\ timer'[q] = timer[q]
<1> USE DEF TimerTypes
<1>1. PICK a \in Arm : a = FreshArm(s) /\ <<s, a>> \notin firing
  BY FreshArmFacts DEF Rearm
<1>2. /\ timer' = [timer EXCEPT ![s] = a] /\ arm' = [arm EXCEPT ![s] = a]
      /\ ticking' = (ticking \ {<<s, timer[s]>>}) \cup {<<s, a>>} /\ firing' = f
      /\ born' = [born EXCEPT ![s][a] = n]
  BY <1>1 DEF Rearm
<1>3. PICK b \in [Arm -> Gen] : b = born[s]
  OBVIOUS
<1>4. PICK c : c = [b EXCEPT ![a] = n]
  OBVIOUS
<1>10. c \in [Arm -> Gen] /\ c[a] = n
  BY <1>4, ArmBorn
<1>5. born' = [born EXCEPT ![s] = c]
  BY <1>2, <1>3, <1>4
<1>6. born' \in [Stage -> [Arm -> Gen]] /\ born'[s] = c /\ \A q \in Stage : q # s => born'[q] = born[q]
  BY <1>5, <1>10
<1>7. /\ arm' \in [Stage -> Arm \cup {None}] /\ arm'[s] = a
      /\ \A q \in Stage : q # s => arm'[q] = arm[q]
  BY <1>2
<1>8. /\ timer' \in [Stage -> Arm \cup {None}] /\ timer'[s] = a
      /\ \A q \in Stage : q # s => timer'[q] = timer[q]
  BY <1>2
<1>9. ticking' \subseteq Stage \X Arm /\ firing' \subseteq Stage \X Arm
  BY <1>2
<1> QED BY <1>1, <1>2, <1>6, <1>7, <1>8, <1>9, <1>10, Constants DEF NewArm, SameArm

(* Disarming takes the timer of one stage away. *)
LEMMA DisarmFacts ==
    ASSUME TimerTypes, NEW s \in Stage, NEW f, f \subseteq firing, Disarm(s, f)
    PROVE  /\ timer' \in [Stage -> Arm \cup {None}] /\ arm' \in [Stage -> Arm \cup {None}]
           /\ ticking' \subseteq Stage \X Arm /\ firing' \subseteq Stage \X Arm
           /\ born' \in [Stage -> [Arm -> Gen]]
           /\ firing' = f /\ born' = born /\ arm'[s] = None
           /\ \A q \in Stage : q # s => arm'[q] = arm[q]
BY DEF TimerTypes, Disarm

(* What scheduling the algorithm pass of g can do: arm its timer anew, for *)
(* work of generation n, and drop its deferral and barrier; or ask the     *)
(* registered pass to run again; or nothing.                               *)
Scheduled(g, n) ==
    /\ TimerTypes' /\ GateInv'
    /\ gate'.holder = gate.holder /\ gate'.drain \in {gate.drain, None}
    /\ firing' = firing /\ deferred' \subseteq deferred
    /\ \A h \in rerun' : h \in rerun \/ token[algo(h)] # None
    /\ \A q \in Stage : q # algo(g) => SameArm(q)
    /\ SameArm(algo(g)) \/ NewArm(algo(g), n)

(* scheduleGroupAlgoFor and its guards. *)
LEMMA ScheduleFacts ==
    ASSUME TimerTypes, GateInv, NEW g \in Group, NEW n \in Gen,
           ScheduleAlgo(g, n) \/ NoSchedule
    PROVE  Scheduled(g, n)
<1> USE Constants
<1>0. algo(g) \in Stage
  OBVIOUS
<1>1. ASSUME UNCHANGED timerVars, UNCHANGED <<gate, deferSince, deferred>>,
             rerun' = rerun \/ (rerun' = rerun \cup {g} /\ token[algo(g)] # None)
      PROVE  Scheduled(g, n)
  <2>1. TimerTypes'
    BY <1>1 DEF TimerTypes, timerVars
  <2>2. GateInv' /\ gate' = gate
    BY <1>1 DEF GateInv
  <2> QED BY <1>1, <2>1, <2>2 DEF Scheduled, SameArm, timerVars
<1>2. CASE NoSchedule
  BY <1>1, <1>2 DEF NoSchedule
<1>3. CASE token[algo(g)] # None /\ ScheduleAlgo(g, n)
  BY <1>1, <1>3 DEF ScheduleAlgo
<1>4. CASE token[algo(g)] = None /\ ScheduleAlgo(g, n) /\ UNCHANGED timerVars /\ rerun' = rerun
           /\ UNCHANGED <<gate, deferSince, deferred>>
  BY <1>1, <1>4
<1>5. CASE /\ Rearm(algo(g), n, firing) /\ rerun' = WithoutRerun(g) /\ deferred' = deferred \ {g}
           /\ deferSince' = [deferSince EXCEPT ![algo(g)] = "none"]
           /\ gate' = WithoutDrain(gate, algo(g))
  <2>1. /\ timer' \in [Stage -> Arm \cup {None}] /\ arm' \in [Stage -> Arm \cup {None}]
        /\ ticking' \subseteq Stage \X Arm /\ firing' \subseteq Stage \X Arm
        /\ born' \in [Stage -> [Arm -> Gen]]
        /\ firing' = firing /\ NewArm(algo(g), n)
        /\ \A q \in Stage : q # algo(g) => SameArm(q)
    BY <1>0, <1>5, RearmFacts
  <2>2. TimerTypes'
    BY <1>5, <2>1 DEF TimerTypes, WithoutRerun
  <2>3. GateInv' /\ gate'.holder = gate.holder /\ gate'.drain \in {gate.drain, None}
    BY <1>5, WithoutDrainFacts DEF GateInv
  <2> QED BY <1>5, <2>1, <2>2, <2>3 DEF Scheduled, WithoutRerun
<1> QED BY <1>2, <1>3, <1>4, <1>5 DEF ScheduleAlgo

-----------------------------------------------------------------------------
(* Frames: what a step must leave alone to keep a part of the invariant.   *)

(* An arm stays, or is new and current, or is gone with the barrier that   *)
(* its stage owns; the overlay sweep may arm an algorithm timer late.      *)
ArmMoves(q) ==
    \/ arm'[q] = arm[q] /\ born'[q] = born[q] /\ seq'[q[2]] = seq[q[2]]
    \/ /\ arm'[q] \in Arm /\ <<q, arm'[q]>> \notin firing'
       /\ \/ born'[q][arm'[q]] = seq'[q[2]]
          \/ MaxSweeps # 0 /\ q = algo(q[2])
    \/ arm'[q] = None /\ gate'.drain # q

(* Steps that move arms so keep the arms current and barriers owned. *)
LEMMA ArmsKept ==
    ASSUME ArmInv, DrainHasOwner, CountInv, GateInv, \A q \in Stage : ArmMoves(q),
           stopping' = "done" => /\ firing' \subseteq firing
                                 /\ stopping = "done" \/ \A q \in Stage : arm'[q] = None,
           \/ gate'.drain \in {gate.drain, None} 
           \/ gate'.drain \in Stage /\ arm'[gate'.drain] \in Arm,
           budget'["sweeps"] <= MaxSweeps, MaxSweeps = 0 => sweep' = None
    PROVE  ArmInv' /\ DrainHasOwner'
<1> USE Constants
<1>1. ASSUME NEW q \in Stage, Fresh(q), ArmMoves(q), MaxSweeps = 0 \/ q # algo(q[2])
      PROVE  Fresh(q)'
  BY <1>1 DEF Fresh, ArmMoves
<1>2. LinkArmsAreCurrent'
  BY <1>1 DEF LinkArmsAreCurrent, ArmInv
<1>3. MaxSweeps = 0 => \A s \in Stage : Fresh(s)'
  BY <1>1 DEF ArmInv
<1>4. ASSUME stopping' = "done", NEW s \in Stage, NEW a \in Arm, <<s, a>> \in firing'
      PROVE  arm'[s] # a
  <2>1. <<s, a>> \in firing
    BY <1>4
  <2>2. CASE stopping = "done"
    <3>1. arm[s] # a
      BY <2>1, <2>2 DEF ArmInv
    <3> QED BY <1>4, <3>1 DEF ArmMoves
  <2>3. CASE arm'[s] = None
    BY <2>3
  <2> QED BY <1>4, <2>2, <2>3
<1>5. ArmInv'
  BY <1>2, <1>3, <1>4 DEF ArmInv
<1>6. DrainHasOwner'
  <2> SUFFICES ASSUME gate'.drain # None PROVE arm'[gate'.drain] # None
    BY DEF DrainHasOwner
  <2>1. CASE gate'.drain \in Stage /\ arm'[gate'.drain] \in Arm
    BY <2>1
  <2>2. CASE gate'.drain = gate.drain
    <3>1. gate'.drain \in Stage /\ arm[gate.drain] # None
      BY <2>2 DEF DrainHasOwner, GateInv, GateType
    <3>2. ArmMoves(gate'.drain)
      BY <3>1
    <3> QED BY <2>2, <3>1, <3>2 DEF ArmMoves
  <2> QED BY <2>1, <2>2
<1> QED BY <1>5, <1>6

(* Steps that change nothing of the passes but fates, towards their end,   *)
(* keep token and registrations with them.                                 *)
LEMMA FatesKept ==
    ASSUME HolderInv, LiveInv, OnlyFates(pass, pass'), token' = token, seq' = seq,
           \/ gate'.holder = gate.holder
           \/ /\ gate'.holder = None
              /\ \A e \in Epoch : e = gate.holder => pass'[e].fate = "abandoned",
           InFlight' \subseteq InFlight \/ gate'.holder = None,
           gate.holder \in Epoch \cup {None},
           stopping' # "no" => \/ stopping # "no"
                               \/ \A e \in Epoch : pass'[e] # NoPass => pass'[e].fate # "live"
    PROVE  HolderInv' /\ LiveInv'
<1> USE Constants
<1>1. HolderInv'
  BY DEF HolderInv, OnlyFates
<1>2. OneHeavyStage'
  <2>1. \A e \in Epoch : pass'[e] # NoPass /\ pass'[e].fate # "abandoned" => gate'.holder = e
    BY DEF LiveInv, OneHeavyStage, Alive, OnlyFates
  <2>2. gate'.holder # None => InFlight' = {}
    BY DEF LiveInv, OneHeavyStage
  <2> QED BY <2>1, <2>2 DEF OneHeavyStage, Alive
<1>3. StopReachesEveryPass'
  BY DEF LiveInv, StopReachesEveryPass, Alive, OnlyFates
<1>4. \A e \in Epoch : AtWork(e)' => AtWork(e) /\ pass'[e].stage = pass[e].stage
                                                 /\ pass'[e].gen = pass[e].gen
  BY DEF AtWork, Alive, OnlyFates
<1>5. Registered' /\ PassesAreCurrent'
  BY <1>4 DEF Registered, PassesAreCurrent, LiveInv
<1> QED BY <1>1, <1>2, <1>3, <1>5 DEF LiveInv

(* The generation of a group is one that the bounds allow. *)
LEMMA GenBounded ==
    ASSUME CountInv, NEW g \in Group
    PROVE  seq[g] \in Gen
<1>1. PICK n \in Nat : n = seq[g]
  BY DEF CountInv
<1>2. PICK m \in Nat : m = budget["cancels"]
  BY DEF CountInv
<1>3. n + m <= MaxCancels
  BY <1>1, <1>2 DEF CountInv
<1> QED BY <1>1, <1>3, Constants DEF Gen

(* A re-run request keeps its server while registrations stay. *)
LEMMA RerunKept ==
    ASSUME RerunHasServer, rerun' \subseteq Group,
           \A h \in rerun' : h \in rerun \/ token[algo(h)] # None,
           \A h \in Group : token[algo(h)] # None => token'[algo(h)] # None
    PROVE  RerunHasServer'
BY DEF RerunHasServer

(* A pass of the group algorithm that has not done its bookkeeping. *)
Serving(e) == /\ Alive(e) /\ pass[e].stage = algo(pass[e].stage[2])
              /\ pass[e].phase \in {"queued", "running", "returned"}

(* The marker of a deferred pass keeps its timer or its pass. *)
LEMMA MarkerKept ==
    ASSUME MarkerBalanced, deferred \subseteq Group, deferred' \subseteq deferred,
           stopping' = stopping \/ stopping' # "done",
           \A g \in Group : arm[algo(g)] # None => arm'[algo(g)] # None,
           \A e \in Epoch : Serving(e) => Serving(e)' /\ pass'[e].stage = pass[e].stage
    PROVE  MarkerBalanced'
<1> USE Constants
<1> SUFFICES ASSUME NEW g \in deferred'
             PROVE  /\ stopping' # "done"
                    /\ \/ arm'[algo(g)] # None
                       \/ \E e \in Epoch : /\ Alive(e)' /\ pass'[e].stage = algo(g)
                                           /\ pass'[e].phase \in {"queued", "running", "returned"}
  BY DEF MarkerBalanced
<1>1. g \in deferred /\ g \in Group
  OBVIOUS
<1>2. stopping' # "done"
  BY <1>1 DEF MarkerBalanced
<1>3. CASE arm[algo(g)] # None
  BY <1>1, <1>2, <1>3
<1>4. ASSUME NEW e \in Epoch, Alive(e), pass[e].stage = algo(g),
             pass[e].phase \in {"queued", "running", "returned"}
      PROVE  /\ Alive(e)' /\ pass'[e].stage = algo(g)
             /\ pass'[e].phase \in {"queued", "running", "returned"}
  BY <1>1, <1>4 DEF Serving
<1> QED BY <1>1, <1>2, <1>3, <1>4 DEF MarkerBalanced

(* New fates leave a pass at its bookkeeping. *)
LEMMA FatesServe ==
    ASSUME OnlyFates(pass, pass'), NEW e \in Epoch, Serving(e)
    PROVE  Serving(e)' /\ pass'[e].stage = pass[e].stage
BY DEF OnlyFates, Serving, Alive

(* Nothing of the timers changes, and no barrier is raised. *)
LEMMA TimersAlone ==
    ASSUME TimerTypes, ArmInv, NothingStranded, CountInv, GateInv,
           UNCHANGED <<timerVars, seq, token, rerun, deferred>>,
           deferSince' \in [Stage -> {"none", "short", "long"}],
           OnlyFates(pass, pass'), stopping' = stopping \/ stopping' # "done",
           gate'.drain \in {gate.drain, None},
           budget'["sweeps"] <= MaxSweeps, MaxSweeps = 0 => sweep' = None
    PROVE  TimerTypes' /\ ArmInv' /\ NothingStranded'
<1>1. TimerTypes'
  BY DEF TimerTypes, timerVars
<1>2. ArmInv' /\ DrainHasOwner'
  <2>1. \A q \in Stage : ArmMoves(q)
    BY DEF ArmMoves, timerVars
  <2> QED BY <2>1, ArmsKept DEF timerVars, NothingStranded
<1>3. RerunHasServer'
  BY <1>1, RerunKept DEF TimerTypes, NothingStranded
<1>4. MarkerBalanced'
  BY MarkerKept, FatesServe DEF NothingStranded, timerVars, TimerTypes
<1> QED BY <1>1, <1>2, <1>3, <1>4 DEF NothingStranded

(* The passes and their registrations as they were. *)
LEMMA SamePasses ==
    ASSUME pass \in PassType, pass' = pass
    PROVE  OnlyFates(pass, pass')
BY DEF OnlyFates

(* A step of a pass from one phase to another. *)
LEMMA StepFacts ==
    ASSUME pass \in PassType, NEW e \in Epoch, NEW from \in PassPhase, NEW to \in PassPhase,
           Step(e, from, to)
    PROVE  /\ pass[e] \in Pass /\ pass[e].phase = from /\ pass' \in PassType
           /\ pass'[e] \in Pass /\ pass'[e].phase = to /\ pass'[e].stage = pass[e].stage
           /\ pass'[e].gen = pass[e].gen /\ pass'[e].fate = pass[e].fate
           /\ \A x \in Epoch : x # e => pass'[x] = pass[x]
<1>1. PICK p : p = pass[e]
  OBVIOUS
<1>2. p \in Pass /\ p.phase = from
  <2>1. p \in Pass \cup {NoPass} /\ p.phase = from
    BY <1>1 DEF Step, PassType
  <2>2. from # "none"
    BY DEF PassPhase
  <2> QED BY <2>1, <2>2, PassFields
<1>3. PICK q : q = [p EXCEPT !.phase = to]
  OBVIOUS
<1>4. /\ q \in Pass /\ q.phase = to /\ q.stage = p.stage /\ q.gen = p.gen /\ q.fate = p.fate
  BY <1>2, <1>3 DEF Pass
<1>5. pass' = [pass EXCEPT ![e] = q]
  BY <1>1, <1>3 DEF Step
<1> QED BY <1>1, <1>2, <1>4, <1>5 DEF PassType

(* A pass goes on, short of its bookkeeping or past it. *)
LEMMA PhaseMoves ==
    ASSUME HolderInv, LiveInv, gate.holder \in Epoch \cup {None},
           NEW e \in Epoch, NEW from \in PassPhase, NEW to \in PassPhase,
           Step(e, from, to), from \in {"rearming", "leaving"} <=> to \in {"rearming", "leaving"},
           gate'.holder = gate.holder, index' = index, UNCHANGED <<token, seq, stopping>>
    PROVE  HolderInv' /\ LiveInv'
<1> USE Constants
<1>1. /\ pass[e] \in Pass /\ pass[e].phase = from /\ pass' \in PassType
      /\ pass'[e] \in Pass /\ pass'[e].phase = to /\ pass'[e].stage = pass[e].stage
      /\ pass'[e].gen = pass[e].gen /\ pass'[e].fate = pass[e].fate
      /\ \A x \in Epoch : x # e => pass'[x] = pass[x]
  BY StepFacts DEF HolderInv
<1>2. pass[e] # NoPass /\ pass'[e] # NoPass
  BY <1>1, PassFields
<1>3. HolderInv'
  <2>1. \A x \in Epoch : pass[x] # NoPass => pass'[x] # NoPass /\ pass'[x].stage = pass[x].stage
    BY <1>1, <1>2
  <2>2. \A x \in Epoch : /\ pass[x] # NoPass
                         /\ pass[x].phase \notin {"rearming", "leaving"}
                         => pass'[x].phase \notin {"rearming", "leaving"}
    BY <1>1
  <2>3. gate.holder # None => pass'[gate.holder] # NoPass
    BY <2>1 DEF HolderInv
  <2>4. ASSUME NEW s \in Stage, token[s] # None
        PROVE  /\ pass'[token[s]] # NoPass /\ pass'[token[s]].stage = s
               /\ pass'[token[s]].phase \notin {"rearming", "leaving"}
    BY <2>1, <2>2, <2>4 DEF HolderInv
  <2> QED BY <1>1, <2>3, <2>4 DEF HolderInv
<1>4. InFlight' = InFlight
  BY DEF InFlight
<1>5. \A x \in Epoch : /\ Alive(x)' <=> Alive(x)
                       /\ Alive(x) => /\ pass'[x].fate = pass[x].fate
                                      /\ pass'[x].stage = pass[x].stage
                                      /\ pass'[x].gen = pass[x].gen
  BY <1>1, <1>2 DEF Alive
<1>6. OneHeavyStage' /\ StopReachesEveryPass'
  BY <1>4, <1>5 DEF LiveInv, OneHeavyStage, StopReachesEveryPass
<1>7. \A x \in Epoch : AtWork(x)' => AtWork(x)
  BY <1>1, <1>5 DEF AtWork, PassPhase
<1>8. Registered' /\ PassesAreCurrent'
  BY <1>5, <1>7 DEF LiveInv, Registered, PassesAreCurrent, AtWork
<1> QED BY <1>3, <1>6, <1>8 DEF LiveInv

(* A reap keeps the token and the registrations what they are.             *)
LEMMA ReapKeeps ==
    ASSUME GateInv, HolderInv, LiveInv, gate' = Reap(gate), pass' = Reaped(pass),
           UNCHANGED <<token, seq, stopping>>, InFlight' \subseteq InFlight \/ gate'.holder = None
    PROVE  /\ GateInv' /\ HolderInv' /\ LiveInv' /\ OnlyFates(pass, pass')
           /\ gate'.drain \in {gate.drain, None}
<1>1. GateInv' /\ gate'.drain \in {gate.drain, None}
  BY ReapFacts DEF GateInv
<1>2. /\ OnlyFates(pass, pass')
      /\ \A e \in Epoch : pass'[e] # NoPass /\ Abandons(gate) /\ e = gate.holder
                            => pass'[e].fate = "abandoned"
  BY ReapedFacts DEF HolderInv
<1>3. gate.holder \in Epoch \cup {None}
  BY DEF GateInv, GateType
<1>4. \/ gate'.holder = gate.holder
      \/ /\ gate'.holder = None
         /\ \A e \in Epoch : e = gate.holder => pass'[e].fate = "abandoned"
  <2>1. CASE Abandons(gate)
    <3>1. gate'.holder = None
      BY <2>1, ReapFacts
    <3>2. \A e \in Epoch : e = gate.holder => pass'[e] # NoPass
      BY <1>2, <2>1 DEF HolderInv, OnlyFates, Abandons
    <3> QED BY <1>2, <2>1, <3>1, <3>2
  <2>2. CASE ~ Abandons(gate)
    BY <2>2, ReapFacts
  <2> QED BY <2>1, <2>2
<1>5. HolderInv' /\ LiveInv'
  BY <1>2, <1>3, <1>4, FatesKept
<1> QED BY <1>1, <1>2, <1>5

(* A dispatch that is let in, or held. *)
LEMMA AdmitKeeps ==
    ASSUME GateProofInv, (\E r \in Repo : Admit(r)) \/ HoldAdmission
    PROVE  GateProofInv'
<1> USE DEF GateProofInv
<1>1. /\ gate' = Reap(gate) /\ pass' = Reaped(pass)
      /\ UNCHANGED <<timerVars, seq, deferSince, token, rerun, deferred, sweep, registered,
                     stopping, linkGen, arming, budget>>
      /\ index' \in [Repo -> {"idle", "admitted", "running"}]
  BY DEF Admit, HoldAdmission, indexFrame, indexVars, CountInv
<1>2. InFlight' \subseteq InFlight \/ gate'.holder = None
  BY <1>1 DEF Admit, HoldAdmission, Open, InFlight, indexVars
<1>3. /\ GateInv' /\ HolderInv' /\ LiveInv' /\ OnlyFates(pass, pass')
      /\ gate'.drain \in {gate.drain, None}
  BY <1>1, <1>2, ReapKeeps
<1>4. CountInv'
  BY <1>1 DEF CountInv
<1>5. TimerTypes' /\ ArmInv' /\ NothingStranded'
  BY <1>1, <1>3, TimersAlone DEF ArmInv, TimerTypes
<1> QED BY <1>3, <1>4, <1>5

(* Nothing but the index jobs, the sweep, the registry or the bounds moves. *)
LEMMA OthersKeep ==
    ASSUME GateProofInv,
           UNCHANGED <<timerVars, seq, gate, deferSince, passVars, rerun, deferred>>,
           CountInv', InFlight' \subseteq InFlight,
           stopping' = stopping, budget'["sweeps"] <= MaxSweeps, MaxSweeps = 0 => sweep' = None
    PROVE  GateProofInv'
<1> USE DEF GateProofInv
<1>1. GateInv' /\ gate'.drain \in {gate.drain, None}
  BY DEF GateInv
<1>2. OnlyFates(pass, pass')
  BY SamePasses DEF HolderInv, passVars
<1>3. HolderInv' /\ LiveInv'
  <2>1. gate.holder \in Epoch \cup {None}
    BY DEF GateInv, GateType
  <2> QED BY <1>2, <2>1, FatesKept DEF passVars
<1>4. TimerTypes' /\ ArmInv' /\ NothingStranded'
  BY <1>1, <1>2, TimersAlone DEF passVars, TimerTypes
<1> QED BY <1>1, <1>3, <1>4

(* An index job that starts, or ends and has link passes to arm. *)
LEMMA IndexKeeps ==
    ASSUME GateProofInv, NEW r \in Repo, IndexStarts(r) \/ IndexEnds(r)
    PROVE  GateProofInv'
<1> USE DEF GateProofInv
<1>1. \A g \in Group : seq[g] \in Gen
  BY GenBounded
<1>2. /\ UNCHANGED <<timerVars, seq, gate, deferSince, passVars, rerun, deferred,
                     sweep, registered, stopping>>
      /\ index' \in [Repo -> {"idle", "admitted", "running"}] /\ InFlight' \subseteq InFlight
  BY DEF IndexStarts, IndexEnds, indexFrame, passVars, CountInv, InFlight
<1>3. linkGen' \in [Repo -> [Group -> Gen]]
  <2>1. seq \in [Group -> Gen]
    BY <1>1 DEF CountInv
  <2> QED BY <2>1 DEF IndexStarts, IndexEnds, CountInv
<1>4. /\ arming' \subseteq Group \X Gen
      /\ budget' \in [{"indexed", "cancels", "sweeps", "barges"} -> Nat]
      /\ budget'["cancels"] = budget["cancels"] /\ budget'["sweeps"] = budget["sweeps"]
  <2>1. CASE UNCHANGED <<arming, budget>>
    BY <2>1 DEF CountInv
  <2>2. CASE /\ budget["indexed"] > 0
             /\ budget' = [budget EXCEPT !["indexed"] = @ - 1]
             /\ arming' = arming \cup
                   {<<g, linkGen[r][g]>> : g \in GroupsOf[r] \cap registered}
    <3>1. \A g \in Group : linkGen[r][g] \in Gen
      BY DEF CountInv
    <3>2. arming' \subseteq Group \X Gen
      BY <2>2, <3>1 DEF CountInv
    <3>3. PICK n \in Nat : n = budget["indexed"]
      BY DEF CountInv
    <3>4. n - 1 \in Nat
      BY <2>2, <3>3
    <3> QED BY <2>2, <3>2, <3>3, <3>4 DEF CountInv
  <2> QED BY <2>1, <2>2 DEF IndexStarts, IndexEnds
<1>5. CountInv'
  BY <1>2, <1>3, <1>4 DEF CountInv
<1> QED BY <1>2, <1>4, <1>5, OthersKeep DEF ArmInv

(* The registry and the sweep's search leave passes and timers alone. *)
LEMMA RegistryKeeps ==
    ASSUME GateProofInv,
           \/ \E g \in Group : Unregister(g) \/ SweepFinds(g)
           \/ SweepChecks
    PROVE  GateProofInv'
<1> USE DEF GateProofInv
<1>1. UNCHANGED <<timerVars, seq, gate, deferSince, passVars, rerun, deferred,
                  indexVars, arming, stopping>>
  BY DEF Unregister, SweepFinds, SweepChecks, sweepFrame
<1>2. sweep' \in (Group \X Gen \X BOOLEAN) \cup {None}
  <2>1. CASE \E g \in Group : Unregister(g)
    BY <2>1 DEF Unregister, CountInv
  <2>2. CASE \E g \in Group : SweepFinds(g)
    <3>1. PICK g \in Group : sweep' = <<g, seq[g], FALSE>>
      BY <2>2 DEF SweepFinds
    <3>2. seq[g] \in Gen
      BY GenBounded
    <3> QED BY <3>1, <3>2
  <2>3. CASE SweepChecks
    <3>1. CASE AlgoBusy(sweep[1])
      BY <2>3, <3>1 DEF SweepChecks
    <3>2. CASE ~ AlgoBusy(sweep[1])
      <4>1. PICK g \in Group, n \in Gen, b \in BOOLEAN : sweep = <<g, n, b>>
        BY <2>3 DEF SweepChecks, CountInv
      <4> QED BY <2>3, <3>2, <4>1 DEF SweepChecks
    <3> QED BY <3>1, <3>2
  <2> QED BY <2>1, <2>2, <2>3
<1>3. /\ registered' \subseteq Group
      /\ budget' \in [{"indexed", "cancels", "sweeps", "barges"} -> Nat]
      /\ budget'["cancels"] = budget["cancels"] /\ budget'["sweeps"] <= MaxSweeps
      /\ MaxSweeps = 0 => sweep' = None
  <2>1. CASE \E g \in Group : Unregister(g)
    BY <2>1 DEF Unregister, CountInv, ArmInv
  <2>2. CASE \E g \in Group : SweepFinds(g)
    <3>1. PICK n \in Nat : n = budget["sweeps"]
      BY DEF CountInv
    <3>2. n > 0 /\ budget' = [budget EXCEPT !["sweeps"] = n - 1] /\ registered' = registered
      BY <2>2, <3>1 DEF SweepFinds, sweepFrame
    <3>3. n - 1 \in Nat /\ n <= MaxSweeps /\ MaxSweeps \in Nat
      BY <3>1, <3>2, Constants DEF ArmInv
    <3>4. n - 1 <= MaxSweeps /\ MaxSweeps # 0
      BY <3>2, <3>3
    <3> QED BY <3>2, <3>3, <3>4 DEF CountInv
  <2>3. CASE SweepChecks
    BY <2>3 DEF SweepChecks, sweepFrame, CountInv, ArmInv
  <2> QED BY <2>1, <2>2, <2>3
<1>4. CountInv' /\ InFlight' = InFlight
  BY <1>1, <1>2, <1>3 DEF CountInv, indexVars, InFlight
<1> QED BY <1>1, <1>3, <1>4, OthersKeep

(* Nothing but timers, barriers, markers and re-runs moves. *)
passesSame == <<indexVars, arming, seq, passVars, sweep, registered, stopping, budget>>

(* The parts that such a step keeps without more ado. *)
LEMMA PassesSame ==
    ASSUME GateProofInv, pass' = pass, gate'.holder = gate.holder,
           UNCHANGED <<indexVars, token, seq, stopping>>
    PROVE  HolderInv' /\ LiveInv' /\ OnlyFates(pass, pass')
<1>1. OnlyFates(pass, pass')
  BY SamePasses DEF GateProofInv, HolderInv
<1>2. gate.holder \in Epoch \cup {None} /\ InFlight' \subseteq InFlight
  BY DEF GateProofInv, GateInv, GateType, InFlight, indexVars
<1> QED BY <1>1, <1>2, FatesKept DEF GateProofInv

(* scheduleLinksFor arms a timer of the current generation or none. *)
LEMMA ScheduleLinksKeeps ==
    ASSUME GateProofInv, NEW g \in Group, NEW n \in Gen, ScheduleLinks(g, n)
    PROVE  GateProofInv'
<1> USE Constants DEF GateProofInv
<1>1. /\ UNCHANGED <<indexVars, seq, gate, deferSince, pass, token, rerun, deferred,
                     sweep, registered, stopping, budget>>
      /\ arming' = arming \ {<<g, n>>}
  BY DEF ScheduleLinks, passVars
<1>2. GateInv' /\ CountInv' /\ gate'.drain = gate.drain
  BY <1>1 DEF GateInv, CountInv, indexVars
<1>3. HolderInv' /\ LiveInv' /\ OnlyFates(pass, pass')
  BY <1>1, PassesSame
<1>4. CASE UNCHANGED timerVars
  <2>1. TimerTypes' /\ ArmInv' /\ NothingStranded'
    BY <1>1, <1>2, <1>3, <1>4, TimersAlone DEF ArmInv, TimerTypes
  <2> QED BY <1>2, <1>3, <2>1
<1>5. CASE Current(g, n) /\ Rearm(links(g), n, firing)
  <2>1. /\ timer' \in [Stage -> Arm \cup {None}] /\ arm' \in [Stage -> Arm \cup {None}]
        /\ ticking' \subseteq Stage \X Arm /\ firing' \subseteq Stage \X Arm
        /\ born' \in [Stage -> [Arm -> Gen]]
        /\ firing' = firing /\ NewArm(links(g), n)
        /\ \A q \in Stage : q # links(g) => SameArm(q)
    BY <1>5, RearmFacts
  <2>2. TimerTypes'
    BY <1>1, <2>1 DEF TimerTypes
  <2>3. ASSUME NEW q \in Stage PROVE ArmMoves(q)
    <3>1. CASE q = links(g)
      BY <1>1, <1>5, <2>1, <3>1 DEF NewArm, ArmMoves, Current
    <3>2. CASE q # links(g)
      BY <1>1, <2>1, <3>2 DEF SameArm, ArmMoves
    <3> QED BY <3>1, <3>2
  <2>4. ArmInv' /\ DrainHasOwner'
    BY <1>1, <1>2, <2>1, <2>3, ArmsKept DEF NothingStranded, ArmInv
  <2>5. RerunHasServer'
    BY <1>1 DEF NothingStranded, RerunHasServer
  <2>6. \A h \in Group : arm'[algo(h)] = arm[algo(h)]
    BY <2>1 DEF SameArm
  <2>7. MarkerBalanced'
    BY <1>1, <1>3, <2>6, MarkerKept, FatesServe DEF NothingStranded, TimerTypes
  <2> QED BY <1>2, <1>3, <2>2, <2>4, <2>5, <2>7 DEF NothingStranded
<1> QED BY <1>4, <1>5 DEF ScheduleLinks

(* A timer that fires, or a body that finds itself disarmed. *)
LEMMA FiringKeeps ==
    ASSUME GateProofInv, NEW s \in Stage, NEW a \in Arm, TimerFires(s, a) \/ FireStale(s, a)
    PROVE  GateProofInv'
<1> USE Constants DEF GateProofInv
<1>1. /\ UNCHANGED <<indexVars, arming, seq, timer, arm, born, gate, deferSince, pass, token,
                     rerun, deferred, sweep, registered, stopping, budget>>
      /\ ticking' \subseteq ticking /\ firing' \subseteq Stage \X Arm
      /\ stopping # "no" => firing' \subseteq firing
  BY DEF TimerFires, FireStale, passVars, bodyFrame, TimerTypes
<1>2. GateInv' /\ CountInv' /\ gate'.drain = gate.drain
  BY <1>1 DEF GateInv, CountInv, indexVars
<1>3. HolderInv' /\ LiveInv' /\ OnlyFates(pass, pass')
  BY <1>1, PassesSame
<1>4. TimerTypes'
  BY <1>1 DEF TimerTypes
<1>5. ArmInv' /\ DrainHasOwner'
  <2>1. \A q \in Stage : ArmMoves(q)
    BY <1>1 DEF ArmMoves
  <2> QED BY <1>1, <1>2, <2>1, ArmsKept DEF NothingStranded, ArmInv
<1>6. RerunHasServer' /\ MarkerBalanced'
  BY <1>1, <1>3, MarkerKept, FatesServe DEF NothingStranded, RerunHasServer, TimerTypes
<1> QED BY <1>2, <1>3, <1>4, <1>5, <1>6 DEF NothingStranded

(* A stage that may not have the token yet is armed again, for the same    *)
(* work; if it waited long enough, the barrier it raises is its own.       *)
LEMMA FireDefersKeeps ==
    ASSUME GateProofInv, NEW s \in Stage, NEW a \in Arm, FireDefers(s, a)
    PROVE  GateProofInv'
<1> USE Constants DEF GateProofInv
<1>1. /\ UNCHANGED <<indexVars, arming, seq, token, rerun, sweep, registered, stopping, budget>>
      /\ <<s, a>> \in firing /\ arm[s] = a
      /\ gate' = NoteDefer(s, Reap(gate)) /\ pass' = Reaped(pass)
      /\ deferSince' = [deferSince EXCEPT ![s] = Started(s)]
      /\ deferred' = deferred \/ (s = algo(s[2]) /\ deferred' = deferred \cup {s[2]})
  BY DEF FireDefers, bodyFrame, Authorised
<1>2. PICK r : r = Reap(gate)
  OBVIOUS
<1>3. /\ r \in GateType /\ r.drain \in {gate.drain, None}
      /\ r.holder = IF Abandons(gate) THEN None ELSE gate.holder
      /\ r.holder = None => r.age = "fresh"
      /\ r.drainOld => r.drain # None
  BY <1>2, ReapFacts
<1>4. /\ GateInv' /\ gate'.holder = r.holder
      /\ gate'.drain \in {gate.drain, None} \/ gate'.drain = s
  BY <1>1, <1>2, <1>3 DEF NoteDefer, GateInv, GateType
<1>5. OnlyFates(pass, pass')
  BY <1>1, ReapedFacts DEF HolderInv
<1>6. HolderInv' /\ LiveInv'
  <2>1. gate.holder \in Epoch \cup {None} /\ InFlight' \subseteq InFlight
    BY <1>1 DEF GateInv, GateType, InFlight, indexVars
  <2>2. \/ gate'.holder = gate.holder
        \/ /\ gate'.holder = None
           /\ \A e \in Epoch : e = gate.holder => pass'[e].fate = "abandoned"
    <3>1. CASE Abandons(gate)
      <4>1. gate'.holder = None
        BY <1>3, <1>4, <3>1
      <4>2. \A e \in Epoch : e = gate.holder => pass'[e] # NoPass
        BY <1>5, <3>1 DEF HolderInv, OnlyFates, Abandons
      <4>3. \A e \in Epoch : e = gate.holder => pass'[e].fate = "abandoned"
        BY <1>1, <3>1, <4>2, ReapedFacts DEF HolderInv
      <4> QED BY <4>1, <4>3
    <3>2. CASE ~ Abandons(gate)
      BY <1>3, <1>4, <3>2
    <3> QED BY <3>1, <3>2
  <2> QED BY <1>1, <1>5, <2>1, <2>2, FatesKept
<1>7. CountInv'
  BY <1>1 DEF CountInv, indexVars
<1>8. PICK n \in Gen : n = born[s][a]
  BY DEF TimerTypes
<1>9. /\ timer' \in [Stage -> Arm \cup {None}] /\ arm' \in [Stage -> Arm \cup {None}]
      /\ ticking' \subseteq Stage \X Arm /\ firing' \subseteq Stage \X Arm
      /\ born' \in [Stage -> [Arm -> Gen]]
      /\ firing' = firing \ {<<s, a>>} /\ NewArm(s, n)
      /\ \A q \in Stage : q # s => SameArm(q)
  <2>1. Rearm(s, n, firing \ {<<s, a>>})
    BY <1>8 DEF FireDefers
  <2>2. PICK f : f = firing \ {<<s, a>>}
    OBVIOUS
  <2> QED BY <2>1, <2>2, RearmFacts
<1>10. TimerTypes'
  <2>1. Started(s) \in {"none", "short", "long"}
    BY DEF Started, TimerTypes
  <2>2. deferSince' \in [Stage -> {"none", "short", "long"}]
    BY <1>1, <2>1 DEF TimerTypes
  <2>3. deferred' \subseteq Group /\ rerun' \subseteq Group
    BY <1>1 DEF TimerTypes
  <2> QED BY <1>9, <2>2, <2>3 DEF TimerTypes
<1>11. ArmInv' /\ DrainHasOwner'
  <2>1. ASSUME NEW q \in Stage PROVE ArmMoves(q)
    <3>1. CASE q = s
      <4>1. n = seq[s[2]] \/ (MaxSweeps # 0 /\ s = algo(s[2]))
        BY <1>1, <1>8 DEF ArmInv, LinkArmsAreCurrent, Fresh
      <4> QED BY <1>1, <1>9, <3>1, <4>1 DEF NewArm, ArmMoves
    <3>2. CASE q # s
      BY <1>1, <1>9, <3>2 DEF SameArm, ArmMoves
    <3> QED BY <3>1, <3>2
  <2>2. arm'[s] \in Arm
    BY <1>9 DEF NewArm
  <2> QED BY <1>1, <1>4, <1>9, <2>1, <2>2, ArmsKept DEF NothingStranded, ArmInv
<1>12. RerunHasServer'
  BY <1>1 DEF NothingStranded, RerunHasServer
<1>13. MarkerBalanced'
  <2>1. stopping # "done"
    BY <1>1 DEF ArmInv
  <2>2. \A h \in Group : arm[algo(h)] # None => arm'[algo(h)] # None
    BY <1>9 DEF SameArm, NewArm
  <2>3. arm'[s] # None
    BY <1>9 DEF NewArm
  <2>4. \A e \in Epoch : Serving(e) => Serving(e)' /\ pass'[e].stage = pass[e].stage
    BY <1>5, FatesServe
  <2>5. ASSUME NEW g \in deferred', g \in deferred
        PROVE  \/ arm'[algo(g)] # None
               \/ \E e \in Epoch : /\ Alive(e)' /\ pass'[e].stage = algo(g)
                                   /\ pass'[e].phase \in {"queued", "running", "returned"}
    <3>1. g \in Group
      BY <2>5 DEF TimerTypes
    <3>2. ASSUME NEW e \in Epoch, Alive(e), pass[e].stage = algo(g),
                 pass[e].phase \in {"queued", "running", "returned"}
          PROVE  /\ Alive(e)' /\ pass'[e].stage = algo(g)
                 /\ pass'[e].phase \in {"queued", "running", "returned"}
      BY <2>4, <3>1, <3>2 DEF Serving
    <3> QED BY <2>2, <2>5, <3>1, <3>2 DEF NothingStranded, MarkerBalanced
  <2>6. ASSUME NEW g \in deferred', g \notin deferred PROVE arm'[algo(g)] # None
    BY <1>1, <2>3, <2>6
  <2> QED BY <1>1, <2>1, <2>5, <2>6 DEF MarkerBalanced
<1> QED BY <1>4, <1>6, <1>7, <1>10, <1>11, <1>12, <1>13 DEF NothingStranded

(* Losing passes one fate after the other. *)
LEMMA FatesCompose ==
    ASSUME NEW p, NEW q, NEW r, OnlyFates(p, q), OnlyFates(q, r)
    PROVE  OnlyFates(p, r)
BY DEF OnlyFates

(* A stage that gets the token: whoever held it was given up, so that no   *)
(* pass but the new one is at work or holds.                               *)
LEMMA FireAcquiresKeeps ==
    ASSUME GateProofInv, NEW s \in Stage, NEW a \in Arm, FireAcquires(s, a)
    PROVE  GateProofInv'
<1> USE Constants DEF GateProofInv
<1>1. PICK e \in Epoch : e = FreeEpoch /\ ~Alive(e)
  BY DEF FireAcquires, FreeEpoch
<1>2. PICK new : new = [phase |-> IF s[1] = "algo" THEN "queued" ELSE "running",
                        stage |-> s, gen |-> seq[s[2]], fate  |-> FirstFate]
  OBVIOUS
<1>3. PICK p : p = Superseded(s, Reaped(pass))
  OBVIOUS
<1>4. PICK r : r = Reap(gate)
  OBVIOUS
<1>5. PICK w : w = WithoutDrain(r, s)
  OBVIOUS
<1>6. /\ UNCHANGED <<indexVars, arming, seq, sweep, registered, stopping, budget, rerun, deferred>>
      /\ MayAcquire(s, r) /\ gate' = [w EXCEPT !.holder = e, !.age = "fresh"]
      /\ pass' = [p EXCEPT ![e] = new] /\ token' = [token EXCEPT ![s] = e]
      /\ deferSince' = [deferSince EXCEPT ![s] = "none"]
      /\ Disarm(s, firing \ {<<s, a>>})
  BY <1>1, <1>2, <1>3, <1>4, <1>5 DEF FireAcquires, bodyFrame
<1>7. /\ new \in Pass /\ new.phase \in {"queued", "running"} /\ new.stage = s
      /\ new.gen = seq[s[2]] /\ new.fate = FirstFate /\ new # NoPass
  <2>1. seq[s[2]] \in Gen
    BY GenBounded
  <2>2. FirstFate \in {"live", "cancelled", "abandoned"}
    BY DEF FirstFate
  <2>3. new \in Pass
    BY <1>2, <2>1, <2>2 DEF Pass, PassPhase
  <2> QED BY <1>2, <2>3, PassFields
<1>8. OnlyFates(pass, p)
  <2>1. OnlyFates(pass, Reaped(pass)) /\ Reaped(pass) \in PassType
    BY ReapedFacts DEF HolderInv, OnlyFates
  <2>2. OnlyFates(Reaped(pass), p)
    BY <1>3, <2>1, CancelledFacts DEF Superseded
  <2> QED BY <2>1, <2>2, FatesCompose
<1>9. /\ r \in GateType /\ r.drain \in {None, s} /\ r.holder = None
      /\ r.drainOld => r.drain # None
      /\ gate.holder = None \/ Abandons(gate)
  BY <1>4, <1>6, ReapFacts DEF MayAcquire
<1>10. w \in GateType /\ w.drain = None /\ (w.drainOld => w.drain # None)
  BY <1>5, <1>9, WithoutDrainFacts
<1>11. gate' \in GateType /\ gate'.holder = e /\ gate'.drain = None /\ GateInv'
  BY <1>6, <1>10 DEF GateType, GateInv
<1>12. \A x \in Epoch : p[x] # NoPass => p[x].fate = "abandoned"
  <2>1. ASSUME NEW x \in Epoch, p[x] # NoPass PROVE p[x].fate = "abandoned"
    <3>1. pass[x] # NoPass /\ Reaped(pass)[x] # NoPass
      BY <1>8, <2>1, ReapedFacts DEF OnlyFates, HolderInv
    <3>2. Reaped(pass)[x].fate = "abandoned"
      BY <1>9, <3>1, ReapedFacts DEF HolderInv, LiveInv, OneHeavyStage, Alive
    <3>3. Reaped(pass) \in PassType
      BY ReapedFacts DEF HolderInv, OnlyFates
    <3>4. OnlyFates(Reaped(pass), p)
      BY <1>3, <3>3, CancelledFacts DEF Superseded
    <3> QED BY <3>1, <3>2, <3>4 DEF OnlyFates
  <2> QED BY <2>1
<1>13. /\ pass' \in PassType /\ pass'[e] = new
       /\ \A x \in Epoch : x # e => pass'[x] = p[x]
  BY <1>6, <1>7, <1>8 DEF OnlyFates, PassType
<1>14. /\ token' \in [Stage -> Epoch \cup {None}] /\ token'[s] = e
       /\ \A q \in Stage : q # s => token'[q] = token[q]
  BY <1>6 DEF HolderInv
<1>15. \A x \in Epoch : pass[x] # NoPass =>
          /\ x # e /\ pass'[x] # NoPass /\ pass'[x].stage = pass[x].stage
          /\ pass'[x].phase = pass[x].phase
  BY <1>1, <1>8, <1>13 DEF Alive, OnlyFates
<1>16. HolderInv'
  <2>1. ASSUME NEW q \in Stage, token'[q] # None
        PROVE  /\ pass'[token'[q]] # NoPass /\ pass'[token'[q]].stage = q
               /\ pass'[token'[q]].phase \notin {"rearming", "leaving"}
    <3>1. CASE q = s
      BY <1>7, <1>13, <1>14, <3>1
    <3>2. CASE q # s
      <4>1. PICK x \in Epoch : x = token[q]
        BY <1>14, <2>1, <3>2 DEF HolderInv
      <4>2. pass[x] # NoPass /\ pass[x].stage = q /\ pass[x].phase \notin {"rearming", "leaving"}
        BY <4>1 DEF HolderInv
      <4> QED BY <1>14, <1>15, <3>2, <4>1, <4>2
    <3> QED BY <3>1, <3>2
  <2> QED BY <1>7, <1>11, <1>13, <1>14, <2>1 DEF HolderInv
<1>17. \A x \in Epoch : Alive(x)' /\ pass'[x].fate # "abandoned" => x = e
  BY <1>12, <1>13 DEF Alive
<1>18. LiveInv'
  <2>1. InFlight' = {}
    BY <1>6 DEF MayAcquire, InFlight, indexVars
  <2>2. OneHeavyStage'
    BY <1>11, <1>17, <2>1 DEF OneHeavyStage
  <2>3. StopReachesEveryPass'
    BY <1>6, <1>7, <1>13, <1>17 DEF StopReachesEveryPass, FirstFate
  <2>4. \A x \in Epoch : AtWork(x)' => x = e
    BY <1>17 DEF AtWork
  <2>5. Registered' /\ PassesAreCurrent'
    BY <1>6, <1>7, <1>13, <1>14, <2>4 DEF Registered, PassesAreCurrent
  <2> QED BY <2>2, <2>3, <2>5 DEF LiveInv
<1>19. CountInv'
  BY <1>6 DEF CountInv, indexVars
<1>20. /\ timer' \in [Stage -> Arm \cup {None}] /\ arm' \in [Stage -> Arm \cup {None}]
       /\ ticking' \subseteq Stage \X Arm /\ firing' \subseteq Stage \X Arm
       /\ born' \in [Stage -> [Arm -> Gen]]
       /\ firing' \subseteq firing /\ born' = born /\ arm'[s] = None
       /\ \A q \in Stage : q # s => arm'[q] = arm[q]
  <2>1. PICK f : f = firing \ {<<s, a>>}
    OBVIOUS
  <2> QED BY <1>6, <2>1, DisarmFacts
<1>21. TimerTypes'
  BY <1>6, <1>20 DEF TimerTypes
<1>22. ArmInv' /\ DrainHasOwner'
  <2>1. \A q \in Stage : ArmMoves(q)
    BY <1>6, <1>11, <1>20 DEF ArmMoves
  <2> QED BY <1>6, <1>11, <1>20, <2>1, ArmsKept DEF NothingStranded, ArmInv
<1>23. RerunHasServer'
  <2>1. \A h \in Group : token[algo(h)] # None => token'[algo(h)] # None
    BY <1>14
  <2> QED BY <1>6, <1>21, <2>1, RerunKept DEF NothingStranded, TimerTypes
<1>24. MarkerBalanced'
  <2> SUFFICES ASSUME NEW g \in deferred
               PROVE  /\ stopping # "done"
                      /\ \/ arm'[algo(g)] # None
                         \/ \E x \in Epoch : /\ Alive(x)' /\ pass'[x].stage = algo(g)
                                             /\ pass'[x].phase \in {"queued", "running", "returned"}
    BY <1>6 DEF MarkerBalanced
  <2>1. g \in Group /\ stopping # "done"
    BY DEF NothingStranded, MarkerBalanced, TimerTypes
  <2>2. CASE algo(g) = s
    BY <1>7, <1>13, <2>1, <2>2 DEF Alive
  <2>3. CASE algo(g) # s /\ arm[algo(g)] # None
    BY <1>20, <2>1, <2>3
  <2>4. ASSUME NEW x \in Epoch, Alive(x), pass[x].stage = algo(g),
               pass[x].phase \in {"queued", "running", "returned"}
        PROVE  /\ Alive(x)' /\ pass'[x].stage = algo(g)
               /\ pass'[x].phase \in {"queued", "running", "returned"}
    BY <1>15, <2>4 DEF Alive
  <2> QED BY <2>1, <2>2, <2>3, <2>4 DEF NothingStranded, MarkerBalanced
<1> QED BY <1>11, <1>16, <1>18, <1>19, <1>21, <1>22, <1>23, <1>24 DEF NothingStranded

(* A pass that starts, returns, or chains nothing. *)
LEMMA PassGoesOn ==
    ASSUME GateProofInv, NEW e \in Epoch, LinksReturn(e) \/ AlgoStarts(e) \/ AlgoReturns(e)
    PROVE  GateProofInv'
<1> USE Constants DEF GateProofInv
<1>1. UNCHANGED <<indexVars, arming, seq, timerVars, gate, deferSince, token, rerun, deferred,
                  sweep, registered, stopping, budget>>
  BY DEF LinksReturn, AlgoStarts, AlgoReturns, passFrame
<1>2. PICK from \in PassPhase, to \in PassPhase :
        /\ Step(e, from, to)
        /\ from \in {"queued", "running"} /\ to \in {"running", "chaining", "returned"}
        /\ to = "chaining" => pass[e].stage[1] = "links"
  BY DEF LinksReturn, AlgoStarts, AlgoReturns, PassPhase
<1>3. HolderInv' /\ LiveInv'
  <2>1. gate.holder \in Epoch \cup {None}
    BY DEF GateInv, GateType
  <2> QED BY <1>1, <1>2, <2>1, PhaseMoves DEF indexVars
<1>4. GateInv' /\ CountInv' /\ TimerTypes'
  BY <1>1 DEF GateInv, CountInv, TimerTypes, indexVars, timerVars
<1>5. ArmInv' /\ DrainHasOwner'
  <2>1. \A q \in Stage : ArmMoves(q)
    BY <1>1 DEF ArmMoves, timerVars
  <2> QED BY <1>1, <2>1, ArmsKept DEF timerVars, NothingStranded, ArmInv
<1>6. RerunHasServer'
  BY <1>1 DEF NothingStranded, RerunHasServer
<1>7. MarkerBalanced'
  <2>1. ASSUME NEW x \in Epoch, Serving(x)
        PROVE  Serving(x)' /\ pass'[x].stage = pass[x].stage
    <3>1. CASE x # e
      BY <1>2, <2>1, <3>1, StepFacts DEF Serving, Alive, HolderInv
    <3>2. CASE x = e
      <4>1. /\ pass[e].stage = algo(pass[e].stage[2]) /\ pass[e] \in Pass
            /\ pass'[e].stage = pass[e].stage /\ pass'[e].phase = to /\ pass'[e] # NoPass
        BY <1>2, <2>1, <3>2, StepFacts, PassFields DEF Serving, HolderInv
      <4>2. pass[e].stage[1] = "algo"
        BY <4>1 DEF algo
      <4> QED BY <1>2, <3>2, <4>1, <4>2 DEF Serving, Alive
    <3> QED BY <3>1, <3>2
  <2> QED BY <1>1, <2>1, MarkerKept DEF NothingStranded, TimerTypes, timerVars
<1> QED BY <1>3, <1>4, <1>5, <1>6, <1>7 DEF NothingStranded

(* What arming the algorithm's timer for current work, or for the sweep,   *)
(* keeps besides the passes.                                               *)
LEMMA ScheduledKeeps ==
    ASSUME GateProofInv, NEW g \in Group, NEW n \in Gen, Scheduled(g, n),
           n = seq[g] \/ SameArm(algo(g)) \/ MaxSweeps # 0,
           UNCHANGED <<token, seq, budget>>, stopping' = stopping,
           MaxSweeps = 0 => sweep' = None,
           \A e \in Epoch : Serving(e) => Serving(e)' /\ pass'[e].stage = pass[e].stage
    PROVE  TimerTypes' /\ GateInv' /\ ArmInv' /\ NothingStranded'
<1> USE Constants DEF GateProofInv
<1>1. TimerTypes' /\ GateInv'
  BY DEF Scheduled
<1>2. ArmInv' /\ DrainHasOwner'
  <2>1. ASSUME NEW q \in Stage PROVE ArmMoves(q)
    <3>1. CASE SameArm(q)
      BY <3>1 DEF ArmMoves, SameArm
    <3>2. CASE q = algo(g) /\ NewArm(q, n) /\ ~SameArm(q)
      BY <3>2 DEF Scheduled, ArmMoves, NewArm
    <3> QED BY <3>1, <3>2 DEF Scheduled
  <2> QED BY <2>1, ArmsKept DEF Scheduled, NothingStranded, ArmInv
<1>3. RerunHasServer'
  BY <1>1, RerunKept DEF NothingStranded, TimerTypes, Scheduled
<1>4. MarkerBalanced'
  <2>1. \A h \in Group : arm[algo(h)] # None => arm'[algo(h)] # None
    BY DEF Scheduled, SameArm, NewArm
  <2> QED BY <2>1, MarkerKept DEF NothingStranded, Scheduled, TimerTypes
<1> QED BY <1>1, <1>2, <1>3, <1>4 DEF NothingStranded

(* A link pass that arms the algorithm, or an algorithm pass that arms     *)
(* itself again: under the generation they run in, and only while that is  *)
(* the group's.                                                            *)
LEMMA ChainKeeps ==
    ASSUME GateProofInv, NEW e \in Epoch, ChainAlgo(e) \/ RearmAlgo(e)
    PROVE  GateProofInv'
<1> USE Constants DEF GateProofInv
<1>1. UNCHANGED <<indexVars, arming, seq, sweep, registered, stopping, budget, token>>
  BY DEF ChainAlgo, RearmAlgo, passFrame
<1>2. PICK from \in PassPhase, to \in PassPhase :
        /\ Step(e, from, to) /\ from \in {"chaining", "rearming"}
        /\ from \in {"rearming", "leaving"} <=> to \in {"rearming", "leaving"}
  BY DEF ChainAlgo, RearmAlgo, PassPhase
<1>3. PICK g, n : g = pass[e].stage[2] /\ n = pass[e].gen
  OBVIOUS
<1>4. g \in Group /\ n \in Gen
  BY <1>2, <1>3, StepFacts, PassFields DEF HolderInv
<1>5. Scheduled(g, n) /\ (n = seq[g] \/ SameArm(algo(g)))
  <2>1. CASE NoSchedule
    <3>1. SameArm(algo(g))
      BY <2>1 DEF NoSchedule, timerVars, SameArm
    <3> QED BY <1>4, <2>1, <3>1, ScheduleFacts
  <2>2. CASE Current(g, n) /\ ScheduleAlgo(g, n)
    BY <1>4, <2>2, ScheduleFacts DEF Current
  <2> QED BY <1>3, <2>1, <2>2 DEF ChainAlgo, RearmAlgo
<1>6. HolderInv' /\ LiveInv'
  <2>1. gate.holder \in Epoch \cup {None} /\ gate'.holder = gate.holder
    BY <1>5 DEF GateInv, GateType, Scheduled
  <2> QED BY <1>1, <1>2, <2>1, PhaseMoves DEF indexVars
<1>7. CountInv'
  BY <1>1 DEF CountInv, indexVars
<1>8. \A x \in Epoch : Serving(x) => Serving(x)' /\ pass'[x].stage = pass[x].stage
  BY <1>2, StepFacts DEF Serving, Alive, HolderInv
<1>9. TimerTypes' /\ GateInv' /\ ArmInv' /\ NothingStranded'
  BY <1>1, <1>4, <1>5, <1>8, ScheduledKeeps DEF ArmInv
<1> QED BY <1>6, <1>7, <1>9

(* The overlay sweep arms an algorithm pass under the generation it saw. *)
LEMMA SweepArmsKeeps ==
    ASSUME GateProofInv, SweepArms
    PROVE  GateProofInv'
<1> USE Constants DEF GateProofInv
<1>1. /\ UNCHANGED <<indexVars, arming, seq, pass, token, registered, stopping, budget>>
      /\ sweep # None /\ sweep' = None /\ ScheduleAlgo(sweep[1], sweep[2])
  BY DEF SweepArms, sweepFrame, passVars
<1>2. PICK g \in Group, n \in Gen, b \in BOOLEAN : sweep = <<g, n, b>>
  BY <1>1 DEF CountInv
<1>3. Scheduled(g, n) /\ MaxSweeps # 0
  BY <1>1, <1>2, ScheduleFacts DEF ArmInv
<1>4. HolderInv' /\ LiveInv' /\ OnlyFates(pass, pass')
  BY <1>1, <1>3, PassesSame DEF Scheduled
<1>5. CountInv'
  BY <1>1 DEF CountInv, indexVars
<1>6. TimerTypes' /\ GateInv' /\ ArmInv' /\ NothingStranded'
  BY <1>1, <1>3, <1>4, ScheduledKeeps, FatesServe
<1> QED BY <1>4, <1>5, <1>6

(* The bookkeeping of a pass: its registration goes with it, and with the  *)
(* registration the re-run request and the marker.                         *)
LEMMA BookkeepKeeps ==
    ASSUME GateProofInv, NEW e \in Epoch, Bookkeep(e)
    PROVE  GateProofInv'
<1> USE Constants DEF GateProofInv
<1>1. PICK p : p = pass[e]
  OBVIOUS
<1>2. p \in Pass /\ p.phase = "returned"
  <2>1. p \in Pass \cup {NoPass} /\ p.phase = "returned"
    BY <1>1 DEF Bookkeep, HolderInv, PassType
  <2> QED BY <2>1, PassFields
<1>3. PICK s \in Stage, g \in Group : s = p.stage /\ g = s[2]
  BY <1>2, PassFields
<1>4. PICK again \in BOOLEAN : again = (s[1] = "algo" /\ g \in rerun)
  OBVIOUS
<1>5. PICK n \in Gen : n = IF again THEN seq[g] ELSE p.gen
  BY <1>2, GenBounded, PassFields
<1>6. PICK ph \in {"rearming", "leaving"} : ph = IF again THEN "rearming" ELSE "leaving"
  OBVIOUS
<1>7. PICK q : q = [p EXCEPT !.phase = ph, !.gen = n]
  OBVIOUS
<1>8. q \in Pass /\ q.phase = ph /\ q.stage = s /\ q.fate = p.fate /\ q # NoPass
  <2>1. q \in Pass /\ q.phase = ph /\ q.stage = s /\ q.fate = p.fate
    BY <1>2, <1>3, <1>7 DEF Pass, PassPhase
  <2> QED BY <2>1, PassFields
<1>9. /\ UNCHANGED <<indexVars, arming, seq, timerVars, gate, deferSince, sweep, registered,
                     stopping, budget>>
      /\ token' = [token EXCEPT ![s] = IF token[s] = e THEN None ELSE token[s]]
      /\ pass' = [pass EXCEPT ![e] = q]
      /\ rerun' = IF again THEN WithoutRerun(g) ELSE rerun
      /\ deferred' = IF s[1] = "algo" THEN deferred \ {g} ELSE deferred
  <2>1. /\ pass' = [pass EXCEPT ![e].phase = ph, ![e].gen = IF again THEN seq[g] ELSE @]
        /\ token' = [token EXCEPT ![s] = IF @ = e THEN None ELSE @]
    BY <1>1, <1>3, <1>4, <1>6 DEF Bookkeep
  <2>2. pass' = [pass EXCEPT ![e] = [p EXCEPT !.phase = ph, !.gen = n]]
    <3>1. PICK m : m = [p EXCEPT !.phase = ph]
      OBVIOUS
    <3>2. m \in Pass /\ m.gen = p.gen
      BY <1>2, <3>1 DEF Pass, PassPhase
    <3>3. PICK l : l = [pass EXCEPT ![e] = m]
      OBVIOUS
    <3>4. l \in PassType /\ l[e] = m
      BY <3>2, <3>3 DEF HolderInv, PassType
    <3>5. pass' = [l EXCEPT ![e].gen = n]
      <4>1. l = [pass EXCEPT ![e].phase = ph]
        BY <1>1, <3>1, <3>3
      <4>2. pass' = [l EXCEPT ![e].gen = IF again THEN seq[g] ELSE @]
        BY <2>1, <4>1
      <4> QED BY <1>5, <3>2, <3>4, <4>2
    <3>6. [m EXCEPT !.gen = n] = [p EXCEPT !.phase = ph, !.gen = n]
      BY <1>2, <3>1 DEF Pass
    <3>7. pass' = [l EXCEPT ![e] = [m EXCEPT !.gen = n]]
      BY <3>4, <3>5
    <3> QED BY <3>3, <3>6, <3>7 DEF HolderInv, PassType
  <2> QED BY <1>1, <1>3, <1>4, <1>7, <2>1, <2>2 DEF Bookkeep, passFrame
<1>10. /\ pass' \in PassType /\ pass'[e] = q
       /\ \A x \in Epoch : x # e => pass'[x] = pass[x]
  BY <1>8, <1>9 DEF HolderInv, PassType
<1>11. /\ token' \in [Stage -> Epoch \cup {None}]
       /\ token'[s] = IF token[s] = e THEN None ELSE token[s]
       /\ \A x \in Stage : x # s => token'[x] = token[x]
  BY <1>9 DEF HolderInv
<1>12. pass[e] # NoPass
  BY <1>1, <1>2, PassFields
<1>13. HolderInv'
  <2>1. gate'.holder # None => pass'[gate'.holder] # NoPass
    BY <1>8, <1>9, <1>10 DEF HolderInv, GateInv, GateType
  <2>2. ASSUME NEW x \in Stage, token'[x] # None
        PROVE  /\ pass'[token'[x]] # NoPass /\ pass'[token'[x]].stage = x
               /\ pass'[token'[x]].phase \notin {"rearming", "leaving"}
    <3>1. token'[x] = token[x]
      BY <1>11, <2>2
    <3>2. PICK y \in Epoch : y = token[x]
      BY <2>2, <3>1 DEF HolderInv
    <3>3. pass[y] # NoPass /\ pass[y].stage = x /\ pass[y].phase \notin {"rearming", "leaving"}
      BY <2>2, <3>1, <3>2 DEF HolderInv
    <3>4. y # e
      BY <1>1, <1>3, <1>11, <2>2, <3>1, <3>2, <3>3
    <3> QED BY <1>10, <3>1, <3>2, <3>3, <3>4
  <2> QED BY <1>10, <1>11, <2>1, <2>2 DEF HolderInv
<1>14. \A x \in Epoch : Alive(x)' => Alive(x) /\ pass'[x].fate = pass[x].fate
  BY <1>1, <1>8, <1>10, <1>12 DEF Alive
<1>15. \A x \in Epoch : AtWork(x)' => x # e /\ AtWork(x) /\ pass'[x] = pass[x]
  BY <1>8, <1>10 DEF AtWork, Alive
<1>16. LiveInv'
  <2>1. InFlight' = InFlight
    BY <1>9 DEF InFlight, indexVars
  <2>2. OneHeavyStage' /\ StopReachesEveryPass'
    BY <1>9, <1>14, <2>1 DEF LiveInv, OneHeavyStage, StopReachesEveryPass
  <2>3. Registered'
    <3>1. ASSUME NEW x \in Epoch, AtWork(x)' PROVE token'[pass'[x].stage] = x
      <4>1. x # e /\ token[pass[x].stage] = x /\ pass'[x].stage = pass[x].stage
        BY <1>15, <3>1 DEF LiveInv, Registered
      <4>2. pass[x].stage \in Stage
        BY <1>15, <3>1, PassFields DEF AtWork, Alive, HolderInv, PassType
      <4> QED BY <1>11, <4>1, <4>2
    <3> QED BY <3>1 DEF Registered
  <2>4. PassesAreCurrent'
    BY <1>9, <1>15 DEF LiveInv, PassesAreCurrent
  <2> QED BY <2>2, <2>3, <2>4 DEF LiveInv
<1>17. GateInv' /\ CountInv' /\ TimerTypes'
  BY <1>9 DEF GateInv, CountInv, TimerTypes, indexVars, timerVars, WithoutRerun
<1>18. ArmInv' /\ DrainHasOwner'
  <2>1. \A x \in Stage : ArmMoves(x)
    BY <1>9 DEF ArmMoves, timerVars
  <2> QED BY <1>9, <2>1, ArmsKept DEF timerVars, NothingStranded, ArmInv
<1>19. RerunHasServer'
  <2>1. ASSUME NEW h \in rerun' PROVE token'[algo(h)] # None
    <3>1. h \in rerun /\ h \in Group /\ token[algo(h)] # None
      BY <1>9, <2>1 DEF WithoutRerun, NothingStranded, RerunHasServer, TimerTypes
    <3>2. CASE algo(h) = s
      <4>1. h = g /\ s[1] = "algo"
        BY <1>3, <3>1, <3>2
      <4> QED BY <1>4, <1>9, <2>1, <3>1, <4>1 DEF WithoutRerun
    <3>3. CASE algo(h) # s
      BY <1>11, <3>1, <3>3
    <3> QED BY <3>2, <3>3
  <2> QED BY <2>1 DEF RerunHasServer
<1>20. MarkerBalanced'
  <2> SUFFICES ASSUME NEW h \in deferred'
               PROVE  /\ stopping # "done"
                      /\ \/ arm[algo(h)] # None
                         \/ \E x \in Epoch : /\ Alive(x)' /\ pass'[x].stage = algo(h)
                                             /\ pass'[x].phase \in {"queued", "running", "returned"}
    BY <1>9 DEF MarkerBalanced, timerVars
  <2>1. h \in deferred /\ h \in Group /\ algo(h) # s
    BY <1>3, <1>9 DEF TimerTypes
  <2>2. ASSUME NEW x \in Epoch, Alive(x), pass[x].stage = algo(h),
               pass[x].phase \in {"queued", "running", "returned"}
        PROVE  /\ Alive(x)' /\ pass'[x].stage = algo(h)
               /\ pass'[x].phase \in {"queued", "running", "returned"}
    <3>1. x # e
      BY <1>1, <1>3, <2>1, <2>2
    <3> QED BY <1>10, <2>2, <3>1 DEF Alive
  <2> QED BY <2>1, <2>2 DEF NothingStranded, MarkerBalanced
<1> QED BY <1>13, <1>16, <1>17, <1>18, <1>19, <1>20 DEF NothingStranded

(* The end of a pass gives back its own token, if it still has it. *)
LEMMA ReleaseKeeps ==
    ASSUME GateProofInv, NEW e \in Epoch, Release(e)
    PROVE  GateProofInv'
<1> USE Constants DEF GateProofInv
<1>1. /\ UNCHANGED <<indexVars, arming, seq, timerVars, deferSince, token, rerun, deferred,
                     sweep, registered, stopping, budget>>
      /\ pass[e].phase = "leaving" /\ pass' = [pass EXCEPT ![e] = NoPass]
      /\ gate' = IF gate.holder = e THEN Vacated(gate) ELSE gate
  BY DEF Release, passFrame, Owns
<1>2. /\ pass' \in PassType /\ pass'[e] = NoPass
      /\ \A x \in Epoch : x # e => pass'[x] = pass[x]
  BY <1>1 DEF HolderInv, PassType
<1>3. /\ GateInv' /\ gate'.drain = gate.drain
      /\ gate'.holder = IF gate.holder = e THEN None ELSE gate.holder
  BY <1>1 DEF GateInv, GateType, Vacated
<1>4. HolderInv'
  <2>1. gate'.holder # None => pass'[gate'.holder] # NoPass
    BY <1>2, <1>3 DEF HolderInv, GateInv, GateType
  <2>2. ASSUME NEW x \in Stage, token[x] # None
        PROVE  /\ pass'[token[x]] # NoPass /\ pass'[token[x]].stage = x
               /\ pass'[token[x]].phase \notin {"rearming", "leaving"}
    BY <1>1, <1>2, <2>2 DEF HolderInv
  <2> QED BY <1>1, <1>2, <2>1, <2>2 DEF HolderInv
<1>5. \A x \in Epoch : Alive(x)' => x # e /\ Alive(x) /\ pass'[x] = pass[x]
  BY <1>2 DEF Alive
<1>6. LiveInv'
  <2>1. InFlight' = InFlight
    BY <1>1 DEF InFlight, indexVars
  <2>2. OneHeavyStage'
    BY <1>3, <1>5, <2>1 DEF LiveInv, OneHeavyStage
  <2>3. StopReachesEveryPass' /\ Registered' /\ PassesAreCurrent'
    BY <1>1, <1>5 DEF LiveInv, StopReachesEveryPass, Registered, PassesAreCurrent, AtWork
  <2> QED BY <2>2, <2>3 DEF LiveInv
<1>7. CountInv' /\ TimerTypes'
  BY <1>1 DEF CountInv, TimerTypes, indexVars, timerVars
<1>8. ArmInv' /\ DrainHasOwner'
  <2>1. \A x \in Stage : ArmMoves(x)
    BY <1>1 DEF ArmMoves, timerVars
  <2> QED BY <1>1, <1>3, <2>1, ArmsKept DEF timerVars, NothingStranded, ArmInv
<1>9. RerunHasServer'
  BY <1>1 DEF NothingStranded, RerunHasServer
<1>10. MarkerBalanced'
  <2>1. \A x \in Epoch : Serving(x) => Serving(x)' /\ pass'[x].stage = pass[x].stage
    BY <1>1, <1>2 DEF Serving, Alive
  <2> QED BY <1>1, <2>1, MarkerKept DEF NothingStranded, TimerTypes, timerVars
<1> QED BY <1>3, <1>4, <1>6, <1>7, <1>8, <1>9, <1>10 DEF NothingStranded

(* CancelGroup: whatever of the group is at work is registered, so that it *)
(* is reached, and every arm of the group is taken away.                   *)
LEMMA CancelGroupKeeps ==
    ASSUME GateProofInv, NEW g \in Group, CancelGroup(g)
    PROVE  GateProofInv'
<1> USE Constants DEF GateProofInv
<1>1. /\ UNCHANGED <<indexVars, arming, firing, born, sweep, registered, stopping>>
      /\ budget["cancels"] > 0 /\ budget' = [budget EXCEPT !["cancels"] = @ - 1]
      /\ seq' = [seq EXCEPT ![g] = @ + 1]
      /\ timer' = [s \in Stage |-> IF s \in Of(g) THEN None ELSE timer[s]]
      /\ arm' = [s \in Stage |-> IF s \in Of(g) THEN None ELSE arm[s]]
      /\ ticking' \subseteq ticking
      /\ pass' = Cancelled(pass, {token[s] : s \in Of(g)})
      /\ token' = [s \in Stage |-> IF s \in Of(g) THEN None ELSE token[s]]
      /\ rerun' = rerun \ {g} /\ deferred' = deferred \ {g}
      /\ deferSince' = [s \in Stage |-> IF s \in Of(g) THEN "none" ELSE deferSince[s]]
      /\ gate' = WithoutDrain(WithoutDrain(gate, links(g)), algo(g))
  BY DEF CancelGroup, WithoutRerun
<1>2. /\ Of(g) \subseteq Stage
      /\ \A s \in Stage : s \in Of(g) <=> s[2] = g
  BY DEF Of
<1>3. PICK E : E = {token[s] : s \in Of(g)}
  OBVIOUS
<1>4. /\ OnlyFates(pass, pass')
      /\ \A e \in E : e \in Epoch /\ pass'[e] # NoPass => pass'[e].fate # "live"
  BY <1>1, <1>3, CancelledFacts DEF HolderInv
<1>5. /\ seq' \in [Group -> Nat] /\ seq'[g] = seq[g] + 1
      /\ \A h \in Group : h # g => seq'[h] = seq[h]
  BY <1>1 DEF CountInv
<1>6. CountInv'
  <2>1. PICK n \in Nat : n = budget["cancels"]
    BY DEF CountInv
  <2>2. n - 1 \in Nat /\ budget' = [budget EXCEPT !["cancels"] = n - 1]
    BY <1>1, <2>1
  <2>3. /\ budget' \in [{"indexed", "cancels", "sweeps", "barges"} -> Nat]
        /\ budget'["cancels"] = n - 1
    BY <2>2 DEF CountInv
  <2>4. ASSUME NEW h \in Group PROVE seq'[h] + budget'["cancels"] <= MaxCancels
    <3>1. PICK k \in Nat : k = seq[h]
      BY DEF CountInv
    <3>2. k + n <= MaxCancels
      BY <2>1, <3>1 DEF CountInv
    <3>3. seq'[h] = k \/ seq'[h] = k + 1
      BY <1>5, <3>1
    <3> QED BY <2>2, <2>3, <3>1, <3>2, <3>3
  <2> QED BY <1>1, <1>5, <2>3, <2>4 DEF CountInv, indexVars
<1>7. /\ GateInv' /\ gate'.holder = gate.holder
      /\ gate'.drain = IF gate.drain \in Of(g) THEN None ELSE gate.drain
  <2>1. PICK w : w = WithoutDrain(gate, links(g))
    OBVIOUS
  <2>2. /\ w \in GateType /\ w.holder = gate.holder /\ w.age = gate.age
        /\ w.drain = (IF gate.drain = links(g) THEN None ELSE gate.drain)
        /\ w.drainOld => w.drain # None
    BY <2>1, WithoutDrainFacts DEF GateInv
  <2>3. /\ gate' \in GateType /\ gate'.holder = w.holder /\ gate'.age = w.age
        /\ gate'.drain = (IF w.drain = algo(g) THEN None ELSE w.drain)
        /\ gate'.drainOld => gate'.drain # None
    BY <1>1, <2>1, <2>2, WithoutDrainFacts
  <2> QED BY <2>2, <2>3 DEF GateInv, Of
<1>8. TimerTypes'
  BY <1>1 DEF TimerTypes
<1>9. \A s \in Stage : token'[s] = IF s \in Of(g) THEN None ELSE token[s]
  BY <1>1
<1>10. HolderInv'
  <2>1. token' \in [Stage -> Epoch \cup {None}]
    BY <1>1 DEF HolderInv
  <2>2. ASSUME NEW s \in Stage, token'[s] # None
        PROVE  /\ pass'[token'[s]] # NoPass /\ pass'[token'[s]].stage = s
               /\ pass'[token'[s]].phase \notin {"rearming", "leaving"}
    <3>1. token'[s] = token[s]
      BY <1>9, <2>2
    <3> QED BY <1>4, <2>2, <3>1 DEF HolderInv, OnlyFates
  <2>3. gate'.holder # None => pass'[gate'.holder] # NoPass
    BY <1>4, <1>7 DEF HolderInv, OnlyFates, GateInv, GateType
  <2> QED BY <1>4, <2>1, <2>2, <2>3 DEF HolderInv, OnlyFates
<1>11. LiveInv'
  <2>1. InFlight' = InFlight
    BY <1>1 DEF InFlight, indexVars
  <2>2. OneHeavyStage' /\ StopReachesEveryPass'
    BY <1>1, <1>4, <1>7, <2>1
       DEF LiveInv, OneHeavyStage, StopReachesEveryPass, OnlyFates, Alive
  <2>3. ASSUME NEW e \in Epoch, AtWork(e)'
        PROVE  /\ token'[pass'[e].stage] = e
               /\ pass'[e].gen = seq'[pass'[e].stage[2]]
    <3>1. /\ AtWork(e) /\ pass'[e].stage = pass[e].stage /\ pass'[e].gen = pass[e].gen
      BY <1>4, <2>3 DEF OnlyFates, AtWork, Alive
    <3>2. pass[e].stage \in Stage
      BY <3>1, PassFields DEF AtWork, Alive, HolderInv, PassType
    <3>3. token[pass[e].stage] = e /\ pass[e].gen = seq[pass[e].stage[2]]
      BY <3>1 DEF LiveInv, Registered, PassesAreCurrent
    <3>4. e \notin E
      BY <1>4, <2>3 DEF AtWork, Alive
    <3>5. pass[e].stage \notin Of(g)
      BY <1>3, <3>3, <3>4
    <3> QED BY <1>2, <1>5, <1>9, <3>1, <3>2, <3>3, <3>5
  <2>4. Registered' /\ PassesAreCurrent'
    BY <2>3 DEF Registered, PassesAreCurrent
  <2> QED BY <2>2, <2>4 DEF LiveInv
<1>12. ArmInv' /\ DrainHasOwner'
  <2>1. ASSUME NEW q \in Stage PROVE ArmMoves(q)
    <3>1. CASE q \in Of(g)
      BY <1>1, <1>7, <3>1 DEF ArmMoves
    <3>2. CASE q \notin Of(g)
      BY <1>1, <1>2, <1>5, <3>2 DEF ArmMoves
    <3> QED BY <3>1, <3>2
  <2>2. budget'["sweeps"] <= MaxSweeps /\ (MaxSweeps = 0 => sweep' = None)
    BY <1>1 DEF ArmInv, CountInv
  <2> QED BY <1>1, <1>7, <2>1, <2>2, ArmsKept DEF NothingStranded
<1>13. RerunHasServer'
  <2>1. ASSUME NEW h \in rerun' PROVE token'[algo(h)] # None
    <3>1. h \in Group /\ h # g /\ token[algo(h)] # None
      BY <1>1, <2>1 DEF TimerTypes, NothingStranded, RerunHasServer
    <3> QED BY <1>2, <1>9, <3>1
  <2> QED BY <2>1 DEF RerunHasServer
<1>14. MarkerBalanced'
  <2> SUFFICES ASSUME NEW h \in deferred'
               PROVE  /\ stopping # "done"
                      /\ \/ arm'[algo(h)] # None
                         \/ \E x \in Epoch : /\ Alive(x)' /\ pass'[x].stage = algo(h)
                                             /\ pass'[x].phase \in {"queued", "running", "returned"}
    BY <1>1 DEF MarkerBalanced
  <2>1. h \in deferred /\ h \in Group /\ h # g
    BY <1>1 DEF TimerTypes
  <2>2. arm'[algo(h)] = arm[algo(h)]
    BY <1>1, <1>2, <2>1
  <2>3. ASSUME NEW x \in Epoch, Alive(x), pass[x].stage = algo(h),
               pass[x].phase \in {"queued", "running", "returned"}
        PROVE  /\ Alive(x)' /\ pass'[x].stage = algo(h)
               /\ pass'[x].phase \in {"queued", "running", "returned"}
    BY <1>4, <2>3 DEF OnlyFates, Alive
  <2> QED BY <2>1, <2>2, <2>3 DEF NothingStranded, MarkerBalanced
<1> QED BY <1>6, <1>7, <1>8, <1>10, <1>11, <1>12, <1>13, <1>14 DEF NothingStranded

(* Stop: the contexts of all passes end first, the timers go afterwards. *)
LEMMA StopKeeps ==
    ASSUME GateProofInv, StopSignals \/ StopClears
    PROVE  GateProofInv'
<1> USE Constants DEF GateProofInv
<1>1. gate.holder \in Epoch \cup {None}
  BY DEF GateInv, GateType
<1>2. CASE StopSignals
  <2>1. /\ UNCHANGED <<indexVars, arming, seq, timerVars, gate, deferSince, token, rerun,
                       deferred, sweep, registered, budget>>
        /\ stopping' = "signalled" /\ pass' = Cancelled(pass, Epoch)
    BY <1>2 DEF StopSignals
  <2>2. /\ OnlyFates(pass, pass')
        /\ \A e \in Epoch : pass'[e] # NoPass => pass'[e].fate # "live"
    BY <2>1, CancelledFacts DEF HolderInv
  <2>3. InFlight' = InFlight
    BY <2>1 DEF InFlight, indexVars
  <2>4. HolderInv' /\ LiveInv'
    BY <1>1, <2>1, <2>2, <2>3, FatesKept
  <2>5. GateInv' /\ CountInv'
    BY <2>1 DEF GateInv, CountInv, indexVars
  <2>6. TimerTypes' /\ ArmInv' /\ NothingStranded'
    BY <2>1, <2>2, TimersAlone DEF ArmInv, TimerTypes
  <2> QED BY <2>4, <2>5, <2>6
<1>3. CASE StopClears
  <2>1. /\ UNCHANGED <<indexVars, arming, seq, pass, token, rerun, sweep, registered, budget,
                       timer, firing, born>>
        /\ stopping = "signalled" /\ stopping' = "done" /\ ticking' \subseteq ticking
        /\ arm' = [s \in Stage |-> None] /\ deferred' = {}
        /\ deferSince' = [s \in Stage |-> "none"]
        /\ gate' = [gate EXCEPT !.drain = None, !.drainOld = FALSE,
                                !.barge = [b \in Barge |-> "none"]]
    BY <1>3 DEF StopClears, ClearTimers, passVars
  <2>2. OnlyFates(pass, pass') /\ InFlight' = InFlight
    BY <2>1, SamePasses DEF HolderInv, InFlight, indexVars
  <2>3. GateInv' /\ gate'.holder = gate.holder /\ gate'.drain = None
    BY <2>1 DEF GateInv, GateType
  <2>4. HolderInv' /\ LiveInv'
    BY <1>1, <2>1, <2>2, <2>3, FatesKept
  <2>5. CountInv' /\ TimerTypes'
    BY <2>1 DEF CountInv, TimerTypes, indexVars
  <2>6. ArmInv' /\ DrainHasOwner'
    <3>1. \A q \in Stage : ArmMoves(q) /\ arm'[q] = None
      BY <2>1, <2>3 DEF ArmMoves
    <3> QED BY <2>1, <2>3, <3>1, ArmsKept DEF NothingStranded, ArmInv
  <2>7. RerunHasServer' /\ MarkerBalanced'
    BY <2>1 DEF NothingStranded, RerunHasServer, MarkerBalanced
  <2> QED BY <2>3, <2>4, <2>5, <2>6, <2>7 DEF NothingStranded
<1> QED BY <1>2, <1>3

(* Foreground holds and the passing of time. *)
LEMMA TimeKeeps ==
    ASSUME GateProofInv,
           \/ \E b \in Barge : BargeForeground(b) \/ ReleaseBarge(b) \/ BargeAges(b)
           \/ HolderAges \/ DrainAges
           \/ \E s \in Stage : DeferAges(s)
    PROVE  GateProofInv'
<1> USE Constants DEF GateProofInv
<1>1. UNCHANGED <<indexVars, arming, seq, timerVars, pass, token, rerun, deferred,
                  sweep, registered, stopping>>
  BY DEF BargeForeground, ReleaseBarge, BargeAges, HolderAges, DrainAges, DeferAges, gateFrame,
         passVars
<1>2. GateInv' /\ gate'.holder = gate.holder /\ gate'.drain = gate.drain
  <2>1. ASSUME NEW b \in Barge, NEW v \in {"none", "fresh", "old"},
               gate' = [gate EXCEPT !.barge[b] = v]
        PROVE  GateInv' /\ gate'.holder = gate.holder /\ gate'.drain = gate.drain
    <3>1. PICK c : c = [gate.barge EXCEPT ![b] = v]
      OBVIOUS
    <3>2. c \in [Barge -> {"none", "fresh", "old"}]
      BY <3>1 DEF GateInv, GateType
    <3>3. gate' = [gate EXCEPT !.barge = c]
      BY <2>1, <3>1 DEF GateInv, GateType
    <3> QED BY <3>2, <3>3 DEF GateInv, GateType
  <2>2. CASE \E b \in Barge : BargeForeground(b) \/ ReleaseBarge(b) \/ BargeAges(b)
    BY <2>1, <2>2 DEF BargeForeground, ReleaseBarge, BargeAges
  <2>3. CASE HolderAges
    BY <2>3 DEF HolderAges, GateInv, GateType
  <2>4. CASE DrainAges
    BY <2>4 DEF DrainAges, GateInv, GateType
  <2>5. CASE \E s \in Stage : DeferAges(s)
    BY <2>5 DEF DeferAges, GateInv
  <2> QED BY <2>2, <2>3, <2>4, <2>5
<1>3. /\ deferSince' \in [Stage -> {"none", "short", "long"}]
      /\ budget' \in [{"indexed", "cancels", "sweeps", "barges"} -> Nat]
      /\ budget'["cancels"] = budget["cancels"] /\ budget'["sweeps"] = budget["sweeps"]
  <2>1. CASE \E b \in Barge : BargeForeground(b)
    <3>1. PICK n \in Nat : n = budget["barges"]
      BY DEF CountInv
    <3>2. n > 0 /\ budget' = [budget EXCEPT !["barges"] = n - 1] /\ deferSince' = deferSince
      BY <2>1, <3>1 DEF BargeForeground
    <3>3. n - 1 \in Nat
      BY <3>2
    <3> QED BY <3>2, <3>3 DEF CountInv, TimerTypes
  <2>2. CASE UNCHANGED <<deferSince, budget>>
    BY <2>2 DEF CountInv, TimerTypes
  <2>3. CASE \E s \in Stage : DeferAges(s)
    BY <2>3 DEF DeferAges, CountInv, TimerTypes
  <2> QED BY <2>1, <2>2, <2>3 DEF ReleaseBarge, BargeAges, HolderAges, DrainAges
<1>4. HolderInv' /\ LiveInv' /\ OnlyFates(pass, pass')
  BY <1>1, <1>2, PassesSame
<1>5. CountInv'
  BY <1>1, <1>3 DEF CountInv, indexVars
<1>6. TimerTypes' /\ ArmInv' /\ NothingStranded'
  BY <1>1, <1>2, <1>3, <1>4, TimersAlone DEF ArmInv
<1> QED BY <1>2, <1>4, <1>5, <1>6
-----------------------------------------------------------------------------
(* The invariant and what follows from it.                                 *)

(* At first nothing is armed, running or deferred. *)
LEMMA InitGate == Init => GateProofInv
<1> SUFFICES ASSUME Init PROVE GateProofInv
  OBVIOUS
<1> USE Constants DEF Init
<1>1. GateInv
  BY DEF GateInv, GateType
<1>2. HolderInv
  BY DEF HolderInv, PassType
<1>3. 0 \in Gen
  BY DEF Gen
<1>4. CountInv
  <2>1. budget \in [{"indexed", "cancels", "sweeps", "barges"} -> Nat]
        /\ budget["cancels"] = MaxCancels
    BY BoundAssumption
  <2>2. linkGen \in [Repo -> [Group -> Gen]]
    BY <1>3
  <2> QED BY <2>1, <2>2 DEF CountInv
<1>5. TimerTypes
  BY <1>3 DEF TimerTypes
<1>6. LiveInv
  BY DEF LiveInv, OneHeavyStage, StopReachesEveryPass, Registered, PassesAreCurrent, AtWork, Alive
<1>7. ArmInv
  <2>1. budget["sweeps"] = MaxSweeps
    OBVIOUS
  <2> QED BY <2>1 DEF ArmInv, LinkArmsAreCurrent, Fresh
<1>8. NothingStranded
  BY DEF NothingStranded, RerunHasServer, MarkerBalanced, DrainHasOwner
<1> QED BY <1>1, <1>2, <1>4, <1>5, <1>6, <1>7, <1>8 DEF GateProofInv

(* Each step keeps the invariant. *)
LEMMA NextGate == GateProofInv /\ [Next]_vars => GateProofInv'
<1> SUFFICES ASSUME GateProofInv, [Next]_vars PROVE GateProofInv'
  OBVIOUS
<1>1. CASE UNCHANGED vars
  <2>1. UNCHANGED <<index, linkGen, arming, seq, timer, arm, ticking, firing, born, gate,
                    deferSince, pass, token, rerun, deferred, sweep, registered, stopping,
                    budget>>
    BY <1>1 DEF vars, indexVars, timerVars, passVars
  <2>2. GateInv' /\ HolderInv' /\ CountInv' /\ TimerTypes'
    BY <2>1 DEF GateProofInv, GateInv, HolderInv, CountInv, TimerTypes
  <2>3. LiveInv'
    BY <2>1 DEF GateProofInv, LiveInv, OneHeavyStage, StopReachesEveryPass, Registered,
                PassesAreCurrent, AtWork, Alive, InFlight
  <2>4. ArmInv'
    BY <2>1 DEF GateProofInv, ArmInv, LinkArmsAreCurrent, Fresh
  <2>5. NothingStranded'
    BY <2>1 DEF GateProofInv, NothingStranded, RerunHasServer, MarkerBalanced, DrainHasOwner,
                Alive
  <2> QED BY <2>2, <2>3, <2>4, <2>5 DEF GateProofInv
<1>2. CASE (\E r \in Repo : Admit(r) \/ IndexStarts(r) \/ IndexEnds(r)) \/ HoldAdmission
  BY <1>2, AdmitKeeps, IndexKeeps
<1>3. CASE \E g \in Group, n \in Gen : ScheduleLinks(g, n)
  BY <1>3, ScheduleLinksKeeps
<1>4. CASE \E s \in Stage, a \in Arm : TimerFires(s, a) \/ Body(s, a)
  BY <1>4, FiringKeeps, FireDefersKeeps, FireAcquiresKeeps DEF Body
<1>5. CASE \E e \in Epoch : Alive(e) /\ (PassReturns(e) \/ PassSettles(e))
  BY <1>5, PassGoesOn, ChainKeeps, BookkeepKeeps, ReleaseKeeps DEF PassReturns, PassSettles
<1>6. CASE (\E g \in Group : CancelGroup(g) \/ Unregister(g) \/ SweepFinds(g))
           \/ SweepChecks \/ SweepArms
  BY <1>6, CancelGroupKeeps, RegistryKeeps, SweepArmsKeeps
<1>7. CASE StopSignals \/ StopClears
  BY <1>7, StopKeeps
<1>8. CASE (\E b \in Barge : BargeForeground(b) \/ ReleaseBarge(b) \/ BargeAges(b))
           \/ HolderAges \/ DrainAges \/ (\E s \in Stage : DeferAges(s))
  BY <1>8, TimeKeeps
<1> QED BY <1>1, <1>2, <1>3, <1>4, <1>5, <1>6, <1>7, <1>8 DEF Next

(* The invariant holds in every reachable state. *)
THEOREM SpecStageGate == Spec => []GateProofInv
<1>1. Init => GateProofInv
  BY InitGate
<1>2. GateProofInv /\ [Next]_vars => GateProofInv'
  BY NextGate
<1> QED BY <1>1, <1>2, PTL DEF Spec

(* Timers, passes, token, barrier, generations and bounds keep their types, *)
(* and a token never names a pass that is gone.                            *)
THEOREM StageTypes == Spec => []TypeOK
<1>1. ASSUME GateProofInv PROVE TypeOK
  <2>1. seq \in [Group -> Gen]
    BY <1>1, GenBounded DEF GateProofInv, CountInv
  <2> QED BY <1>1, <2>1
          DEF GateProofInv, GateInv, GateType, HolderInv, PassType, CountInv, TimerTypes, TypeOK
<1> QED BY <1>1, SpecStageGate, PTL

(* At most one heavy stage is at work that was not abandoned after the     *)
(* forfeit grace, and no index is in flight beside the token's holder.     *)
THEOREM OneStageAtATime == Spec => []OneHeavyStage
<1>1. GateProofInv => OneHeavyStage
  BY DEF GateProofInv, LiveInv
<1> QED BY <1>1, SpecStageGate, PTL

(* Once Stop was signalled no pass runs under a live context, those that   *)
(* start afterwards included.                                              *)
THEOREM StopReaches == Spec => []StopReachesEveryPass
<1>1. GateProofInv => StopReachesEveryPass
  BY DEF GateProofInv, LiveInv
<1> QED BY <1>1, SpecStageGate, PTL

(* A re-run request has a registered pass that will service it, a deferral *)
(* marker an arm or a pass, a drain barrier a stage that is armed to try.  *)
THEOREM NobodyStranded == Spec => []NothingStranded
<1>1. GateProofInv => NothingStranded
  BY DEF GateProofInv
<1> QED BY <1>1, SpecStageGate, PTL

(* With any number of sweeps: a pass under a live context was started      *)
(* after the last cancel of its group, until it has done its bookkeeping,  *)
(* and so was the work behind every link timer that is armed.              *)
THEOREM PassesStayDead == Spec => [](PassesAreCurrent /\ LinkArmsAreCurrent)
<1>1. GateProofInv => PassesAreCurrent /\ LinkArmsAreCurrent
  BY DEF GateProofInv, LiveInv, ArmInv
<1> QED BY <1>1, SpecStageGate, PTL

(* Where no overlay sweep arms the algorithm (it does so late, for a group *)
(* it saw before the cancel), nothing of a cancelled group is authorised   *)
(* or at work any more.                                                    *)
THEOREM CancelledStaysDead ==
    ASSUME MaxSweeps = 0
    PROVE  Spec => []CancelledWorkStaysDead
<1>1. GateProofInv => CancelledWorkStaysDead
  BY DEF GateProofInv, LiveInv, ArmInv, Fresh, PassesAreCurrent, AtWork, CancelledWorkStaysDead
<1> QED BY <1>1, SpecStageGate, PTL
=============================================================================
