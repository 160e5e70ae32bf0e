------------------------------ MODULE StageGate ------------------------------
(***************************************************************************)
(* internal/daemon/sched, the enrichment side of the scheduler: the link   *)
(* pass and the group-algorithm pass of every group, the debounce timers   *)
(* that fire them, and the heavy-stage gate (stagegate.go,                 *)
(* stagegate_barge.go) that keeps one of them away from the other and from *)
(* the index jobs.  Also CancelGroup, which a group's deletion calls, and  *)
(* Stop.                                                                   *)
(*                                                                         *)
(* Time is abstract: a clock that a duration is measured against is young  *)
(* or old, and ages by an action of its own, so every order of expiry is   *)
(* possible.  Arm ids and epochs count up in the code and are only         *)
(* compared for equality; here an id is recycled once nothing refers to    *)
(* it.  The gate is enabled (StageGateDisabled is FALSE).                  *)
(***************************************************************************)
EXTENDS Integers, FiniteSets

CONSTANTS
    Group,        \* group names
    Repo,         \* repos that get indexed
    GroupsOf,     \* GroupsForRepo, for groups that are registered
    Arm,          \* ids of armed timers
    Epoch,        \* ids of token acquisitions
    Barge,        \* ids of foreground holds
    None,         \* no arm, no epoch, no stage
    AlgoCap,      \* slots of algoSem
    MaxIndexed,   \* bound: index runs that succeed and so arm link passes
    MaxCancels,   \* bound: CancelGroup calls
    MaxSweeps,    \* bound: stale groups the overlay sweep finds
    MaxBarges,    \* bound: foreground rebuilds
    MayStop,      \* TRUE if the scheduler may be stopped
    SlowIndex     \* TRUE if an index job may outlast StageGateDrainMax

ASSUME GroupsOfAssumption == GroupsOf \in [Repo -> SUBSET Group]
ASSUME NoneAssumption  == None \notin Arm \cup Epoch \cup ({"links", "algo"} \X Group)
ASSUME CapAssumption   == AlgoCap \in Nat \ {0}
ASSUME BoundAssumption == {MaxIndexed, MaxCancels, MaxSweeps, MaxBarges} \subseteq Nat
ASSUME FlagAssumption  == {MayStop, SlowIndex} \subseteq BOOLEAN

Stage  == {"links", "algo"} \X Group
Gen    == 0..MaxCancels
links(g) == <<"links", g>>
algo(g)  == <<"algo", g>>

VARIABLES
    index,      \* what each repo's index job is doing
    linkGen,    \* the generations the running job started under
    arming,     \* scheduleLinksFor calls its completion still owes
    seq,        \* groupCancelSeq
    timer,      \* linkTimers, groupAlgoTimers: the arm of the stored timer
    arm,        \* linkArm, groupAlgoArm: the arm that is authorised
    ticking,    \* timers that have not fired
    firing,     \* timer bodies that fired and wait for the lock
    born,       \* per arm, the generation of the work that armed it
    gate,       \* the token, the drain barrier and the barges
    deferSince, \* stageDeferSince: "none", "short", "long"
    pass,       \* per epoch, the pass that acquired it
    token,      \* linkCancel, groupAlgoCancel: the registered pass
    rerun,      \* groupAlgoRerun
    deferred,   \* groupAlgoDeferred
    sweep,      \* a group overlaySweepLoop found stale, its generation then,
                \* and whether it was seen idle
    registered, \* the groups in the registry
    stopping,   \* "no", "signalled", "done"
    budget      \* what is left of the bounds

indexVars == <<index, linkGen>>
timerVars == <<timer, arm, ticking, firing, born>>
passVars  == <<pass, token>>
vars == <<indexVars, arming, seq, timerVars, gate, deferSince, passVars, rerun,
          deferred, sweep, registered, stopping, budget>>

NoPass == [phase |-> "none"]
PassPhase == {"queued", "running", "chaining", "returned", "rearming", "leaving"}
Pass == [phase : PassPhase, stage : Stage, gen : Gen,
         fate : {"live", "cancelled", "abandoned"}]

TypeOK ==
    /\ index \in [Repo -> {"idle", "admitted", "running"}]
    /\ linkGen \in [Repo -> [Group -> Gen]]
    /\ arming \subseteq Group \X Gen
    /\ seq \in [Group -> Gen]
    /\ timer \in [Stage -> Arm \cup {None}]
    /\ arm \in [Stage -> Arm \cup {None}]
    /\ ticking \subseteq Stage \X Arm
    /\ firing \subseteq Stage \X Arm
    /\ born \in [Stage -> [Arm -> Gen]]
    /\ gate \in [holder : Epoch \cup {None},
                 age : {"fresh", "overdue", "forfeited", "abandonable"},
                 drain : Stage \cup {None}, drainOld : BOOLEAN,
                 barge : [Barge -> {"none", "fresh", "old"}]]
    /\ deferSince \in [Stage -> {"none", "short", "long"}]
    /\ pass \in [Epoch -> Pass \cup {NoPass}]
    /\ token \in [Stage -> Epoch \cup {None}]
    /\ rerun \subseteq Group
    /\ deferred \subseteq Group
    /\ sweep \in (Group \X Gen \X BOOLEAN) \cup {None}
    /\ registered \subseteq Group
    /\ stopping \in {"no", "signalled", "done"}
    /\ budget \in [{"indexed", "cancels", "sweeps", "barges"} -> Nat]
    /\ gate.holder = None => gate.age = "fresh"
    /\ gate.holder # None => pass[gate.holder] # NoPass
    /\ gate.drainOld => gate.drain # None
    /\ \A s \in Stage : token[s] # None => pass[token[s]] # NoPass
                                         /\ pass[token[s]].stage = s

Init ==
    /\ index = [r \in Repo |-> "idle"]
    /\ linkGen = [r \in Repo |-> [g \in Group |-> 0]]
    /\ arming = {} /\ rerun = {} /\ deferred = {}
    /\ seq = [g \in Group |-> 0]
    /\ timer = [s \in Stage |-> None] /\ arm = [s \in Stage |-> None]
    /\ ticking = {} /\ firing = {}
    /\ born = [s \in Stage |-> [a \in Arm |-> 0]]
    /\ gate = [holder |-> None, age |-> "fresh", drain |-> None,
               drainOld |-> FALSE, barge |-> [b \in Barge |-> "none"]]
    /\ deferSince = [s \in Stage |-> "none"]
    /\ pass = [e \in Epoch |-> NoPass]
    /\ token = [s \in Stage |-> None]
    /\ sweep = None
    /\ registered = Group
    /\ stopping = "no"
    /\ budget = [indexed |-> MaxIndexed, cancels |-> MaxCancels,
                 sweeps |-> MaxSweeps, barges |-> MaxBarges]

-----------------------------------------------------------------------------
(* The gate.                                                               *)

InFlight == {r \in Repo : index[r] # "idle"}
Alive(e) == pass[e] # NoPass
BargeHeld(g) == \E b \in Barge : g.barge[b] # "none"

(* The holder that reapForfeitedStageLocked gives up on. *)
Abandons(g) == g.holder # None /\ g.age = "abandonable"

(* clearStageHolderLocked. *)
VacatedStaysForfeited(g) == [g EXCEPT !.holder = None]   \* mutant
Vacated(g) == [g EXCEPT !.holder = None, !.age = "fresh"]

(* reapStageLocked: old barges lapse, an overdue holder is declared        *)
(* forfeited but keeps the token, one that outlived the grace loses it,    *)
(* and an old drain barrier lapses once the index batch has drained.       *)
Reap(g) ==
    LET h == CASE Abandons(g)        -> Vacated(g)
               [] g.age = "overdue"  -> [g EXCEPT !.age = "forfeited"]
               [] OTHER              -> g
    IN [h EXCEPT !.drain    = IF g.drainOld /\ InFlight = {} THEN None ELSE @,
                 !.drainOld = @ /\ InFlight # {},
                 !.barge    = [b \in Barge |-> IF @[b] = "old" THEN "none" ELSE @[b]]]

(* The passes as they are after the same reap: it cancels whom it abandons *)
(* before anybody else can have the token.                                 *)
Reaped(p) ==
    [e \in Epoch |-> IF Abandons(gate) /\ e = gate.holder /\ p[e] # NoPass
                     THEN [p[e] EXCEPT !.fate = "abandoned"] ELSE p[e]]

(* allowIndexAdmitLocked, and stageBusyLocked negated. *)
Open(g) == g.holder = None /\ g.drain = None

(* tryAcquireStageLocked's conditions. *)
MayAcquire(s, g) ==
    /\ ~BargeHeld(g)
    /\ g.holder = None
    /\ InFlight = {}
    /\ g.drain \in {None, s}

NoteDeferNoBarrier(s, g) == g   \* mutant

(* noteStageDeferLocked: the first deferral starts the clock; one that has *)
(* waited long enough raises the drain barrier, unless a barge is what     *)
(* stands in the way or a barrier is up already.                           *)
NoteDefer(s, g) ==
    IF deferSince[s] = "long" /\ g.drain = None /\ ~BargeHeld(g)
    THEN [g EXCEPT !.drain = s, !.drainOld = FALSE]
    ELSE g

Started(s) == IF deferSince[s] = "none" THEN "short" ELSE deferSince[s]

(* clearStageDeferralLocked. *)
WithoutDrainOnceOld(g, s) ==   \* mutant
    IF g.drain = s /\ g.drainOld THEN [g EXCEPT !.drain = None, !.drainOld = FALSE]
    ELSE g
WithoutDrain(g, s) ==
    IF g.drain = s THEN [g EXCEPT !.drain = None, !.drainOld = FALSE] ELSE g

-----------------------------------------------------------------------------
(* Index jobs, as far as the gate and the link timers see them.            *)

indexFrame == <<seq, timerVars, deferSince, token, rerun, deferred, sweep,
                registered, stopping>>

(* tryAdmit, or the dead-man: dispatch while the gate is open. *)
Admit(r) ==
    /\ index[r] = "idle" /\ stopping = "no"
    /\ Open(Reap(gate))
    /\ index' = [index EXCEPT ![r] = "admitted"]
    /\ gate' = Reap(gate)
    /\ pass' = Reaped(pass)
    /\ UNCHANGED <<indexFrame, linkGen, arming, budget>>

(* A held dispatch still reaps. *)
HoldAdmission ==
    /\ stopping = "no"
    /\ ~Open(Reap(gate))
    /\ gate' = Reap(gate)
    /\ pass' = Reaped(pass)
    /\ UNCHANGED <<indexFrame, indexVars, arming, budget>>

(* runIndex's first critical section snapshots every group's generation. *)
IndexStarts(r) ==
    /\ index[r] = "admitted" /\ stopping # "done"
    /\ index' = [index EXCEPT ![r] = "running"]
    /\ linkGen' = [linkGen EXCEPT ![r] = seq]
    /\ UNCHANGED <<indexFrame, arming, gate, pass, budget>>

(* The job leaves the gate's sight before it arms the link passes of the   *)
(* groups that have the repo by then; a failed job arms none.              *)
IndexEnds(r) ==
    /\ index[r] = "running"
    /\ index' = [index EXCEPT ![r] = "idle"]
    /\ \/ UNCHANGED <<arming, budget>>
       \/ /\ budget.indexed > 0
          /\ budget' = [budget EXCEPT !.indexed = @ - 1]
          /\ arming' = arming \cup
                {<<g, linkGen[r][g]>> : g \in GroupsOf[r] \cap registered}
    /\ UNCHANGED <<indexFrame, linkGen, gate, pass>>

-----------------------------------------------------------------------------
(* Timers.                                                                 *)

(* A fresh id: no map and no timer body of this stage refers to it. *)
FreshArm(s) ==
    CHOOSE a \in Arm : /\ a \notin {timer[s], arm[s]}
                       /\ <<s, a>> \notin ticking \cup firing

HasFreshArm(s) ==
    \E a \in Arm : a \notin {timer[s], arm[s]} /\ <<s, a>> \notin ticking \cup firing

(* Stop the stored timer, which only helps if it has not fired, and arm a  *)
(* new one (armLinkTimerLocked, armGroupAlgoTimerLocked); n is the         *)
(* generation of the work it continues.  f is what is left of firing.      *)
Rearm(s, n, f) ==
    LET a == FreshArm(s) IN
    /\ HasFreshArm(s)
    /\ timer' = [timer EXCEPT ![s] = a]
    /\ arm' = [arm EXCEPT ![s] = a]
    /\ ticking' = (ticking \ {<<s, timer[s]>>}) \cup {<<s, a>>}
    /\ firing' = f
    /\ born' = [born EXCEPT ![s][a] = n]

(* A stage's maps after an acquisition or a cancel. *)
Disarm(s, f) ==
    /\ timer' = [timer EXCEPT ![s] = None]
    /\ arm' = [arm EXCEPT ![s] = None]
    /\ ticking' = ticking \ {<<s, timer[s]>>}
    /\ firing' = f
    /\ UNCHANGED born

CurrentAlways(g, n) == TRUE   \* mutant

(* The continuation guard: the caller's generation is still current. *)
Current(g, n) == seq[g] = n

(* scheduleLinksFor, for a completed index. *)
ScheduleLinks(g, n) ==
    /\ <<g, n>> \in arming
    /\ arming' = arming \ {<<g, n>>}
    /\ IF Current(g, n) THEN Rearm(links(g), n, firing) ELSE UNCHANGED timerVars
    /\ UNCHANGED <<indexVars, seq, gate, deferSince, passVars, rerun, deferred,
                   sweep, registered, stopping, budget>>

(* A recompute request is serviced or dropped. *)
WithoutRerun(g) == rerun \ {g}

(* scheduleGroupAlgoFor, on behalf of work of generation n.  With a pass   *)
(* registered it asks for a re-run.  With a timer pending whose fire time  *)
(* the max-wait has pinned it does nothing; otherwise it cancels what is   *)
(* pending, and the deferral with it, and arms anew.                       *)
ScheduleAlgo(g, n) ==
    \/ /\ token[algo(g)] # None
       /\ rerun' = rerun \cup {g}
       /\ UNCHANGED <<timerVars, gate, deferSince, deferred>>
    \/ /\ token[algo(g)] = None
       /\ timer[algo(g)] # None /\ g \notin deferred
       /\ UNCHANGED <<timerVars, gate, deferSince, rerun, deferred>>
    \/ /\ token[algo(g)] = None
       /\ Rearm(algo(g), n, firing)
       /\ rerun' = WithoutRerun(g)
       /\ deferred' = deferred \ {g}
       /\ deferSince' = [deferSince EXCEPT ![algo(g)] = "none"]
       /\ gate' = WithoutDrain(gate, algo(g))

NoSchedule == UNCHANGED <<timerVars, gate, deferSince, rerun, deferred>>

(* The timer goroutine starts: it looks at the stop channel before the lock. *)
TimerFires(s, a) ==
    /\ <<s, a>> \in ticking
    /\ ticking' = ticking \ {<<s, a>>}
    /\ firing' = IF stopping = "no" THEN firing \cup {<<s, a>>} ELSE firing
    /\ UNCHANGED <<indexVars, arming, seq, timer, arm, born, gate, deferSince,
                   passVars, rerun, deferred, sweep, registered, stopping, budget>>

(* fireLinks and fireGroupAlgo under the lock: the body runs only for the  *)
(* arm that is still authorised.                                           *)
Authorised(s, a) == arm[s] = a

bodyFrame == <<indexVars, arming, seq, sweep, registered, stopping, budget>>

FireStale(s, a) ==
    /\ <<s, a>> \in firing
    /\ ~Authorised(s, a)
    /\ firing' = firing \ {<<s, a>>}
    /\ UNCHANGED <<bodyFrame, timer, arm, ticking, born, gate, deferSince,
                   passVars, rerun, deferred>>

FireDefers(s, a) ==
    /\ <<s, a>> \in firing
    /\ Authorised(s, a)
    /\ ~MayAcquire(s, Reap(gate))
    /\ gate' = NoteDefer(s, Reap(gate))
    /\ pass' = Reaped(pass)
    /\ deferSince' = [deferSince EXCEPT ![s] = Started(s)]
    /\ Rearm(s, born[s][a], firing \ {<<s, a>>})
    /\ deferred' = IF s[1] = "algo" THEN deferred \cup {s[2]} ELSE deferred
    /\ UNCHANGED <<bodyFrame, token, rerun>>

(* The passes after the contexts of those in E were cancelled. *)
Cancelled(p, E) ==
    [e \in Epoch |-> IF e \in E /\ p[e] # NoPass /\ p[e].fate = "live"
                     THEN [p[e] EXCEPT !.fate = "cancelled"] ELSE p[e]]

(* A link pass cancels a predecessor that is still registered. *)
Superseded(s, p) == Cancelled(p, IF s[1] = "links" THEN {token[s]} ELSE {})

(* A pass runs under a context derived from shutdownCtx. *)
FirstFateLive == "live"   \* mutant
FirstFate == IF stopping = "no" THEN "live" ELSE "cancelled"

FreeEpoch == CHOOSE e \in Epoch : ~Alive(e)

FireAcquires(s, a) ==
    LET g == Reap(gate)
        e == FreeEpoch
        new == [phase |-> IF s[1] = "algo" THEN "queued" ELSE "running",
                stage |-> s, gen |-> seq[s[2]],
                fate  |-> FirstFate]
    IN /\ <<s, a>> \in firing
       /\ Authorised(s, a)
       /\ MayAcquire(s, g)
       /\ \E x \in Epoch : ~Alive(x)
       /\ gate' = [WithoutDrain(g, s) EXCEPT !.holder = e, !.age = "fresh"]
       /\ pass' = [Superseded(s, Reaped(pass)) EXCEPT ![e] = new]
       /\ token' = [token EXCEPT ![s] = e]
       /\ deferSince' = [deferSince EXCEPT ![s] = "none"]
       /\ Disarm(s, firing \ {<<s, a>>})
       /\ UNCHANGED <<bodyFrame, rerun, deferred>>

-----------------------------------------------------------------------------
(* Passes.                                                                 *)

passFrame == <<indexVars, arming, seq, sweep, registered, stopping, budget>>

Step(e, from, to) ==
    /\ pass[e].phase = from
    /\ pass' = [pass EXCEPT ![e].phase = to]

(* runLinks: only a success goes on to the group-algorithm pass. *)
LinksReturn(e) ==
    /\ Alive(e) /\ pass[e].stage[1] = "links"
    /\ Step(e, "running", "chaining") \/ Step(e, "running", "returned")
    /\ UNCHANGED <<passFrame, timerVars, gate, deferSince, token, rerun, deferred>>

ChainAlgo(e) ==
    LET g == pass[e].stage[2] IN
    /\ Step(e, "chaining", "returned")
    /\ IF Current(g, pass[e].gen) THEN ScheduleAlgo(g, pass[e].gen) ELSE NoSchedule
    /\ UNCHANGED <<passFrame, token>>

(* runGroupAlgo takes a slot of algoSem, or gives up when it is cancelled. *)
AlgoSlots == {e \in Epoch : Alive(e) /\ pass[e].stage[1] = "algo"
                            /\ pass[e].phase = "running"}

AlgoStarts(e) ==
    /\ \/ Cardinality(AlgoSlots) < AlgoCap /\ Step(e, "queued", "running")
       \/ pass[e] # NoPass /\ pass[e].fate # "live" /\ Step(e, "queued", "returned")
    /\ UNCHANGED <<passFrame, timerVars, gate, deferSince, token, rerun, deferred>>

AlgoReturns(e) ==
    /\ Alive(e) /\ pass[e].stage[1] = "algo"
    /\ Step(e, "running", "returned")
    /\ UNCHANGED <<passFrame, timerVars, gate, deferSince, token, rerun, deferred>>

(* The bookkeeping after the pass: a token that is still its own is taken  *)
(* off the map; a group-algorithm pass also consumes the re-run request,   *)
(* under the generation of this moment, and drops the deferral marker.     *)
Bookkeep(e) ==
    LET s == pass[e].stage
        g == s[2]
        again == s[1] = "algo" /\ g \in rerun
    IN /\ pass[e].phase = "returned"
       /\ token' = [token EXCEPT ![s] = IF @ = e THEN None ELSE @]
       /\ pass' = [pass EXCEPT ![e].phase = IF again THEN "rearming" ELSE "leaving",
                               ![e].gen = IF again THEN seq[g] ELSE @]
       /\ rerun' = IF again THEN WithoutRerun(g) ELSE rerun
       /\ deferred' = IF s[1] = "algo" THEN deferred \ {g} ELSE deferred
       /\ UNCHANGED <<passFrame, timerVars, gate, deferSince>>

RearmAlgo(e) ==
    LET g == pass[e].stage[2] IN
    /\ Step(e, "rearming", "leaving")
    /\ IF stopping = "no" /\ Current(g, pass[e].gen)
       THEN ScheduleAlgo(g, pass[e].gen) ELSE NoSchedule
    /\ UNCHANGED <<passFrame, token>>

(* releaseStage, deferred to the very end: the token is given back only by *)
(* the epoch that holds it.                                                *)
OwnsByName(e) ==   \* mutant
    gate.holder # None /\ pass[gate.holder].stage = pass[e].stage
Owns(e) == gate.holder = e

Release(e) ==
    /\ pass[e].phase = "leaving"
    /\ pass' = [pass EXCEPT ![e] = NoPass]
    /\ gate' = IF Owns(e) THEN Vacated(gate) ELSE gate
    /\ UNCHANGED <<passFrame, timerVars, deferSince, token, rerun, deferred>>

-----------------------------------------------------------------------------
(* Cancelling and stopping.                                                *)

Of(g) == {links(g), algo(g)}

(* CancelGroup: the generation moves first, then everything of the group   *)
(* that exists is cancelled.  Its repos' index jobs see their context end, *)
(* which is one more way for an index to fail.                             *)
CancelGroup(g) ==
    /\ budget.cancels > 0
    /\ budget' = [budget EXCEPT !.cancels = @ - 1]
    /\ seq' = [seq EXCEPT ![g] = @ + 1]
    /\ timer' = [s \in Stage |-> IF s \in Of(g) THEN None ELSE timer[s]]
    /\ arm' = [s \in Stage |-> IF s \in Of(g) THEN None ELSE arm[s]]
    /\ ticking' = ticking \ {<<s, timer[s]>> : s \in Of(g)}
    /\ pass' = Cancelled(pass, {token[s] : s \in Of(g)})
    /\ token' = [s \in Stage |-> IF s \in Of(g) THEN None ELSE token[s]]
    /\ rerun' = WithoutRerun(g)
    /\ deferred' = deferred \ {g}
    /\ deferSince' = [s \in Stage |-> IF s \in Of(g) THEN "none" ELSE deferSince[s]]
    /\ gate' = WithoutDrain(WithoutDrain(gate, links(g)), algo(g))
    /\ UNCHANGED <<indexVars, arming, firing, born, sweep, registered, stopping>>

(* DeleteGroup removes the group from the registry after it cancelled it. *)
Unregister(g) ==
    /\ g \in registered /\ seq[g] > 0
    /\ registered' = registered \ {g}
    /\ UNCHANGED <<indexVars, arming, seq, timerVars, gate, deferSince, passVars,
                   rerun, deferred, sweep, stopping, budget>>

(* sweepStaleOverlays: a registered group is found stale, is seen idle     *)
(* under the lock, and is armed afterwards as a fresh trigger.             *)
sweepFrame == <<indexVars, arming, seq, passVars, registered, stopping>>

SweepFinds(g) ==
    /\ sweep = None /\ stopping = "no" /\ g \in registered
    /\ budget.sweeps > 0
    /\ budget' = [budget EXCEPT !.sweeps = @ - 1]
    /\ sweep' = <<g, seq[g], FALSE>>
    /\ UNCHANGED <<sweepFrame, timerVars, gate, deferSince, rerun, deferred>>

AlgoBusy(g) == timer[algo(g)] # None \/ token[algo(g)] # None

SweepChecks ==
    /\ sweep # None /\ ~sweep[3]
    /\ sweep' = IF AlgoBusy(sweep[1]) THEN None ELSE <<sweep[1], sweep[2], TRUE>>
    /\ UNCHANGED <<sweepFrame, timerVars, gate, deferSince, rerun, deferred, budget>>

SweepArms ==
    /\ sweep # None /\ sweep[3]
    /\ sweep' = None
    /\ ScheduleAlgo(sweep[1], sweep[2])
    /\ UNCHANGED <<sweepFrame, budget>>

(* Stop signals first; everything that runs sees its context end. *)
StopSignals ==
    /\ MayStop /\ stopping = "no"
    /\ stopping' = "signalled"
    /\ pass' = Cancelled(pass, Epoch)
    /\ UNCHANGED <<indexVars, arming, seq, timerVars, gate, deferSince, token,
                   rerun, deferred, sweep, registered, budget>>

(* What Stop does to the timers once the loops and workers have returned.  *)
ClearTimers ==
    /\ ticking' = ticking \ {<<s, timer[s]>> : s \in Stage}
    /\ arm' = [s \in Stage |-> None]
    /\ UNCHANGED <<timer, firing, born>>

StopClears ==
    /\ stopping = "signalled"
    /\ arming = {} /\ sweep = None /\ \A r \in Repo : index[r] # "running"
    /\ stopping' = "done"
    /\ ClearTimers
    /\ deferred' = {}
    /\ deferSince' = [s \in Stage |-> "none"]
    /\ gate' = [gate EXCEPT !.drain = None, !.drainOld = FALSE,
                            !.barge = [b \in Barge |-> "none"]]
    /\ UNCHANGED <<indexVars, arming, seq, passVars, rerun, sweep, registered,
                   budget>>

-----------------------------------------------------------------------------
(* Foreground work and time.                                               *)

gateFrame == <<indexVars, arming, seq, timerVars, passVars, rerun, deferred,
               sweep, registered, stopping>>

BargeForeground(b) ==
    /\ gate.barge[b] = "none" /\ stopping = "no"
    /\ budget.barges > 0
    /\ budget' = [budget EXCEPT !.barges = @ - 1]
    /\ gate' = [gate EXCEPT !.barge[b] = "fresh"]
    /\ UNCHANGED <<gateFrame, deferSince>>

ReleaseBarge(b) ==
    /\ gate.barge[b] # "none"
    /\ gate' = [gate EXCEPT !.barge[b] = "none"]
    /\ UNCHANGED <<gateFrame, deferSince, budget>>

BargeAges(b) ==
    /\ gate.barge[b] = "fresh"
    /\ gate' = [gate EXCEPT !.barge[b] = "old"]
    /\ UNCHANGED <<gateFrame, deferSince, budget>>

(* StageGateHoldMax runs out, and later StageGateForfeitGrace. *)
HolderAges ==
    /\ gate.holder # None
    /\ \/ gate.age = "fresh"     /\ gate' = [gate EXCEPT !.age = "overdue"]
       \/ gate.age = "forfeited" /\ gate' = [gate EXCEPT !.age = "abandonable"]
    /\ UNCHANGED <<gateFrame, deferSince, budget>>

(* StageGateDrainMax runs out on a barrier.  If index jobs are quicker than *)
(* that, only a holder or a barge can keep a barrier up for so long.       *)
DrainAges ==
    /\ gate.drain # None /\ ~gate.drainOld
    /\ SlowIndex \/ gate.holder # None \/ BargeHeld(gate)
    /\ gate' = [gate EXCEPT !.drainOld = TRUE]
    /\ UNCHANGED <<gateFrame, deferSince, budget>>

DeferAges(s) ==
    /\ deferSince[s] = "short"
    /\ deferSince' = [deferSince EXCEPT ![s] = "long"]
    /\ UNCHANGED <<gateFrame, gate, budget>>

-----------------------------------------------------------------------------

PassReturns(e) == LinksReturn(e) \/ AlgoReturns(e)
PassSettles(e) == ChainAlgo(e) \/ AlgoStarts(e) \/ Bookkeep(e) \/ RearmAlgo(e)
                     \/ Release(e)
Body(s, a) == FireStale(s, a) \/ FireDefers(s, a) \/ FireAcquires(s, a)

Next ==
    \/ \E r \in Repo : Admit(r) \/ IndexStarts(r) \/ IndexEnds(r)
    \/ HoldAdmission
    \/ \E g \in Group, n \in Gen : ScheduleLinks(g, n)
    \/ \E s \in Stage, a \in Arm : TimerFires(s, a) \/ Body(s, a)
    \/ \E e \in Epoch : Alive(e) /\ (PassReturns(e) \/ PassSettles(e))
    \/ \E g \in Group : CancelGroup(g) \/ Unregister(g) \/ SweepFinds(g)
    \/ SweepChecks \/ SweepArms
    \/ StopSignals \/ StopClears
    \/ \E b \in Barge : BargeForeground(b) \/ ReleaseBarge(b) \/ BargeAges(b)
    \/ HolderAges \/ DrainAges
    \/ \E s \in Stage : DeferAges(s)

Spec == Init /\ [][Next]_vars

(* Index jobs end, timers fire, goroutines get on and clocks run.  A pass  *)
(* need not ever return, and index jobs are admitted as long as the gate   *)
(* lets them in.                                                           *)
Fairness ==
    /\ \A r \in Repo : WF_vars(IndexStarts(r)) /\ WF_vars(IndexEnds(r))
    /\ \A g \in Group, n \in Gen : WF_vars(ScheduleLinks(g, n))
    /\ \A s \in Stage, a \in Arm : WF_vars(TimerFires(s, a)) /\ WF_vars(Body(s, a))
    /\ \A e \in Epoch : WF_vars(Alive(e) /\ PassSettles(e))
    /\ \A b \in Barge : WF_vars(BargeAges(b))
    /\ WF_vars(HolderAges) /\ WF_vars(DrainAges)
    /\ \A s \in Stage : WF_vars(DeferAges(s))

FairSpec == Spec /\ Fairness

-----------------------------------------------------------------------------
(* Properties.                                                             *)

(* "At most one heavy write-side stage is resident at a time": a pass that *)
(* is alive holds the token, unless it was cancelled and abandoned after   *)
(* the forfeit grace; and no index is in flight beside the holder.         *)
OneHeavyStage ==
    /\ \A e \in Epoch : Alive(e) /\ pass[e].fate # "abandoned" => gate.holder = e
    /\ gate.holder # None => InFlight = {}

(* Work that began before a group was cancelled never outlives the cancel: *)
(* no timer it armed is authorised, and no pass it started runs            *)
(* uncancelled, whichever gap between two locks the cancel fell into.      *)
CancelledWorkStaysDead ==
    /\ \A s \in Stage : arm[s] # None => born[s][arm[s]] = seq[s[2]]
    /\ \A e \in Epoch :
         Alive(e) /\ pass[e].fate = "live"
                  /\ pass[e].phase \in {"queued", "running", "chaining"}
            => pass[e].gen = seq[pass[e].stage[2]]

(* A recompute that was asked for while a pass ran is never forgotten: a   *)
(* registered pass is there to service it when it returns.                 *)
RerunHasServer == \A g \in rerun : token[algo(g)] # None

(* The marker that shows a deferred pass to grafel_stats is balanced: it   *)
(* is set only while the pass will fire again or is running, and Stop      *)
(* leaves none behind.                                                     *)
MarkerBalanced ==
    \A g \in deferred :
        /\ stopping # "done"
        /\ \/ arm[algo(g)] # None
           \/ \E e \in Epoch : /\ Alive(e) /\ pass[e].stage = algo(g)
                               /\ pass[e].phase \in {"queued", "running", "returned"}

(* Index dispatch is never held by a drain barrier nobody will pass: the   *)
(* stage that raised it is armed to try again.                             *)
DrainHasOwner == gate.drain # None => arm[gate.drain] # None

(* Nothing that waits for a pass is left without one. *)
NothingStranded == RerunHasServer /\ MarkerBalanced /\ DrainHasOwner

(* Once Stop was signalled, no pass runs with a live context. *)
StopReachesEveryPass ==
    stopping # "no" => \A e \in Epoch : Alive(e) => pass[e].fate # "live"

(* An armed stage gets its turn, or is cancelled, although index jobs are  *)
(* admitted for ever and a holder may never return: the drain barrier and  *)
(* the forfeit are what makes room for it.                                 *)
ArmedStageRuns == \A s \in Stage : arm[s] # None ~> arm[s] = None
=============================================================================
