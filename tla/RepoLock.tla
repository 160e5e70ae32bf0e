------------------------------ MODULE RepoLock ------------------------------
(***************************************************************************)
(* internal/repolock: the in-memory claim that keeps the two code paths    *)
(* which write a repo's graph.fb apart.  A foreground group rebuild calls  *)
(* ClaimForeground, which records its intent and then sleeps on one shared *)
(* condition variable while an index of the repo runs; the scheduler calls *)
(* TryClaimBackground, which never waits and yields to any foreground      *)
(* intent.                                                                 *)
(*                                                                         *)
(* A keyState is a Go object reached through a pointer: a claimant keeps   *)
(* the pointer it looked up while gcLocked may unmap the object from the   *)
(* registry.  The heap is therefore explicit: st maps a key to an object,  *)
(* and a call works on the object it captured.                             *)
(***************************************************************************)
EXTENDS Integers, FiniteSets

CONSTANTS
    Key,       \* cleaned repo paths
    Fg,        \* foreground rebuild goroutines; each one claims once
    Bg,        \* scheduler workers; a worker claims again and again
    Obj,       \* addresses a keyState can be allocated at
    NoObj,     \* the nil pointer
    MaxTime    \* bound on the wall clock

ASSUME FgAssumption   == IsFiniteSet(Fg)
ASSUME ProcAssumption == Fg \cap Bg = {}
ASSUME ObjAssumption  == NoObj \notin Obj
ASSUME TimeAssumption == MaxTime \in Nat \ {0}

VARIABLES
    st,      \* Registry.st: key -> object, NoObj when the map has no entry
    heap,    \* the keyState objects
    pc,      \* where each goroutine is in its claim
    key,     \* the key a goroutine's claim is about
    ks,      \* the object its claim captured
    graph,   \* per key, the mtime of graph.fb; 0 until a claim writes one
    now      \* wall clock

vars == <<st, heap, pc, key, ks, graph, now>>

Proc     == Fg \cup Bg
Time     == 1..MaxTime
KeyState == [held : BOOLEAN, fgWant : Nat, fgStart : 0..MaxTime]
FreshKeyState == [held |-> FALSE, fgWant |-> 0, fgStart |-> 0]

(* "asleep" is inside cond.Wait, "awake" has been woken and has not looked *)
(* at held yet, "released" has run its release and may still call it.      *)
Waiting == {"asleep", "awake"}
Wanting == Waiting \cup {"holding"}

TypeOK ==
    /\ st    \in [Key -> Obj \cup {NoObj}]
    /\ heap  \in [Obj -> KeyState]
    /\ pc    \in [Proc -> {"idle", "released"} \cup Wanting]
    /\ key   \in [Proc -> Key]
    /\ ks    \in [Proc -> Obj \cup {NoObj}]
    /\ graph \in [Key -> 0..MaxTime]
    /\ now   \in Time

Init ==
    /\ st    = [k \in Key |-> NoObj]
    /\ heap  = [o \in Obj |-> FreshKeyState]
    /\ pc    = [p \in Proc |-> "idle"]
    /\ key   \in {[p \in Proc |-> k] : k \in Key}
    /\ ks    = [p \in Proc |-> NoObj]
    /\ graph = [k \in Key |-> 0]
    /\ now   = 1

-----------------------------------------------------------------------------

(* An address the allocator may hand out: nothing points to it. *)
Unreferenced(o) ==
    /\ \A k \in Key : st[k] # o
    /\ \A p \in Proc : ks[p] # o

(* stateOf: the mapped object, or a fresh one at an unreferenced address. *)
StateOf(k, o) ==
    \/ o = st[k]
    \/ st[k] = NoObj /\ Unreferenced(o)

Contents(k) == IF st[k] = NoObj THEN FreshKeyState ELSE heap[st[k]]

(* Mutants: unmapping an object waiters still point to; never unmapping. *)
GcLockedHeldOnly(k, o, c) == IF ~c.held THEN NoObj ELSE o
GcLockedNever(k, o, c)    == o

(* gcLocked: unmap the key once its object c is neither held nor wanted. *)
GcLocked(k, o, c) == IF ~c.held /\ c.fgWant = 0 THEN NoObj ELSE o

(* cond.Broadcast: one condition variable serves every key. *)
Broadcast(f) == [p \in Proc |-> IF f[p] = "asleep" THEN "awake" ELSE f[p]]

(* Mutant: every claim stamps the start of the period anew. *)
IntendRestamp(c) == [c EXCEPT !.fgWant = @ + 1, !.fgStart = now]

(* What ClaimForeground records first: its intent, and the start of the    *)
(* claim period when the count leaves zero.                                *)
Intend(c) ==
    [held    |-> c.held,
     fgWant  |-> c.fgWant + 1,
     fgStart |-> IF c.fgWant = 0 THEN now ELSE c.fgStart]

(* ClaimForeground up to its first test of held: intent is recorded before *)
(* the wait, so that background claims fail from here on.                  *)
ClaimForeground(p, k) ==
    /\ pc[p] = "idle"
    /\ \E o \in Obj :
        /\ StateOf(k, o)
        /\ LET c == Intend(Contents(k)) IN
           /\ heap' = [heap EXCEPT ![o] = [c EXCEPT !.held = TRUE]]
           /\ pc' = [pc EXCEPT ![p] = IF c.held THEN "asleep" ELSE "holding"]
        /\ st'  = [st  EXCEPT ![k] = o]
        /\ ks'  = [ks  EXCEPT ![p] = o]
        /\ key' = [key EXCEPT ![p] = k]
    /\ UNCHANGED <<graph, now>>

(* Mutant: `if ks.held { cond.Wait() }`. *)
WakeForegroundOnce(p) ==
    /\ pc[p] = "awake"
    /\ pc' = [pc EXCEPT ![p] = "holding"]
    /\ heap' = [heap EXCEPT ![ks[p]].held = TRUE]
    /\ UNCHANGED <<st, key, ks, graph, now>>

(* One turn of `for ks.held { cond.Wait() }` after a wake-up. *)
WakeForeground(p) ==
    /\ pc[p] = "awake"
    /\ pc' = [pc EXCEPT ![p] = IF heap[ks[p]].held THEN "asleep" ELSE "holding"]
    /\ heap' = [heap EXCEPT ![ks[p]].held = TRUE]
    /\ UNCHANGED <<st, key, ks, graph, now>>

(* Mutant: one release clears the intent of every claimant. *)
AfterForegroundClears(c) == FreshKeyState

(* What a release leaves in the object: a foreground one also withdraws    *)
(* its intent, and the last of them ends the claim period.                 *)
AfterForeground(c) ==
    [held    |-> FALSE,
     fgWant  |-> c.fgWant - 1,
     fgStart |-> IF c.fgWant = 1 THEN 0 ELSE c.fgStart]

AfterBackground(c) == [c EXCEPT !.held = FALSE]

(* The release closure, run once (sync.Once): it works on the captured     *)
(* object, unmaps it if it is unused, and wakes every sleeper.             *)
ReleaseInto(p, c) ==
    /\ heap' = [heap EXCEPT ![ks[p]] = c]
    /\ st'   = [st EXCEPT ![key[p]] = GcLocked(key[p], @, c)]
    /\ pc'   = Broadcast([pc EXCEPT ![p] = "released"])
    /\ UNCHANGED <<key, ks, graph, now>>

(* Mutants: no sync.Once around the release; a release that wakes nobody. *)
ReleaseForegroundTwice(p) ==
    /\ pc[p] \in {"holding", "released"}
    /\ ReleaseInto(p, AfterForeground(heap[ks[p]]))

ReleaseBackgroundSilent(p) ==
    /\ pc[p] = "holding"
    /\ heap' = [heap EXCEPT ![ks[p]] = AfterBackground(@)]
    /\ st'   = [st EXCEPT ![key[p]] = GcLocked(key[p], @, heap'[ks[p]])]
    /\ pc'   = [pc EXCEPT ![p] = "released"]
    /\ UNCHANGED <<key, ks, graph, now>>

ReleaseForeground(p) ==
    /\ pc[p] = "holding"
    /\ ReleaseInto(p, AfterForeground(heap[ks[p]]))

ReleaseBackground(p) ==
    /\ pc[p] = "holding"
    /\ ReleaseInto(p, AfterBackground(heap[ks[p]]))

(* TryClaimBackground when it succeeds; when it fails it unmaps what it    *)
(* may have mapped, which leaves every variable as it was.  The mutant     *)
(* does not look at the intent of foreground claims.                       *)
MayClaimBackgroundHeldOnly(k) == ~Contents(k).held
MayClaimBackground(k) == ~Contents(k).held /\ Contents(k).fgWant = 0

TryClaimBackground(p, k) ==
    /\ pc[p] \in {"idle", "released"}
    /\ MayClaimBackground(k)
    /\ \E o \in Obj :
        /\ StateOf(k, o)
        /\ heap' = [heap EXCEPT ![o] = [Contents(k) EXCEPT !.held = TRUE]]
        /\ st'   = [st  EXCEPT ![k] = o]
        /\ ks'   = [ks  EXCEPT ![p] = o]
    /\ key' = [key EXCEPT ![p] = k]
    /\ pc'  = [pc  EXCEPT ![p] = "holding"]
    /\ UNCHANGED <<graph, now>>

(* The claim holder's index commits a graph.fb. *)
WriteGraph(p) ==
    /\ pc[p] = "holding"
    /\ graph' = [graph EXCEPT ![key[p]] = now]
    /\ UNCHANGED <<st, heap, pc, key, ks, now>>

Tick ==
    /\ now < MaxTime
    /\ now' = now + 1
    /\ UNCHANGED <<st, heap, pc, key, ks, graph>>

FgStep(p) == (\E k \in Key : ClaimForeground(p, k)) \/ WakeForeground(p)
                \/ ReleaseForeground(p)
BgStep(p) == (\E k \in Key : TryClaimBackground(p, k)) \/ ReleaseBackground(p)

Next ==
    \/ \E p \in Fg : FgStep(p)
    \/ \E p \in Bg : BgStep(p)
    \/ \E p \in Proc : WriteGraph(p)
    \/ Tick

Spec == Init /\ [][Next]_vars

(* A woken goroutine gets to run, and an index that runs comes to an end.  *)
(* Nothing makes anybody claim, write or let time pass.                    *)
Fairness ==
    /\ \A p \in Fg : WF_vars(WakeForeground(p)) /\ WF_vars(ReleaseForeground(p))
    /\ \A p \in Bg : WF_vars(ReleaseBackground(p))

FairSpec == Spec /\ Fairness

-----------------------------------------------------------------------------

HasForegroundClaim(k) == st[k] # NoObj /\ heap[st[k]].fgWant > 0

(* ForegroundClaimStart: 0 stands for "no claim". *)
ForegroundClaimStart(k) ==
    IF HasForegroundClaim(k) THEN heap[st[k]].fgStart ELSE 0

(* The status file's split of a foreground claim into the part before and  *)
(* the part after this run's graph.fb is there (writeRepoStatusFile).      *)
Phase(k) ==
    CASE ForegroundClaimStart(k) = 0 -> "background"
      [] ForegroundClaimStart(k) > graph[k] -> "indexing"
      [] OTHER -> "enhancing"

Holds(p, k)  == key[p] = k /\ pc[p] = "holding"
Claimants(k) == {p \in Fg : key[p] = k /\ pc[p] \in Wanting}

(* At most one index of a repo runs at a time, whichever path started it:  *)
(* a call that works on an unmapped keyState must never meet one that      *)
(* works on the keyState mapped after it.                                  *)
MutualExclusion ==
    \A k \in Key : \A p, q \in Proc : Holds(p, k) /\ Holds(q, k) => p = q

(* HasForegroundClaim tells the status writer and TryClaimBackground the   *)
(* truth: it is set exactly while some rebuild waits for or holds the key, *)
(* through every interleaving of claims, releases and unmappings.          *)
IntentVisible ==
    \A k \in Key : HasForegroundClaim(k) <=> Claimants(k) # {}

(* The registry does not grow: a key nobody claims has no entry. *)
NoLeak ==
    \A k \in Key : st[k] # NoObj => \E p \in Proc : key[p] = k /\ pc[p] \in Wanting

(* "The foreground rebuild wins": a background index never starts on a     *)
(* repo while a foreground rebuild waits for it or holds it.               *)
ForegroundWins ==
    [][\A p \in Bg, k \in Key :
          ~Holds(p, k) /\ Holds(p, k)' => Claimants(k) = {}]_vars

(* Within a claim period the reported phase never falls back from          *)
(* enhancing to indexing (keyState.fgStartNano: "never flips backwards for *)
(* the life of the claim").                                                *)
PhaseNeverFallsBack ==
    [][\A k \in Key : Phase(k) = "enhancing" => Phase(k)' # "indexing"]_vars

Claim == INSTANCE RepoClaim WITH
    want    <- [k \in Key |-> Claimants(k)],
    holders <- [k \in Key |-> {p \in Proc : Holds(p, k)}]

(* The map of keyStates, unmapped and allocated anew under sleeping        *)
(* claimants, implements one lock per repo with exact intent.              *)
KeepsClaim == Claim!Spec

(* A rebuild that waits gets the repo: no wake-up is lost although one     *)
(* condition variable serves all keys, and the scheduler's endless retries *)
(* cannot keep the repo from it.                                           *)
WaiterRuns == \A p \in Fg : pc[p] = "asleep" ~> pc[p] = "holding"
=============================================================================
