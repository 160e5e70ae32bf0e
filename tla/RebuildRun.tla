------------------------------ MODULE RebuildRun ------------------------------
(***************************************************************************)
(* A rebuild in one daemon process, from the RPC (internal/daemon/         *)
(* service.go, Rebuild) to the index of each repo (cmd/grafel/daemon.go,   *)
(* daemonRebuildFuncCore): the semaphore of its group, the registration    *)
(* that lets DeleteGroup cancel it (group_cancel.go), the pool of repo     *)
(* workers, the gate of IndexGate, the repo claim of RepoClaim, and the    *)
(* timers of the RPC and of each repo.  An index that is given up by its   *)
(* timer goes on in a goroutine of its own until its subprocess is dead.   *)
(* A task is one repo of one rebuild.  The session phases, the wipe and    *)
(* the claims of background indexes are left out.                          *)
(***************************************************************************)
EXTENDS IndexGate

CONSTANTS
    Run, Group, Repo,
    GroupOf,          \* [Run -> Group]
    RunOf, RepoOf,    \* [Task -> Run], [Task -> Repo]: the work list
    Conc,             \* workers of one rebuild's pool
    MaxDeletes,       \* bound: calls of DeleteGroup
    None

ASSUME RebuildAssumption ==
    /\ GroupOf \in [Run -> Group]
    /\ RunOf \in [Task -> Run] /\ RepoOf \in [Task -> Repo]
    /\ None \notin Run
    /\ Conc \in Nat \ {0} /\ MaxDeletes \in Nat

VARIABLES
    rpc,          \* [Run -> state of the call]
    sem,          \* groupRebuildMu: the run that holds its group's semaphore
    pc,           \* [Run -> where the goroutine of the rebuild is]
    cancels,      \* groupRebuildCancels: the run a delete of the group cancels
    cancelled,    \* the runs whose group context is dead
    groups,       \* the group registry
    deleting,     \* the groups between DeleteGroup's cancel and RemoveGroup
    deletes,
    outer,        \* [Task -> where the pool's worker for it is]
    inner,        \* [Task -> where the goroutine of indexOneInner is]
    outcome,      \* [Task -> what the task's index returned]
    want, holders \* the repo claims

rpcVars   == <<rpc, sem>>
regVars   == <<cancels, groups, deleting, deletes>>
taskVars  == <<outer, inner, outcome>>
claimVars == <<want, holders>>
vars == <<rpcVars, pc, cancelled, regVars, taskVars, claimVars, gateVars>>

Claim == INSTANCE RepoClaim WITH Key <- Repo, Fg <- Task, Bg <- {}

Underway == {"registered", "repos", "links"}

TypeOK ==
    /\ rpc \in [Run -> {"queued", "waiting", "ok", "failed"}]
    /\ sem \in [Group -> Run \cup {None}]
    /\ pc \in [Run -> {"none", "begun", "over"} \cup Underway]
    /\ cancels \in [Group -> Run \cup {None}]
    /\ cancelled \subseteq Run
    /\ groups \subseteq Group /\ deleting \subseteq Group
    /\ deletes \in 0..MaxDeletes
    /\ outer \in [Task -> {"none", "pool", "gate", "running", "done"}]
    /\ inner \in [Task -> {"none", "asking", "wanting", "indexing", "over"}]
    /\ outcome \in [Task -> {"none", "ok", "err"}]
    /\ want \in [Repo -> SUBSET Task]
    /\ holders \in [Repo -> SUBSET Task]
    /\ GateTypeOK

Init ==
    /\ rpc = [r \in Run |-> "queued"]
    /\ sem = [g \in Group |-> None]
    /\ pc = [r \in Run |-> "none"]
    /\ cancels = [g \in Group |-> None]
    /\ cancelled = {}
    /\ groups = Group /\ deleting = {} /\ deletes = 0
    /\ outer = [t \in Task |-> "none"]
    /\ inner = [t \in Task |-> "none"]
    /\ outcome = [t \in Task |-> "none"]
    /\ Claim!Init
    /\ GateInit

TasksOf(r) == {t \in Task : RunOf[t] = r}

(***************************************************************************)
(* The call, which has been made and waits for its group's semaphore       *)
(***************************************************************************)
(* The call gets its group's semaphore and starts the goroutine. *)
TakeSem(r) ==
    /\ rpc[r] = "queued" /\ sem[GroupOf[r]] = None
    /\ sem' = [sem EXCEPT ![GroupOf[r]] = r]
    /\ rpc' = [rpc EXCEPT ![r] = "waiting"]
    /\ pc'  = [pc EXCEPT ![r] = "begun"]
    /\ UNCHANGED <<cancelled, regVars, taskVars, claimVars, gateVars>>

TimeoutFreesGroup(r) ==   \* mutant: the call's return releases the semaphore
    /\ rpc[r] \in {"queued", "waiting"}
    /\ rpc' = [rpc EXCEPT ![r] = "failed"]
    /\ sem' = IF sem[GroupOf[r]] = r THEN [sem EXCEPT ![GroupOf[r]] = None] ELSE sem
    /\ UNCHANGED <<pc, cancelled, regVars, taskVars, claimVars, gateVars>>

(* Both timers of the call: waiting for the semaphore, and for the result, *)
(* which the goroutine may have sent as the timer fires.  The goroutine    *)
(* and the semaphore stay as they are.                                     *)
RpcTimeout(r) ==
    /\ rpc[r] \in {"queued", "waiting"}
    /\ rpc' = [rpc EXCEPT ![r] = "failed"]
    /\ UNCHANGED <<sem, pc, cancelled, regVars, taskVars, claimVars, gateVars>>

Answer(r) ==
    /\ rpc[r] = "waiting" /\ pc[r] = "over"
    /\ rpc' = [rpc EXCEPT ![r] =
                 IF \A t \in TasksOf(r) : outcome[t] = "ok" THEN "ok" ELSE "failed"]
    /\ UNCHANGED <<sem, pc, cancelled, regVars, taskVars, claimVars, gateVars>>

CallReleasesGuard(r) ==   \* mutant: the call releases it, if it still waits
    /\ rpc[r] = "waiting" /\ pc[r] = "over" /\ sem[GroupOf[r]] = r
    /\ sem' = [sem EXCEPT ![GroupOf[r]] = None]
    /\ UNCHANGED <<rpc, pc, cancelled, regVars, taskVars, claimVars, gateVars>>

(* releaseGuard, when the goroutine is really done. *)
ReleaseGuard(r) ==
    /\ pc[r] = "over" /\ sem[GroupOf[r]] = r
    /\ sem' = [sem EXCEPT ![GroupOf[r]] = None]
    /\ UNCHANGED <<rpc, pc, cancelled, regVars, taskVars, claimVars, gateVars>>

(***************************************************************************)
(* The goroutine of a rebuild                                              *)
(***************************************************************************)
(* GroupRebuildContext: a registration it finds is cancelled, and replaced. *)
Register(r) ==
    LET g == GroupOf[r] IN
    /\ pc[r] = "begun"
    /\ pc' = [pc EXCEPT ![r] = "registered"]
    /\ cancels' = [cancels EXCEPT ![g] = r]
    /\ cancelled' = cancelled \cup ({cancels[g]} \ {None})
    /\ UNCHANGED <<rpcVars, groups, deleting, deletes, taskVars, claimVars, gateVars>>

(* The deferred end and cancel: only its own registration is taken back. *)
End(r) ==
    LET g == GroupOf[r] IN
    /\ pc' = [pc EXCEPT ![r] = "over"]
    /\ cancels' = IF cancels[g] = r THEN [cancels EXCEPT ![g] = None] ELSE cancels
    /\ cancelled' = cancelled \cup {r}
    /\ UNCHANGED <<groups, deleting, deletes>>

(* The group is looked up, and its repos go to the pool. *)
StartRepos(r) ==
    /\ pc[r] = "registered"
    /\ IF GroupOf[r] \in groups
         THEN /\ pc' = [pc EXCEPT ![r] = "repos"]
              /\ outer' = [t \in Task |-> IF RunOf[t] = r THEN "pool" ELSE outer[t]]
              /\ UNCHANGED <<cancels, cancelled, groups, deleting, deletes>>
         ELSE End(r) /\ UNCHANGED outer
    /\ UNCHANGED <<rpcVars, inner, outcome, claimVars, gateVars>>

(* The pool is drained: a failed repo fails the rebuild before its links. *)
ReposDone(r) ==
    /\ pc[r] = "repos" /\ \A t \in TasksOf(r) : outer[t] = "done"
    /\ IF \E t \in TasksOf(r) : outcome[t] = "err"
         THEN End(r)
         ELSE /\ pc' = [pc EXCEPT ![r] = "links"]
              /\ UNCHANGED <<cancelled, regVars>>
    /\ UNCHANGED <<rpcVars, taskVars, claimVars, gateVars>>

(* The link passes return, or are skipped for a dead context. *)
LinksDone(r) ==
    /\ pc[r] = "links"
    /\ End(r)
    /\ UNCHANGED <<rpcVars, taskVars, claimVars, gateVars>>

(***************************************************************************)
(* A repo of a rebuild                                                     *)
(***************************************************************************)
InPool(r) == {t \in TasksOf(r) : outer[t] \in {"gate", "running"}}

(* The context of its index: cancelled with the rebuild's, and whenever    *)
(* the worker leaves, which its timer may do while the index runs.         *)
CtxDead(t) == outer[t] = "done" \/ RunOf[t] \in cancelled

(* A worker of the pool takes the repo to the gate. *)
ToGate(t) ==
    /\ outer[t] = "pool" /\ Cardinality(InPool(RunOf[t])) < Conc
    /\ outer' = [outer EXCEPT ![t] = "gate"]
    /\ Acquire(t)
    /\ UNCHANGED <<rpcVars, pc, cancelled, regVars, inner, outcome, claimVars>>

(* The worker's result is stored; the deferred calls free gate and pool. *)
Settle(t, result) ==
    /\ outer' = [outer EXCEPT ![t] = "done"]
    /\ outcome' = [outcome EXCEPT ![t] = result]
    /\ Release(t)

(* indexOne, once past the gate: a cancelled rebuild indexes nothing more. *)
StartIndex(t) ==
    /\ outer[t] = "gate" /\ t \in held
    /\ IF RunOf[t] \in cancelled
         THEN Settle(t, "err") /\ UNCHANGED inner
         ELSE /\ outer' = [outer EXCEPT ![t] = "running"]
              /\ inner' = [inner EXCEPT ![t] = "asking"]
              /\ UNCHANGED <<outcome, gateVars>>
    /\ UNCHANGED <<rpcVars, pc, cancelled, regVars, claimVars>>

(* ClaimForeground waits for the claim whatever became of the context. *)
AskClaim(t) ==
    /\ inner[t] = "asking"
    /\ Claim!Ask(t, RepoOf[t])
    /\ inner' = [inner EXCEPT ![t] = IF t \in holders'[RepoOf[t]] THEN "indexing" ELSE "wanting"]
    /\ UNCHANGED <<rpcVars, pc, cancelled, regVars, outer, outcome, gateVars>>

GetClaim(t) ==
    /\ inner[t] = "wanting"
    /\ Claim!Get(t, RepoOf[t])
    /\ inner' = [inner EXCEPT ![t] = "indexing"]
    /\ UNCHANGED <<rpcVars, pc, cancelled, regVars, outer, outcome, gateVars>>

(* The subprocess ends, by itself or killed with its context; the result   *)
(* is for a worker that may have left.                                     *)
IndexEnds(t) ==
    /\ inner[t] = "indexing"
    /\ Claim!GiveBack(t, RepoOf[t])
    /\ inner' = [inner EXCEPT ![t] = "over"]
    /\ UNCHANGED <<rpcVars, pc, cancelled, regVars, outer, outcome, gateVars>>

Collect(t, result) ==
    /\ outer[t] = "running" /\ inner[t] = "over"
    /\ Settle(t, result)
    /\ UNCHANGED <<rpcVars, pc, cancelled, regVars, inner, claimVars>>

RepoTimeout(t) ==
    /\ outer[t] = "running"
    /\ Settle(t, "err")
    /\ UNCHANGED <<rpcVars, pc, cancelled, regVars, inner, claimVars>>

(***************************************************************************)
(* Deleting and creating groups                                            *)
(***************************************************************************)
DeleteGroup(g) ==
    /\ g \in groups /\ deletes < MaxDeletes /\ g \notin deleting
    /\ deletes' = deletes + 1
    /\ deleting' = deleting \cup {g}
    /\ cancels' = [cancels EXCEPT ![g] = None]
    /\ cancelled' = cancelled \cup ({cancels[g]} \ {None})
    /\ UNCHANGED <<rpcVars, pc, groups, taskVars, claimVars, gateVars>>

RemoveGroup(g) ==
    /\ g \in deleting
    /\ deleting' = deleting \ {g}
    /\ groups' = groups \ {g}
    /\ UNCHANGED <<rpcVars, pc, cancelled, cancels, deletes, taskVars, claimVars, gateVars>>

CreateGroup(g) ==
    /\ g \notin groups \cup deleting
    /\ groups' = groups \cup {g}
    /\ UNCHANGED <<rpcVars, pc, cancelled, cancels, deleting, deletes, taskVars, claimVars, gateVars>>

Finished ==
    /\ \A r \in Run : rpc[r] \in {"ok", "failed"} /\ pc[r] \in {"none", "over"}
    /\ UNCHANGED vars

RunStep(r) ==
    \/ TakeSem(r) \/ RpcTimeout(r) \/ Answer(r) \/ ReleaseGuard(r)
    \/ Register(r) \/ StartRepos(r) \/ ReposDone(r) \/ LinksDone(r)

WorkerStep(t) ==
    \/ ToGate(t) \/ StartIndex(t) \/ RepoTimeout(t)
    \/ \E result \in {"ok", "err"} : Collect(t, result)

TaskStep(t) == WorkerStep(t) \/ AskClaim(t) \/ GetClaim(t) \/ IndexEnds(t)

Next ==
    \/ \E r \in Run : RunStep(r)
    \/ \E t \in Task : TaskStep(t)
    \/ \E g \in Group : DeleteGroup(g) \/ RemoveGroup(g) \/ CreateGroup(g)
    \/ Finished

Spec == Init /\ [][Next]_vars

(* What the scheduler of the runtime and the timers carry out: an index    *)
(* ends for sure only when its context is dead and its subprocess killed.  *)
Progress ==
    \/ \E r \in Run : RunStep(r)
    \/ \E t \in Task :
         \/ WorkerStep(t) \/ AskClaim(t) \/ GetClaim(t)
         \/ CtxDead(t) /\ IndexEnds(t)

(* Each run is made once and each behaviour is finite, so that fairness to *)
(* all of these is fairness to each.  Nobody has to delete a group, and an *)
(* index that nobody gave up may take for ever.                            *)
FairSpec == Spec /\ WF_vars(Progress)

-----------------------------------------------------------------------------
(* Properties.                                                             *)

(* "At most ONE in-process group rebuild is alive at a time even across    *)
(* the per-RPC timeout": it is the one that its group's semaphore names.   *)
OneRebuildPerGroup ==
    \A r \in Run : pc[r] \in {"begun"} \cup Underway => sem[GroupOf[r]] = r

(* A delete of the group reaches every rebuild of it that registered:      *)
(* neither the end of an earlier rebuild nor a group of the same name      *)
(* created anew takes a registration away.                                 *)
CancelReachesIt ==
    \A r \in Run : pc[r] \in Underway /\ r \notin cancelled => cancels[GroupOf[r]] = r

(* A repo has one index at a time, those included that their rebuild gave  *)
(* up while their subprocess lives on.                                     *)
OneIndexPerRepo ==
    \A t, u \in Task :
        inner[t] = "indexing" /\ inner[u] = "indexing" /\ RepoOf[t] = RepoOf[u] => t = u

(* Groups, cancellation and repos: what timers and deletes may not break. *)
RebuildsExclusive == OneRebuildPerGroup /\ CancelReachesIt /\ OneIndexPerRepo

(* The gate "bounds the number of index operations that may run            *)
(* CONCURRENTLY" in the daemon, those apart that were given up and are     *)
(* being killed: no slot is freed under an index that goes on.             *)
IndexesBounded ==
    Cardinality({t \in Task : inner[t] # "over" /\ inner[t] # "none" /\ ~CtxDead(t)}) <= Cap

(* The slots of the gate and the indexes of the daemon, in step. *)
SlotsExact == TypeOK /\ GateExact /\ NoIdleSlot /\ IndexesBounded

(* Every call is answered and every rebuild ends, in its turn within its   *)
(* group, although indexes hang; no semaphore, slot or claim is kept.      *)
AllEnds ==
    <>[](/\ \A r \in Run : rpc[r] \in {"ok", "failed"} /\ pc[r] \in {"none", "over"}
         /\ \A g \in Group : sem[g] = None
         /\ \A k \in Repo : want[k] = {} /\ holders[k] = {}
         /\ active = 0)
=============================================================================
