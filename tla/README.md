# grafel: TLA+ models, model checks and proofs

grafel is a background daemon that keeps code graphs of registered repositories
up to date and answers queries about them. This directory models the part of it
where correctness depends on *order*: who may index a repository and when, how
triggers travel from a file change to an index, how the heavy stages after an
index are kept apart, and how work crosses from the `serve` process to the
`engine` process through files that survive a crash.

The source is `src/`; line references below are to files under it. `PROJECT.json`
maps each definition to the lines it models.

## 1. Inventory

### Processes and data flow

In split mode the daemon is two processes. `serve` answers RPCs, MCP calls and
the dashboard; `engine` watches repositories, indexes them and runs link and
algorithm passes. `serve` supervises `engine` and restarts it. They share a
file tree: request files (serve to engine), ack files (engine to serve), status
sidecars, graph generations, the group registry. With split mode off both halves
are one process (the monolith).

    watchers, pollers --Enqueue--> IndexScheduler --claims--> repolock <--claims-- rebuilds
    MCP/CLI --RPC--> Service --request file--> drain --> rebuild worker ---^
                        ^                                      |
                        +---- awaits the ack file <------------+
    IndexScheduler --index done--> link timer --> link pass --> group-algorithm pass
                      (admission, dead-man, forced jobs and passes share the stage gate)
    rebuild --gate slot, repo claim--> subprocess --> graph.<gen> + "current"
    MCP tool call --> resident graph (memory map) <--reload-- "current"
    serve --spawn, SIGTERM, SIGKILL--> engine    (daemon.pid, engine.pid, socket)

### Components

| Component (source) | State | Operations | What is hard | What makes it correct |
|---|---|---|---|---|
| Repo claims (`internal/repolock`) | map key -> `keyState{held, fgWant, fgStart}`, one condition variable | `ClaimForeground`, `TryClaimBackground`, releases, `ForegroundClaimStart` | entries are unmapped while sleepers keep pointers; one condvar for all keys; intent counted over several rebuilds | exclusion, exact intent, no lost wake-up, no leak |
| Index scheduler (`daemon/sched/scheduler.go`) | enqueue channel, pending queue and flags, ledger of predicted MB, jobs channel, breaker, retry timers | `EnqueueRefCommit`, `dedupLoop`, `tryAdmit`, `checkDeadMan`, `runIndex`, `MarkIndexed` | three locks' worth of marks changed in separate critical sections; two bounded channels; a prediction that moves under the ledger | no trigger lost, one index per repo, budget, exact ledger, progress |
| Enrichment and stage gate (`scheduler.go`, `stagegate.go`, `stagegate_barge.go`) | link and algorithm timers with arms, running passes, the token, barrier, barges, cancel generations | timer bodies, acquire, defer, forfeit, abandon, release, `CancelGroup`, sweep, `Stop` | timers that fired and wait for the lock; a holder that never returns; gaps between two locks; starvation | one heavy stage, cancelled work stays dead, an armed stage runs |
| Request queue and drain (`daemon/requests`, `requests_drain.go`) | request, ack and dead-letter files; per-group goroutine; backoff | `Write`, `ListPending`, `ApplyAndAck`, `ApplyAndAckBounded`, coalescing | a kill between any two file operations; crash loops; duplicates | at most once after the ack, bounded retries, nothing vanishes |
| Rebuild waiter (`rebuild_wait.go`, `rebuild_request_status.go`) | what the caller was told | poll, give up, consume the ack | races with the engine's ack and its death | an OK means a rebuild ran; every waiter hears |
| Service RPCs (`service.go`) | sessions, per-group semaphores, drain flag | `Index`, `Rebuild`, `RemoveRepo`, `DeleteGroup`, `Stop` | an RPC that times out while its goroutine works on | no second rebuild of a group, deletion is final |
| Status sidecar (`statuswriter.go`, `internal/statusfile`) | one file per repo | periodic write | a phase derived from an mtime and a claim | phases move one way |
| Rebuild goroutine and pool (`cmd/grafel/daemon.go`, `group_cancel.go`) | registration per group, work list, worker pool, per-repo goroutines | register, index each repo, time out, links, cancel | a call, a rebuild and an index that time out separately and go on; a delete at any moment | one rebuild per group, one index per repo, all slots free in the end |
| Index gate (`index_concurrency.go`) | active counts, two ticket queues | `Acquire`, `Release` | a slot passes between two classes; reserved slots | counts exact, never over capacity, FIFO within a class |
| Graph generations (`graph/genpath.go`, `fbwriter/segmented.go`) | `graph.<gen>.fb` or `graph.<gen>/`, `current` pointer | write, flip, sweep, resolve | a reader between resolve and open; a writer that dies; directories removed piece by piece | the pointer names a whole graph and only grows |
| Resident graph (`internal/mcp/state.go`, `maphandle.go`, `index.go`) | records per repo, memory maps, label and BM25 indexes, groups and evicted shells | reload, evict, revive, search, close | handlers hold records without a lock; a reload reads "current" three times | no read after unmap, no map leaked, what is served is current |
| Job queue (`internal/jobs`) | jobs, bounded channel, history | `Enqueue`, `Cancel`, workers | cancel races the start; stop with a full channel | a terminal state is final |
| Supervisor, parent watch, single instance (`supervise.go`, `engine_parentwatch.go`, `pidfile.go`, `server.go`) | child, backoff, ceiling hits; two pid files, a socket | start, reap, spawn, restart, terminate, claim the pid file | any process may crash at any step; pids are reused; two serves start at once | one engine per serve; a serve that answers is spared; a stop ends |
| Tiers (`daemon/tier`) | slot -> hot, warm, cold | touch, scan, evict, reload | eviction under a query | a touched slot is loaded |
| Watchers (`daemon/watch`, `watchreg`, `worktree`) | debounce timers, quarantines, pollers | events, reconcile | overflow, missed events | a change leads to a trigger |
| Progress (`internal/progress`) | retained events, subscribers | publish, subscribe, tail | late subscribers | the terminal event is seen |
| Index state (`internal/indexstate`) | process-wide counters | begin/end | unbalanced pairs | counters return to zero |
| Store housekeeping (`reaper.go`, `orphanroot.go`, `stale_reindex.go`, ...) | files on disk | periodic scans | removing what is being written | only what nothing refers to is removed |
| Extractors, resolvers, links, MCP, dashboard, CLI, install | | | data, not protocol | unit tests |

`PROJECT.json` lists every component with its status, and under `hazards` what
is hard to test, at the line where it bites.

## 2. Modules

| Module | Models | Extends / uses |
|---|---|---|
| `RepoClaim` | abstract: what the claim registry promises its callers | |
| `RepoLock` | `internal/repolock` and the status writer's phase | instantiates `RepoClaim` |
| `RepoLockProofs` | the safety theorems about `RepoLock`, and that it implements `RepoClaim` | `RepoLock`, TLAPS |
| `IndexPromise` | abstract: what the scheduler promises about one repo | |
| `IndexScheduler` | the index half of `scheduler.go` | instantiates `IndexPromise` |
| `IndexSchedulerProofs` | its safety theorems, and that it implements `IndexPromise` | `IndexScheduler`, TLAPS |
| `StageGate` | the enrichment half of `scheduler.go`, the stage gate | |
| `StageGateProofs` | its safety theorems | `StageGate`, TLAPS |
| `RequestQueue` | request files, the drain, the rebuild worker, the waiter | |
| `RequestQueueProofs` | its safety theorems | `RequestQueue`, TLAPS |
| `GraphGen` | generations of one graph on disk and the indexer that writes them | |
| `GraphGenProofs` | its inductive invariant and theorems | `GraphGen`, TLAPS |
| `ResidentGraph` | the MCP server's copy of that graph, composed with the indexer | extends `GraphGen` |
| `ResidentGraphProofs` | that the composition's disk is `GraphGen`'s, and the safety theorems about readers, mappings and reloads | `ResidentGraph`, `GraphGenProofs` |
| `IndexGate` | the daemon-wide gate of index slots | |
| `RebuildRun` | a rebuild from the call to each repo's index, composed with the gate and the claims | extends `IndexGate`, instantiates `RepoClaim` |
| `RebuildRunProofs` | that rebuilds, registrations and indexes exclude each other, the gate's counts and its order | `RebuildRun`, TLAPS |
| `Supervisor` | serves, engines, pid files and the socket of one daemon root | |
| `SupervisorProofs` | its safety theorems | `Supervisor`, TLAPS |
| `MC...` | small instances for TLC | |

Each module names in its header what it abstracts. A variable stands for the
field of the same or similar name (the comment at its declaration says which);
an action is one critical section of the component's mutex, one channel or
timer operation outside it, or one file operation. Definitions marked
`\* mutant` are plausible bugs: replacing the definition they sit next to by
them must break a property, which shows that the property depends on it.

### RepoLock

`heap` holds `keyState` objects at addresses and `st` is the map from key to
address, so an object that `gcLocked` unmapped can still be pointed to by a
sleeping claimant (`ks`), and a new claim may get a new object. `pc` is where a
call is: `asleep` in `cond.Wait`, `awake` after a broadcast but before its
re-test, `holding`, `released`. `ClaimForeground` up to its first wait is one
action, each turn of its loop another (`WakeForeground`); a release clears
`held`, unmaps, and broadcasts in one. `graph` is the mtime the status writer
compares with the claim's start; `MaxTime` bounds the wall clock. `KeepsClaim` maps
it to `RepoClaim`, which knows only who wants and who holds each repo; that is
the view of it that `IndexScheduler` takes.

### IndexScheduler and IndexPromise

A token travels enqueue channel -> `pendingQ` -> `jobs` -> worker. `Enqueue` blocks when
the channel is full (a worker that owes a follow-up then blocks: `job.send`).
`Dedup` is `dedupLoop`'s body with its three outcomes. `Admit` is the first half
of `tryAdmit` and `DeliverAdmitted` its channel send, with `sending` in between;
`ForceAdmit` and `DeliverForced` are the dead-man's. A worker goes `StartJob`
(breaker), `ClaimRepo` (claim or yield), `IndexReturns`, `Retire` (first
critical section of the completion), `Settle` (after the unlock). Ref and commit
are one revision. `IndexPromise` has only `due`, `running` and `open`;
`KeepsPromise` maps every place a trigger can be (`Due`) to `due`.

### StageGate

A pass is an epoch: an acquisition of the token, from the timer body that
acquires it to its deferred release; `phase` is where its goroutine is and
`fate` whether it is live, cancelled, or cancelled and abandoned. Timers have
arms (`arm` is the one authorised; `timer` the stored one; `ticking` those that
have not fired; `firing` the bodies that fired and wait for the lock). Durations
are abstracted to the orders they allow: `HolderAges` stands for
`StageGateHoldMax` and then the forfeit grace running out, `DrainAges` for
`StageGateDrainMax`, `DeferAges` for `StageGateMaxDefer`, `BargeAges` for the
barge's limit. `seq` counts a group's cancels; `born` remembers under which
count an arm was set, for the property only.

### RequestQueue

One requests directory. A request file is its attempt count; `ack` is the ack
file. `DrainApplies`, `DrainAcks`, `DrainDeletes`, `DrainCollects` are the file
operations of `ApplyAndAck`, the `Worker...` actions those of
`ApplyAndAckBounded` and the `Dup...` actions those of `ackCoalesced`. `Kill`
may come between any two and keeps only the files. `outcome`, `starts`, `acked`
and `window` are history variables for the properties. A rebuild returns,
returns an error or panics. File operations do not fail, and every payload
decodes.

### GraphGen and ResidentGraph

`entry` is what the state directory holds of each generation: nothing, a file,
or a segment directory that is being built, whole, or torn by the sweep. The
indexer goes `BeginWrite` (for a directory; a file appears at once, by rename),
`FinishWrite`, `FlipPointer`, then `RemoveStale` or `KeepStale` for each older
generation, and may die before the flip (`DieWriting`). `Opens` says what a
reader finds who follows a pointer it read some time ago, the fallback to the
legacy `graph.fb` included.

`ResidentGraph` adds one group of one repo in the server. `repo` are the
`LoadedRepo` objects: which graph each of their parts is of (document, mtime,
content hash, label index, mapping, BM25 index). `map` are the memory maps.
`loader` is `reloadAllLocked` with its local variables, step by step, because
it resolves "current" three times (to find the file, to parse it, to map it)
while the indexer moves it, and publishes label index, index resets and mapping
one after the other. An eviction leaves a shell that shares the mapping, or
drops it; a lookup revives either. Handlers capture a record and an index and
then work without the state's lock, holding the record's reader mutex around
each read. Rows are served from the mapping (the default of
`GRAFEL_SERVE_FROM_MMAP`). One lazy index (BM25) stands for all.

### IndexGate and RebuildRun

`IndexGate` has the counts and the two queues of tickets; `Release` includes
`wakeLocked`, which hands out as many slots as it can. An acquirer whose context
ends while it waits is left out: the callers pass `context.Background()`.

In `RebuildRun` a run is one call of `Service.Rebuild`. Its goroutine (`pc`)
registers its cancel function, looks the group up, starts a pool of workers,
waits, runs the links and ends; the call itself (`rpc`) may have timed out long
before. A task is one repo of one run: `outer` is the pool's worker for it, which
gives up at the repo's timeout, and `inner` the goroutine that indexes, which
goes on until its subprocess is dead and keeps the repo's claim until then.
`DeleteGroup` cancels and `RemoveGroup` unregisters, with anything in between;
`CreateGroup` lets a group of the same name be created anew. The wipe of old
state, progress events and session phases are left out.

### Supervisor

A process is its pid; a serve has its main goroutine (`RunServe`, `run`) and its
supervisor's, an engine only one. `ReapEngine` and `WaitedDead` are
`reapStaleEngine`. `AcquirePIDFile` is five actions (`NobodyOwns`,
`SomeoneOwns`, `Refused`, `Reclaim`, `Claim`) because it reads the file, pings,
kills and writes without a lock; the listener is one more (`Listen`). The last
unanswered ping and the kill after it are one step. `Crash` may take any process
at any step; its children's parent becomes the init process, which the engine's
watchdog notices (`Orphaned`) if it had recorded another. Uptimes are either
healthy or not, the backoff's wait has no length, and a drain may last longer
than `reapStaleEngineWait`.

## 3. Runs

| Run | Instance | Checks |
|---|---|---|
| `repolock` | 2 keys, 2 rebuilds, 1 worker, 4 addresses, clock 2 (92,396 states) | `TypeOK`, `MutualExclusion`, `IntentVisible`, `NoLeak`, `ForegroundWins`, `PhaseNeverFallsBack`, `KeepsClaim`, `WaiterRuns` |
| `index` | 2 repos, 2 workers, sizes below and above the budget, 3 triggers, 1 stage, 1 rebuild (2.0 million) | `TypeOK`, `AdmissionExact` (ledger, budget, queue length, no index beside a stage), `OneTokenPerRepo`, `KeepsPromise` |
| `index_live` | 2 repos, 1 worker, every job above the budget (37,472) | `TriggersRun` |
| `stagegate` | 1 group, 1 repo, 3 arms, 2 epochs, 2 successful indexes, 1 cancel, 1 barge, Stop (1.8 million) | `TypeOK`, `OneHeavyStage`, `CancelledWorkStaysDead`, `StopReachesEveryPass`, `NothingStranded` (every re-run, barrier and busy marker has an owner) |
| `stagegate_live` | 1 group, a second repo that keeps indexing, a sweep, a barge, 4 epochs (63,912) | `ArmedStageRuns` |
| `requests_crash` | 2 rebuilds of one key, 1 of another, 1 inline request, 2 kills, 2 attempts (4.5 million) | `TypeOK`, `NotPendingMeansTerminal`, `CrashLoopBounded`, `AckedNeverReapplied`, `BackoffHolds` |
| `requests_live` | 2 rebuilds of one key, both awaited, 1 kill, 2 attempts (218,121) | `OkMeansCompleted`, `RequestsSettle` (and every waiter hears) |
| `resident` | 3 generations, the first a directory, 1 death, 2 handlers of which 1 searches, 2 records, 5 maps, 1 eviction (1.1 million) | `ReloadSeesWhatIs`, `OneOvertakingIsSafe`, `NoReadAfterUnmap`, `NoMappingForgotten`, `ServedFresh`, `PublishedStay` |
| `supervisor` | 3 pids, 2 serves at once, backoff 2 steps, any crash, pid reuse, slow drains (405,862) | `SupervisionExact` (one engine, watched; gives up only on a crash loop), `ServingIsSpared`, `EngineOrEnd` |
| `rebuild` | 2 groups, 3 calls, 3 repo tasks on 2 repos, 1 slot, pools of 2, 1 delete (1.2 million) | `SlotsExact`, `RebuildsExclusive`, `NoOvertaking`, `AllEnds` |
| `requests_false_ok`, `resident_derived` | see section 5 | one statement of the repository each, which the code does not keep |

Why these bounds are enough to be interesting (every safety property of these
runs is also proved, in section 4, for all bounds; what rests on the bounds alone
is liveness):

- `repolock`: a stale pointer needs a sleeper, a release that unmaps and a later
  claim; two keys are needed for the shared condition variable, and an
  allocator with an unreferenced address for every claimant plus one lets any
  interleaving of unmap and reallocate happen.
- `index`: three triggers let one be in flight, one queued and one arrive late;
  size 3 exceeds the budget of 2, so the "runs alone" rule and the dead-man
  both fire; a channel of capacity 1 fills. Repos and workers are symmetric,
  and no liveness is checked under symmetry.
- `stagegate`: three arms let an old body wait while a newer arm is set and
  another is pending; two epochs let an abandoned holder meet its successor. Ids
  of arms and epochs are reused once nothing refers to them. With `MayStop`
  the system may really stop, so deadlock is not checked there; `stagegate_live`
  does check it.
- `requests_crash`: with two kills and two attempts, kills alone exhaust a
  budget; a duplicate and a second key exercise coalescing and the shared
  backoff. Nobody waits: with a waiter `AckedNeverReapplied` fails
  (section 5).
- `resident`: three generations let the pointer move twice within one reload,
  so that its three readings can all differ, and let the sweep reach what the
  reload read first; the first is a directory, which can be read torn. A record
  and its successor, and one map more than records and loader can hold, suffice
  because both are reused when nothing refers to them. A server that was closed
  stops, so deadlock is not checked there.
- `supervisor`: two serves are needed for every race over the pid file and the
  socket. Three pids are one less than two serves and two engines need, so that
  a failed spawn and reuse of a named pid both happen; a new process takes the
  lowest pid that no file names, or one that a file names. Crashes are not
  bounded.
- `rebuild`: two calls of one group contend for the semaphore, the second with
  an empty work list; the third has a repo of the first. With one slot every
  index competes for it. The reservation of slots for the foreground needs more
  slots than that and is not exercised; `NoIdleSlot` shows why it
  can never bind (section 5).

### Fairness

Liveness assumes only what the runtime and the code's loops give:

- `RepoLock`: a woken goroutine runs, an index that runs ends.
- `IndexScheduler`: `dedupLoop`, the admission loop, workers and armed timers
  run; stages and rebuilds that hold something release it. Nobody has to
  trigger, fail, succeed or contend.
- `StageGate`: timers fire, bodies get the lock, index jobs end, clocks
  advance, bookkeeping after a pass completes. A pass need **not** return: the
  forfeit must cope. `stagegate_live` sets `SlowIndex = FALSE`, that is, an
  index job is quicker than `StageGateDrainMax` (two minutes;
  `stagegate.go:138` expects that); without it the property fails (section 5).
- `RequestQueue`: the drain and worker loops run, a rebuild returns or panics,
  backoffs elapse, waiters poll. Nothing makes a waiter give up, so
  `RequestsSettle` does not hold by timeout. Kills are finitely many.
- `ResidentGraph`: a reload that began goes on, and a handler in the middle of a
  call too. Nobody has to begin one; `ServedFresh` speaks of what is resident.
- `Supervisor`: the goroutines of a serve that is there run, and an engine
  starts up and notices its parent's death. An engine need **not** end its
  drain, and nobody has to start, to stop or to crash.
- `RebuildRun`: every goroutine goes on, and the timers of calls and repos
  expire. An index ends for sure only once its context is dead.

## 4. Proofs

TLAPS proves every safety property that a run checks, action properties and the
two refinements included, for every value of the constants that the modules'
named assumptions allow: sets of any size, unless they are assumed finite, and
any bounds. Each proof module states one inductive invariant as a conjunction of
named parts, proves that the initial states satisfy it and that every action
keeps it (one lemma or step per action), and concludes the properties from it.
Finiteness is assumed only where the code counts: rebuilds of a key
(`FgAssumption`) and workers (`WorkerAssumption`; `Workers` in `scheduler.go` is a
number).

### Claims

For any sets of keys, rebuilds, workers and addresses:

| Theorem | States |
|---|---|
| `Invariance` | `Spec => []IInv` |
| `TypeCorrect` | `TypeOK`; in particular `fgWant` never goes below zero |
| `Exclusion` | `MutualExclusion` |
| `Intent` | `IntentVisible` |
| `BackgroundYields` | `ForegroundWins` |
| `Reclaimed` | `NoLeak` |
| `PhaseMovesOn` | `PhaseNeverFallsBack` |
| `Implementation` | `KeepsClaim` |

None of the properties is inductive. `MutualExclusion` alone does not say that
two claimants of a key look at the same object, nor that an object is not
shared by two keys, so a release of one key could free another's. The
invariant adds what the code relies on without saying it:

- `OnMapped`: a claim under way works on the object its key is mapped to. This
  is what `gcLocked`'s test of `fgWant` is for.
- `MappedApart`: no object serves two keys.
- `HeldOnce`: a holder's object has `held` set, and one holder.
- `BgNeverWaits`: only rebuilds sleep, so only they must be counted.
- `WantCounts`: `fgWant` is the number of rebuilds that wait for or hold the
  key. It gives both the intent flag and the fact that the last one to leave
  unmaps the entry.

Each action has a lemma that it preserves `IInv`; `NextInv` puts them together.
`ForegroundWins` follows from `WantCounts`, because a background claim tests
`fgWant = 0`. `NoLeak` needs one more induction, on top of the invariant
(`ClaimKeepsReason`, `ReleaseKeepsReason`). So does `PhaseMovesOn`: a graph's
time is past (`WrittenInThePast`), so a commit cannot lower it, and the start of a
claim period stays while the period lasts, whoever claims or releases whichever
object (`PeriodStays`).

`Implementation` shows that each action is an action of `RepoClaim` or changes
nothing it can see: `ClaimForeground` is `Ask` (and takes a free repo at once),
`WakeForeground` is `Get` or a stutter, `TryClaimBackground` is `Borrow`, both
releases are `GiveBack`. Its key facts are that an object that is not held, or
is not there, means that nobody holds the key (`NotHeldIsFree`), and that a
broadcast moves nobody but the caller in or out of a claim
(`ReleaseMovesOnly`).

### Generations

`GraphGenProofs` proves, for any number of generations and of writers that die,
that the pointer always names a whole generation (`PublishedWhole`), only grows,
and that a published generation is never rewritten (`Published`). `PointerWhole`
is not inductive: a step of the indexer could tear or rewrite what the pointer
names. `GInv` adds where the indexer is with respect to the pointer:
`WriterAhead` (what it writes is past the pointer, and its name was free) and
`SweepsBehind` (what the sweep removes is before it). The first rests on
`NextGenFresh`: the next number is past every generation on disk, because a
bounded set of naturals has a greatest member (`MaxExists`, from the library's
`WFMin`). `ResidentGraphProofs` shows that every step of the composition is a
step of the indexer or leaves the disk alone (`OnlyTheWriterWrites`), so the
disk beside any number of handlers, records, maps and evictions behaves as
`GraphGen` (`DiskIsGraphGen`) and both results carry over
(`PublishedBesideReaders`, `WholeBesideReaders`).

### Resident graph

The same module proves the server's side, for any number of handlers, records,
mappings, generations, deaths and evictions: `ServerTypes`, `ReadersAreSafe`
(`NoReadAfterUnmap`), `MappingsAreKept` (`NoMappingForgotten`),
`OvertakenOnceIsFound` (`OneOvertakingIsSafe`) and `ReloadsAreSound`
(`ReloadSeesWhatIs`). `MapInv` carries the first three: who is in a read holds
the mutex of the record whose mapping it reads (`MutexInv`, `OneMutex`), and what
the group or the loader has of mappings is open (`ServedOpen`). `FreshInv`
carries the others, and relates the loader's three readings of "current" to the
pointer: what it saw is not ahead (`SeenBehind`, `RecordBehind`), a record whose
evidence (mtime or hash) is the pointer's has that generation in its document,
its mapping and its label index (`EvidenceInv`), and a shell shares the mapping it
came from (`ShellInv`). It rests on `SweepsBehind` of the indexer, which is why
the two invariants are proved together (`SpecRInv`).

### Rebuilds and the gate

`RebuildRunProofs` proves `RebuildsExclusive` (`Exclusive`) for any groups, runs,
work lists and gate. The invariant `RInv` has three parts: `GroupInv` (the
semaphore names the one run of the group that is under way, its registration is
in place until it is cancelled), `IndexInv` (a goroutine that indexes holds the
claim alone, `ClaimIsHeld`), and `PoolInv`, which both need for their types and
for the order in which workers and goroutines start. Steps of runs and groups
keep the first (`RunStepKeeps`, `GroupStepKeeps`) and leave the second alone
(`OthersLeaveIndexes`), steps of tasks the other way round (`TaskStepKeeps`,
`TaskLeavesGroups`); that no timeout appears in the second lemma is the point:
an index that was given up keeps its claim.

`SlotsInStep` (`SlotsExact`) and `InTheirTurn` (`NoOvertaking`) are about the gate
under these rebuilds, for any number of slots and tickets. `GateInv` needs, beside
exact counts, that the queues and the holders are disjoint and that a queue is
not empty only at capacity (`NoIdleSlot`): without that, an arrival that is let
in at once would overtake. `HowMany` says how many tickets one `wakeLocked` admits
from a queue, `ReleaseFacts` what both loops together do, and `SlotInv` ties a
slot to a worker that will release it.

### Index scheduler

`IndexSchedulerProofs`, for any repos, workers, sizes, budget and channel
capacities: `SchedulerTypes`, `AdmissionKeepsBooks` (`AdmissionExact`),
`RepoHasOneToken` (`OneTokenPerRepo`), `SchedulerKeepsPromise` (`KeepsPromise`). The
invariant `IInv` says where a repo's token is: a repo is queued once and pending
because it is queued or because no worker has started it yet (`QueueInv`); a token
that no worker has is for a repo that is still pending, one that a worker has for
a repo that is not, and each is charged the prediction it was admitted under
(`TokenInv`); no two are for one repo (`TokensApart`); what is in flight has one
(`FlightInv`); the ledger is the sum over them (`LedgerInv`). That the jobs channel
never overflows, and that two `pendingIndex` and `inflight` marks set in separate
critical sections agree, follow.

The ledger is a sum over a set, which the library computes by a recursive
function whose value the prover cannot get by induction. `SumExists` and the
lemmas before it prove what it computes by a least counterexample instead, and
that the order of the summands does not matter (`AnyAddend`).

The refinement needs that a trigger's place (`Due`) moves with the token
(`DueIs`): the lemmas from `QueuesKeepDue` to `OneWorkerMoves` say what a change of
the queue or of one worker does to it, and `StartPromised`, `ClaimPromised`,
`ReturnPromised`, `RetirePromised` and `SettlePromised` that each such step takes
at most one repo's promise.

### Stage gate

`StageGateProofs`, for any groups, repos, arms, epochs, barges, cancels and
sweeps: `StageTypes`, `OneStageAtATime` (`OneHeavyStage`), `StopReaches`
(`StopReachesEveryPass`), `NobodyStranded` (`NothingStranded`), `PassesStayDead`
and `CancelledStaysDead`. The invariant ties two records of one fact that the code
keeps under different locks: who holds the token, and which pass is registered
where `CancelGroup` finds it. A pass that is at work under a live context is the
registered one of its stage (`Registered`) and was started since the last cancel
of its group (`PassesAreCurrent`); armed link timers are of the current count
(`LinkArmsAreCurrent`); and after Stop no body that fired is authorised (`ArmInv`).
`OneHeavyStage` then needs only that a token names a pass that is there.

`CancelledStaysDead` (`CancelledWorkStaysDead`) assumes `MaxSweeps = 0`, as its run
does: with an overlay sweep the property fails for the algorithm's arms
(section 5). `PassesStayDead` says what holds with any number of sweeps.

### Request queue

`RequestQueueProofs`, for any requests, keys, waits, kills and attempt budget:
`QueueTypes`, `OffTheQueueIsTerminal` (`NotPendingMeansTerminal`),
`StartsAreBounded` (`CrashLoopBounded`), `OkIsCompleted` (`OkMeansCompleted`),
`PanickedKeyWaits` (`BackoffHolds`), `UnawaitedNeverReapplied` and
`AckedIsNotReapplied` (`AckedNeverReapplied`). What a goroutine has in memory is
related to the files a kill would leave: the drain loop still has to apply only
what is pending (`DrainInv`), the worker's list is of pending requests and what it
took is of one key that the list does not have (`WorkerInv`), every end is known
before its ack is written (`OutcomeInv`). `BudgetInv` is the argument behind the
crash-loop bound: all starts of a key are recorded in *one* request of it that is
pending, and that is on the worker's list if any of the key is; that the survivor
of a bucket is the most attempted one (`SurvivorMostAttempted`) keeps it, although
newer requests of the key arrive meanwhile. `BackoffInv` does the same for a
panicked request.

`AckedIsNotReapplied` assumes that nobody waits, as its run does: a waiter may
remove the ack before the engine removed the request (section 5).
`UnawaitedNeverReapplied` has no such hypothesis and says it of every request
that is not itself awaited, whatever else is.

### Supervisor

`SupervisorProofs`, for any pids and tuning: `OneEnginePerServe`
(`SupervisionExact`) and `ServingSurvives` (`ServingIsSpared`). `SInv` adds to
`OnlyTheWatchedChild` an exact count of a supervisor's launches (`ServeOK`: every
one is a doubling of the backoff or, at the ceiling, a hit) and `KindsApart`: no
pid is a serve and an engine, and `engine.pid`, whose pid the next serve signals,
names no serve that has looked at it. Deaths re-parent engines, and a signal may
reach a stranger; `DeathsDo`, `DrainingDoes` and `StoppingDoes` say what they do,
and `Frame` what a step must leave alone.

### Only model-checked

- All liveness: `WaiterRuns`, `TriggersRun`, `ArmedStageRuns`, `RequestsSettle`,
  `ServedFresh`, `EngineOrEnd`, `AllEnds`. Fairness and ENABLED are beyond the
  prover.
- `OkMeansSucceeded` and `SearchOfOneGraph`, which the code does not keep.

## 5. Where the code and its comments disagree

Two have a run whose counterexample is a short trace.

- `requests_false_ok` (a bug): `ApplyAndAckBounded` returns
  `(OutcomeAppliedError, nil)` for a rebuild that failed, so `applyBucket` acks
  the duplicates OK; the comment promises "never a false success".
- `resident_derived` (a bug): a reload publishes the new label index and resets
  the lazy indexes before it publishes the new mapping; a search that builds its
  index in between ranks rows of the old graph and returns entities of the new
  one. `state.go:884` promises a resolver that "stays byte-consistent with the
  graph.fb this index was built from".

Others, seen in counterexamples while modelling and not kept as runs. In the
scheduler and the stage gate:

- A follow-up's ref, captured under the lock and enqueued after it, overtakes a
  newer trigger's (`scheduler.go:1903`; the comment at 991 says the most
  recently observed ref is kept).
- If an index outlasts `StageGateDrainMax`, the barrier has lapsed when the
  batch ends, and dispatch resumes before the stage's retry, again and again
  (`stagegate.go:235`; the comment at 448 says "Progress is therefore
  guaranteed"). `stagegate_live` assumes quicker indexes.
- An index that starts between `DeleteGroup`'s cancel and the removal from the
  registry (`service.go:1253`) arms a pass of the deleted group
  (`scheduler.go:2121`: "There is no third outcome").
- A job that meets an open circuit records "retrying after backoff"
  (`scheduler.go:1717`), but nothing retries it; only a new trigger does.
- A new trigger for a deferred group-algorithm pass restarts its starvation
  clock.
- A cancelled group-algorithm pass that returns late clears the marker of the
  pass deferred behind it, which is then invisible to the stats.
- An overlay sweep that found a group stale before a cancel arms a pass after
  it; `stagegate` therefore runs without sweeps.

In the request queue and the claims:

- A waiter removes the ack between the engine's ack and its delete of the
  request (`rebuild_wait.go:297`); a kill there makes the request pending again,
  which `requests.go:20` says cannot happen.
- The crash backoff is per group: a bucket of another key that completes calls
  `clearBackoff`, and the panicked bucket is re-applied on the next tick.
  `BackoffHolds` is stated with that exception.
- A waiter that gives up deletes an ack that does not exist yet; the one the
  engine writes later stays on disk.
- A foreground claim's period starts while a background index may still run;
  its commit makes the status "enhancing" before the rebuild has begun.

In rebuilds and the gate:

- A delete whose cancel comes before the rebuild registers, and whose removal
  comes after the rebuild read the registry, lets the rebuild of a deleted group
  complete (`group_cancel.go:31` speaks of a window "closed DETERMINISTICALLY").
- A rebuild that wipes removes the repo's state (`daemon.go:2163`) before it
  claims the repo (2230), so that a background index may be writing there.
- Background indexes may take every slot while no foreground ticket waits
  (`index_concurrency.go:62`: they "can never consume every slot"); and while
  one waits all slots are taken, so the reservation never holds one back.
- A repo's timeout frees its slot while its subprocess may go on.
- A call that timed out marks its session failed, and its rebuild later moves
  the phases of that session on.

In the resident graph and the generations:

- If the second open of a graph fails after a header-only parse, the record
  counts as loaded, has no rows and no error (`state.go:1739`).
- The sweep keeps "the one before" by number: after an unpublished generation
  the previously published one is swept at once. A reader still survives one
  publication (`OneOvertakingIsSafe`).
- Groups that were removed from the registry stay in the server's memory.
- Two indexers of one graph that do not coordinate could move the pointer
  backwards; the model has one, by the repo's claim.

In the supervisor:

- `RunServe` reaps and spawns before it has claimed the pid file, so a second
  `serve` sends SIGTERM to the healthy serve's engine before it is refused
  (`supervise.go:176` speaks of an engine "left behind by a previous unclean
  serve death"). The first serve starts another.
- A serve that is restarted with the pid that `engine.pid` or `daemon.pid` names
  (a container) finds itself alive, and signals or kills itself.
- An engine whose serve dies before it recorded its parent never notices.
- The reap waits two seconds and does not kill; the old engine, when it ends,
  removes `engine.pid`, which by then may be its successor's.
- Two serves that start at once may both pass `AcquirePIDFile`, and one's pid
  may end up in the file beside the other's socket. `ServingIsSpared` therefore
  speaks of a serve that can be reached: if the other crashes, the next start
  kills the one in the file, which nobody could reach.

## 6. Not modelled, and the plan

Left out inside the modelled components: `StageGateDisabled`, debounce
durations, foreground epochs (`foreground.go`), the scheduler's published
snapshots and memory-release loop, dead-letter files, payloads that do not
decode, file errors, the wipe and the session phases of a rebuild, the
supervisor's health gate (reported, never acted on), the other lazy indexes,
links, sidecars, refs and worktrees of the resident graph.

Not modelled, with a reason: extractors, the query engine, resolvers and links,
which are most of the source, are translations of source trees to graph
entities with no protocol between actors; their specification would be a
restatement of tables and their inputs, source texts, are out of reach of small
instances. Dashboard, CLI, install, docs and web UI are presentation. Watchers,
watch registrations, worktrees and housekeeping are sources of triggers, which
`IndexScheduler` takes from its environment in any order. The status sidecar's
heartbeats, the group registry and the atomic file helper are single file
replacements, modelled as atomic where they are used.

Next modules:

1. `JobQueue`: bounded channel, cancel against start, stop.
2. `Tier`: promotion, eviction and reload against queries, on top of
   `ResidentGraph`.
3. `Progress`: retained terminal events and late subscribers.
4. Draining and session phases of the Service, on top of `RebuildRun`.

What is left to prove of the modules that are there is liveness, which stays with
TLC. Next proofs, with the modules above: that a job's terminal state is final, and
that a touched slot is loaded.
