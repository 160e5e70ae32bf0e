----------------------------- MODULE RequestQueue -----------------------------
(***************************************************************************)
(* internal/daemon/requests and requests_drain.go, rebuild_wait.go: the    *)
(* queue of request files through which the serve process hands work to    *)
(* the engine process.  One requests directory is modelled, that of a      *)
(* group: its rebuild requests, which a goroutine of their own applies     *)
(* with a bounded number of attempts, and requests the drain loop applies  *)
(* itself (KindCancelGroup, or a repo's KindReindex).  The engine may be   *)
(* killed between any two file operations and starts again.                *)
(*                                                                         *)
(* A request file is its attempt count; ids are in the order of CreatedAt, *)
(* which need not be the order in which the files appear.  ListPending is  *)
(* one step.  File operations do not fail.                                 *)
(***************************************************************************)
EXTENDS Integers, FiniteSets

CONSTANTS
    Id,           \* request ids, numbered by CreatedAt
    Key,          \* semantic keys of rebuilds (semanticRebuildKey)
    Inline,       \* the key of what the drain loop applies itself
    KeyOf,        \* the key of each request
    Waits,        \* rebuilds whose caller set WaitForCompletion
    MaxAttempts,  \* maxRebuildAttempts
    MaxKills      \* bound: times the engine is killed

ASSUME IdAssumption    == Id \subseteq Nat \ {0} /\ Inline \notin Key
ASSUME KeyAssumption   == KeyOf \in [Id -> Key \cup {Inline}]
ASSUME WaitsAssumption == Waits \subseteq {i \in Id : KeyOf[i] # Inline}
ASSUME BoundAssumption == MaxAttempts \in Nat \ {0} /\ MaxKills \in Nat

None == 0   \* no request

VARIABLES
    written,    \* requests that were ever written
    req,        \* request files on disk
    attempts,   \* the count in the file
    ack,        \* ack files on disk
    drain,      \* the drain loop: what it listed and still has to route
    worker,     \* the group's rebuild goroutine
    backoff,    \* nextAttempt of the group
    waiter,     \* awaitRebuildCompletion, per waiting request
    consumed,   \* waits that are over and removed their ack
    kills,      \* kills so far
    outcome,    \* history: the best that became of a request's work
    starts,     \* history: applications of a key since its last ack
    acked,      \* history: requests that ever had an ack
    window      \* history: requests that panicked, until the backoff is over

engine  == <<drain, worker, backoff>>
serve   == <<waiter, consumed>>
history == <<outcome, starts, acked, window>>
vars == <<written, req, attempts, ack, engine, serve, kills, history>>

Idle == [pc |-> "idle", todo |-> {}, cur |-> None, dups |-> {}, status |-> "ok"]
WorkerPC == {"idle", "list", "next", "apply", "ack", "delete", "gc",
             "dupAck", "dupDelete", "dupGc"}
DrainIdle == [pc |-> "route", todo |-> {}, cur |-> None]

TypeOK ==
    /\ written \subseteq Id /\ req \subseteq written /\ acked \subseteq written
    /\ attempts \in [Id -> 0..MaxAttempts]
    /\ ack \in [Id -> {"none", "ok", "error"}]
    /\ drain \in [pc : {"route", "ack", "delete", "gc"}, todo : SUBSET Id,
                  cur : Id \cup {None}]
    /\ worker \in [pc : WorkerPC, todo : SUBSET Id, cur : Id \cup {None},
                   dups : SUBSET Id, status : {"ok", "error", "dead"}]
    /\ backoff \in {"none", "waiting", "over"}
    /\ waiter \in [Waits -> {"none", "waiting", "ok", "error", "gaveup"}]
    /\ consumed \subseteq Waits
    /\ kills \in 0..MaxKills
    /\ outcome \in [Id -> {"none", "dead", "completed", "succeeded"}]
    /\ starts \in [Key -> Nat]
    /\ window \subseteq Id
    /\ worker.pc \in {"apply", "ack"} => worker.cur \in req

Init ==
    /\ written = {} /\ req = {} /\ acked = {} /\ consumed = {} /\ window = {}
    /\ attempts = [i \in Id |-> 0]
    /\ ack = [i \in Id |-> "none"]
    /\ drain = DrainIdle /\ worker = Idle /\ backoff = "none"
    /\ waiter = [i \in Waits |-> "none"]
    /\ kills = 0
    /\ outcome = [i \in Id |-> "none"]
    /\ starts = [k \in Key |-> 0]

-----------------------------------------------------------------------------
(* The files.                                                              *)

(* ListPending: requests without an ack; the files of those with one are   *)
(* removed on the way.                                                     *)
PendingAll == req   \* mutant
Pending == {i \in req : ack[i] = "none"}

WriteAck(i, status) ==
    /\ ack' = [ack EXCEPT ![i] = status]
    /\ acked' = acked \cup {i}

(* The producer in serve; with WaitForCompletion it goes on to wait. *)
Write(i) ==
    /\ i \notin written
    /\ written' = written \cup {i}
    /\ req' = req \cup {i}
    /\ waiter' = [w \in Waits |-> IF w = i THEN "waiting" ELSE waiter[w]]
    /\ UNCHANGED <<attempts, ack, engine, consumed, kills, history>>

-----------------------------------------------------------------------------
(* The drain loop (drainOnce): one pass lists the directory and routes the *)
(* requests, oldest first.                                                 *)

Oldest(S) == CHOOSE i \in S : \A j \in S : i <= j

DrainLists ==
    /\ drain = DrainIdle
    /\ drain' = [drain EXCEPT !.todo = Pending]
    /\ req' = Pending
    /\ UNCHANGED <<written, attempts, ack, worker, backoff, serve, kills, history>>

(* rebuildWorker.submit: one goroutine per group. *)
DrainSubmits ==
    LET i == Oldest(drain.todo) IN
    /\ drain.pc = "route" /\ drain.todo # {} /\ KeyOf[i] # Inline
    /\ drain' = [drain EXCEPT !.todo = @ \ {i}]
    /\ worker' = IF worker.pc = "idle" THEN [Idle EXCEPT !.pc = "list"] ELSE worker
    /\ UNCHANGED <<written, req, attempts, ack, backoff, serve, kills, history>>

(* ApplyAndAck: apply, write the ack, delete the request, delete the ack. *)
DrainApplies ==
    LET i == Oldest(drain.todo) IN
    /\ drain.pc = "route" /\ drain.todo # {} /\ KeyOf[i] = Inline
    /\ drain' = [pc |-> "ack", todo |-> drain.todo \ {i}, cur |-> i]
    /\ outcome' = [outcome EXCEPT ![i] = "succeeded"]
    /\ UNCHANGED <<written, req, attempts, ack, worker, backoff, serve, kills,
                   starts, acked, window>>

DrainAcks ==
    /\ drain.pc = "ack"
    /\ drain' = [drain EXCEPT !.pc = "delete"]
    /\ WriteAck(drain.cur, "ok")
    /\ UNCHANGED <<written, req, attempts, worker, backoff, serve, kills, outcome,
                   starts, window>>

DrainDeletes ==
    /\ drain.pc = "delete"
    /\ drain' = [drain EXCEPT !.pc = "gc"]
    /\ req' = req \ {drain.cur}
    /\ UNCHANGED <<written, attempts, ack, worker, backoff, serve, kills, history>>

DrainCollects ==
    /\ drain.pc = "gc"
    /\ drain' = [drain EXCEPT !.pc = "route", !.cur = None]
    /\ ack' = [ack EXCEPT ![drain.cur] = "none"]
    /\ UNCHANGED <<written, req, attempts, worker, backoff, serve, kills, history>>

-----------------------------------------------------------------------------
(* The rebuild goroutine (runGroup, applyBucket, ApplyAndAckBounded).      *)

workerFrame == <<written, drain, serve, kills>>

WorkerLists ==
    /\ worker.pc = "list"
    /\ worker' = [worker EXCEPT !.pc = "next",
                                !.todo = {i \in Pending : KeyOf[i] # Inline}]
    /\ req' = Pending
    /\ UNCHANGED <<workerFrame, attempts, ack, backoff, history>>

(* partitionRebuilds: the requests of one key are one bucket; the one that *)
(* was attempted most, then the newest, is applied for all of them.        *)
SurvivorNewest(B) == CHOOSE i \in B : \A j \in B : j <= i   \* mutant
Survivor(B) ==
    CHOOSE i \in B : \A j \in B : \/ attempts[i] > attempts[j]
                                  \/ attempts[i] = attempts[j] /\ j <= i

Bucket == {i \in worker.todo : KeyOf[i] = KeyOf[Oldest(worker.todo)]}

(* The crash-resume backoff gate. *)
GatedAfterTwo(i) == attempts[i] > 1 /\ backoff = "waiting"   \* mutant
Gated(i) == attempts[i] >= 1 /\ backoff = "waiting"

(* A bucket is done with, for this pass. *)
Passed(w) == [w EXCEPT !.pc = "next", !.cur = None, !.dups = {}]

Take(to, status) ==
    worker' = [pc |-> to, todo |-> worker.todo \ Bucket, cur |-> Survivor(Bucket),
               dups |-> Bucket \ {Survivor(Bucket)}, status |-> status]

WorkerEnds ==
    /\ worker.pc = "next" /\ worker.todo = {}
    /\ worker' = Idle
    /\ UNCHANGED <<workerFrame, req, attempts, ack, backoff, history>>

WorkerSkips ==
    /\ worker.pc = "next" /\ worker.todo # {} /\ Gated(Survivor(Bucket))
    /\ worker' = [worker EXCEPT !.todo = @ \ Bucket]
    /\ UNCHANGED <<workerFrame, req, attempts, ack, backoff, history>>

(* The work of the requests in S came to this; a worse end takes nothing   *)
(* back.                                                                   *)
Became(S, what) ==
    LET worse == CASE what = "dead"      -> {"none"}
                   [] what = "completed" -> {"none", "dead"}
                   [] what = "succeeded" -> {"none", "dead", "completed"}
    IN [i \in Id |-> IF i \in S /\ outcome[i] \in worse THEN what ELSE outcome[i]]

BudgetLeftOneMore(i) == attempts[i] <= MaxAttempts   \* mutant
BudgetLeft(i) == attempts[i] < MaxAttempts

(* The attempt budget is spent. *)
WorkerDeadLetters ==
    LET i == Survivor(Bucket) IN
    /\ worker.pc = "next" /\ worker.todo # {} /\ ~Gated(i)
    /\ ~BudgetLeft(i)
    /\ Take("ack", "dead")
    /\ outcome' = Became(Bucket, "dead")
    /\ UNCHANGED <<workerFrame, req, attempts, ack, backoff, starts, acked, window>>

(* The claim is on disk before the rebuild starts. *)
WorkerClaims ==
    LET i == Survivor(Bucket) IN
    /\ worker.pc = "next" /\ worker.todo # {} /\ ~Gated(i)
    /\ BudgetLeft(i)
    /\ Take("apply", "ok")
    /\ attempts' = [attempts EXCEPT ![i] = @ + 1]
    /\ req' = req \cup {i}
    /\ starts' = [starts EXCEPT ![KeyOf[i]] = @ + 1]
    /\ UNCHANGED <<workerFrame, ack, backoff, outcome, acked, window>>

RebuildReturns ==
    /\ worker.pc = "apply"
    /\ \/ /\ worker' = [worker EXCEPT !.pc = "ack", !.status = "ok"]
          /\ outcome' = Became({worker.cur} \cup worker.dups, "succeeded")
       \/ /\ worker' = [worker EXCEPT !.pc = "ack", !.status = "error"]
          /\ outcome' = Became({worker.cur} \cup worker.dups, "completed")
    /\ UNCHANGED <<workerFrame, req, attempts, ack, backoff, starts, acked, window>>

(* A panic leaves the bucket pending, behind the backoff. *)
AfterPanicAcksDups(w) == [w EXCEPT !.pc = "dupAck", !.status = "error"]   \* mutant
AfterPanic(w) == Passed(w)

RebuildPanics ==
    /\ worker.pc = "apply"
    /\ worker' = AfterPanic(worker)
    /\ backoff' = "waiting"
    /\ window' = window \cup {worker.cur}
    /\ UNCHANGED <<workerFrame, req, attempts, ack, outcome, starts, acked>>

WorkerAcks ==
    /\ worker.pc = "ack"
    /\ worker' = [worker EXCEPT !.pc = "delete"]
    /\ WriteAck(worker.cur, IF worker.status = "ok" THEN "ok" ELSE "error")
    /\ starts' = [starts EXCEPT ![KeyOf[worker.cur]] = 0]
    /\ UNCHANGED <<workerFrame, req, attempts, backoff, outcome, window>>

WorkerDeletes ==
    /\ worker.pc = "delete"
    /\ worker' = [worker EXCEPT !.pc = "gc"]
    /\ req' = req \ {worker.cur}
    /\ UNCHANGED <<workerFrame, attempts, ack, backoff, history>>

(* keepAck: the ack of a request somebody waits for stays. *)
CollectedAlways(i) == [ack EXCEPT ![i] = "none"]   \* mutant
Collected(i) == IF i \in Waits THEN ack ELSE [ack EXCEPT ![i] = "none"]

WorkerCollects ==
    /\ worker.pc = "gc"
    /\ worker' = [worker EXCEPT !.pc = "dupAck", !.cur = None]
    /\ ack' = Collected(worker.cur)
    /\ backoff' = "none" /\ window' = {}
    /\ UNCHANGED <<workerFrame, req, attempts, outcome, starts, acked>>

(* ackCoalesced gets an error for a dead letter, but for a rebuild that    *)
(* returned an error the switch passes applyErr, which is nil.             *)
DupStatus == IF worker.status = "dead" THEN "error" ELSE "ok"

DupAcks ==
    /\ worker.pc = "dupAck"
    /\ IF worker.dups = {}
       THEN worker' = Passed(worker) /\ UNCHANGED <<ack, acked>>
       ELSE /\ worker' = [worker EXCEPT !.pc = "dupDelete", !.cur = Oldest(worker.dups),
                                        !.dups = @ \ {Oldest(worker.dups)}]
            /\ WriteAck(Oldest(worker.dups), DupStatus)
    /\ UNCHANGED <<workerFrame, req, attempts, backoff, outcome, starts, window>>

DupDeletes ==
    /\ worker.pc = "dupDelete"
    /\ worker' = [worker EXCEPT !.pc = "dupGc"]
    /\ req' = req \ {worker.cur}
    /\ UNCHANGED <<workerFrame, attempts, ack, backoff, history>>

DupCollects ==
    /\ worker.pc = "dupGc"
    /\ worker' = [worker EXCEPT !.pc = "dupAck", !.cur = None]
    /\ ack' = Collected(worker.cur)
    /\ UNCHANGED <<workerFrame, req, attempts, backoff, history>>

BackoffElapses ==
    /\ backoff = "waiting"
    /\ backoff' = "over" /\ window' = {}
    /\ UNCHANGED <<written, req, attempts, ack, drain, worker, serve, kills,
                   outcome, starts, acked>>

(* The engine is killed and a new one starts: only files survive. *)
Kill ==
    /\ kills < MaxKills
    /\ kills' = kills + 1
    /\ drain' = DrainIdle /\ worker' = Idle /\ backoff' = "none" /\ window' = {}
    /\ UNCHANGED <<written, req, attempts, ack, serve, outcome, starts, acked>>

-----------------------------------------------------------------------------
(* Serve.                                                                  *)

(* RebuildRequestPending lists the directory, and cleans it as it does. *)
ServePolls ==
    /\ req # Pending
    /\ req' = Pending
    /\ UNCHANGED <<written, attempts, ack, engine, serve, kills, history>>

(* awaitRebuildAck. *)
WaiterReads(i) ==
    /\ waiter[i] = "waiting" /\ ack[i] # "none"
    /\ waiter' = [waiter EXCEPT ![i] = ack[i]]
    /\ UNCHANGED <<written, req, attempts, ack, engine, consumed, kills, history>>

(* Engine death or the timeout: the heartbeat is not tied to the work. *)
WaiterGivesUp(i) ==
    /\ waiter[i] = "waiting"
    /\ waiter' = [waiter EXCEPT ![i] = "gaveup"]
    /\ UNCHANGED <<written, req, attempts, ack, engine, consumed, kills, history>>

(* awaitRebuildCompletion's deferred DeleteAck. *)
WaiterConsumes(i) ==
    /\ waiter[i] \in {"ok", "error", "gaveup"} /\ i \notin consumed
    /\ consumed' = consumed \cup {i}
    /\ ack' = [ack EXCEPT ![i] = "none"]
    /\ UNCHANGED <<written, req, attempts, engine, waiter, kills, history>>

-----------------------------------------------------------------------------

DrainStep == DrainLists \/ DrainSubmits \/ DrainApplies \/ DrainAcks
                \/ DrainDeletes \/ DrainCollects
Rebuild == RebuildReturns \/ RebuildPanics
WorkerStep ==
    \/ WorkerLists \/ WorkerEnds \/ WorkerSkips \/ WorkerDeadLetters \/ WorkerClaims
    \/ Rebuild \/ WorkerAcks \/ WorkerDeletes \/ WorkerCollects
    \/ DupAcks \/ DupDeletes \/ DupCollects

Next ==
    \/ \E i \in Id : Write(i)
    \/ DrainStep \/ WorkerStep \/ BackoffElapses \/ Kill \/ ServePolls
    \/ \E i \in Waits : WaiterReads(i) \/ WaiterGivesUp(i) \/ WaiterConsumes(i)

Spec == Init /\ [][Next]_vars

(* The loops of the engine run, a rebuild returns or panics, the backoff   *)
(* elapses and a waiter keeps polling.  Nothing makes a waiter give up.    *)
FairSpec ==
    /\ Spec
    /\ WF_vars(DrainStep) /\ WF_vars(WorkerStep) /\ WF_vars(BackoffElapses)
    /\ \A i \in Waits : WF_vars(WaiterReads(i)) /\ WF_vars(WaiterConsumes(i))

-----------------------------------------------------------------------------
(* Properties.                                                             *)

(* "false: the engine has drained+acked it": a request that is not pending *)
(* any more was applied to the end or given up for good, wherever the      *)
(* engine was killed, for duplicates as for the request applied for them.  *)
NotPendingMeansTerminal ==
    \A i \in written \ Pending : outcome[i] # "none"

(* A rebuild that keeps dying is started MaxAttempts times and then given  *)
(* up, over any number of restarts, and new requests for the same work do  *)
(* not renew its budget.                                                   *)
CrashLoopBounded == \A k \in Key : starts[k] <= MaxAttempts

(* Starting the application of request i. *)
Starts(i) ==
    \/ worker.pc = "next" /\ worker'.pc = "apply" /\ worker'.cur = i
    \/ drain.pc = "route" /\ drain'.pc = "ack" /\ drain'.cur = i

(* "A crash between ack written and request deleted cannot cause a         *)
(* double-apply on redrain."                                               *)
AckedNeverReapplied == [][\A i \in Id : Starts(i) => i \notin acked]_vars

(* A rebuild that panicked is not applied again "on every 2s tick", for    *)
(* itself or for a newer request of its key: only after its backoff, or    *)
(* after a bucket of the group was settled, which clears the backoff.      *)
BackoffHolds ==
    [][\A i \in Id : Starts(i) => \A j \in window : KeyOf[j] # KeyOf[i]]_vars

(* Whoever is told that its rebuild is done has had a rebuild of its own   *)
(* key started after its request and run to the end.                       *)
OkMeansCompleted ==
    \A i \in Waits : waiter[i] = "ok" => outcome[i] \in {"completed", "succeeded"}

(* "... learns the SAME real outcome as one behind the survivor, never a   *)
(* false success."                                                         *)
OkMeansSucceeded == \A i \in Waits : waiter[i] = "ok" => outcome[i] = "succeeded"

(* Every request is taken off the queue in the end, and who waits hears,   *)
(* although the engine is killed and the request is coalesced, retried or  *)
(* given up.                                                               *)
RequestsSettle ==
    /\ \A i \in Id : i \in req ~> i \notin req
    /\ \A i \in Waits : waiter[i] = "waiting" ~> waiter[i] # "waiting"
=============================================================================
