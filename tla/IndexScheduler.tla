--------------------------- MODULE IndexScheduler ---------------------------
(***************************************************************************)
(* internal/daemon/sched, the index side of the scheduler: the enqueue     *)
(* channel, dedupLoop, the admission queue with its memory budget, the     *)
(* dead-man switch, the jobs channel, and the workers' runIndex with its   *)
(* circuit breaker, its yield to foreground rebuilds and its coalesced     *)
(* follow-up.  Every action is one critical section of Scheduler.mu, or    *)
(* one channel or timer operation made outside it.                         *)
(*                                                                         *)
(* A request's ref and commit, captured together at enqueue, are one       *)
(* revision here; NoRev stands for the empty strings.  Two neighbours are  *)
(* modelled by what the index side sees of them: the heavy-stage gate      *)
(* (stage) and the repo claim shared with foreground rebuilds (want and    *)
(* claim: what RepoClaim promises of it).                                  *)
(***************************************************************************)
EXTENDS Integers, Sequences, FiniteSetsExt

CONSTANTS
    Repo,         \* repo paths
    Rev,          \* revisions a capture can observe
    NoRev,        \* "no revision captured"
    Worker,       \* worker goroutines (Config.Workers)
    NoTok,        \* an empty hand
    Size,         \* predicted peaks, in MB
    BudgetMB,     \* Config.BudgetMB; 0 admits everything
    EnqCap,       \* capacity of the enqueue channel (64 in the code)
    MaxTriggers,  \* bound: enqueues from outside the scheduler
    MaxStages,    \* bound: heavy stages that contend for the gate
    MaxRebuilds   \* bound: foreground rebuilds

ASSUME SizeAssumption   == Size # {} /\ Size \subseteq Nat \ {0}
ASSUME BudgetAssumption == BudgetMB \in Nat
ASSUME CapAssumption    == EnqCap \in Nat \ {0}
ASSUME RevAssumption    == NoRev \notin Rev
ASSUME BoundAssumption  == {MaxTriggers, MaxStages, MaxRebuilds} \subseteq Nat
ASSUME WorkerAssumption == IsFiniteSet(Worker)

Revision == Rev \cup {NoRev}
Request  == [repo : Repo, rev : Revision]
Token    == [repo : Repo, rev : Revision, mb : Size]

ASSUME TokAssumption == NoTok \notin Token \cup Request

VARIABLES
    enq,           \* the enqueue channel
    pendingQ,      \* admission queue, head first
    pendingIndex,  \* repos queued, or admitted and not yet started
    pendingRev,    \* pendingRefs and pendingCommits
    dirty,         \* repos triggered while in flight
    queueLen,      \* the published queue length
    inflight,      \* admitted repos and their predicted MB; 0 when absent
    usedMB,        \* admission ledger
    deadMan,       \* the dead-man clock: "off", "running", "expired"
    sending,       \* the token tryAdmit is sending to jobs
    forced,        \* tokens of the dead-man's send goroutines
    jobs,          \* the jobs channel
    job,           \* what each worker is doing
    retry,         \* armed yield-retry timers, counted per request
    stats,         \* per repo: breaker and last revision indexed
    predict,       \* History.Predict
    stage,         \* the heavy-stage gate: "held", "drain", both or neither
    want, claim,   \* the repo claim: foreground intent, and who holds it
    budget         \* what is left of the three bounds

queueVars == <<pendingQ, pendingIndex, pendingRev, dirty, queueLen>>
admitVars == <<inflight, usedMB, deadMan, sending, forced, jobs>>
envVars   == <<stage, want, claim>>
vars == <<enq, queueVars, admitVars, job, retry, stats, predict, envVars,
          budget>>

Idle == [phase |-> "idle", tok |-> NoTok, send |-> NoTok]
Phase == {"idle", "claiming", "running", "skipped", "yielded", "ok", "failed",
          "settling", "settlingOk"}

TypeOK ==
    /\ enq \in Seq(Request) /\ Len(enq) <= EnqCap
    /\ pendingQ \in Seq(Repo)
    /\ pendingIndex \subseteq Repo
    /\ pendingRev \in [Repo -> Revision]
    /\ dirty \subseteq Repo
    /\ queueLen \in Nat
    /\ inflight \in [Repo -> Size \cup {0}]
    /\ usedMB \in Nat
    /\ deadMan \in {"off", "running", "expired"}
    /\ sending \in Token \cup {NoTok}
    /\ forced \subseteq Token
    /\ jobs \in Seq(Token) /\ Len(jobs) <= Cardinality(Worker)
    /\ job \in [Worker -> [phase : Phase, tok : Token \cup {NoTok},
                           send : Request \cup {NoTok}]]
    /\ retry \in [Request -> Nat]
    /\ stats \in [Repo -> [failRev : Revision, backoff : BOOLEAN,
                           lastRev : Revision]]
    /\ predict \in [Repo -> Size]
    /\ stage \subseteq {"held", "drain"}
    /\ want \in [Repo -> BOOLEAN]
    /\ claim \in [Repo -> {"free", "foreground", "background"}]
    /\ budget \in [{"triggers", "stages", "rebuilds"} -> Nat]

Init ==
    /\ enq = <<>> /\ pendingQ = <<>> /\ jobs = <<>>
    /\ pendingIndex = {} /\ dirty = {} /\ forced = {}
    /\ pendingRev = [r \in Repo |-> NoRev]
    /\ queueLen = 0 /\ usedMB = 0
    /\ inflight = [r \in Repo |-> 0]
    /\ deadMan = "off" /\ sending = NoTok
    /\ job = [w \in Worker |-> Idle]
    /\ retry = [q \in Request |-> 0]
    /\ stats = [r \in Repo |->
                  [failRev |-> NoRev, backoff |-> FALSE, lastRev |-> NoRev]]
    /\ predict \in [Repo -> Size]
    /\ stage = {}
    /\ want = [r \in Repo |-> FALSE] /\ claim = [r \in Repo |-> "free"]
    /\ budget = [triggers |-> MaxTriggers, stages |-> MaxStages,
                 rebuilds |-> MaxRebuilds]

InFlight == {r \in Repo : inflight[r] > 0}

-----------------------------------------------------------------------------
(* Triggers and dedupLoop.                                                 *)

(* EnqueueRefCommit's blocking send. *)
Send(q) ==
    /\ Len(enq) < EnqCap
    /\ enq' = Append(enq, q)

(* A watcher, a poller, an RPC or a drained request enqueues a repo.       *)
Enqueue(q) ==
    /\ budget.triggers > 0
    /\ budget' = [budget EXCEPT !.triggers = @ - 1]
    /\ Send(q)
    /\ UNCHANGED <<queueVars, admitVars, job, retry, stats, predict, envVars>>

(* A captured revision replaces the stored one, an empty one does not. *)
Newest(old, rev) == IF rev = NoRev THEN old ELSE rev

Receive(q) ==
    /\ enq # <<>>
    /\ q = Head(enq)
    /\ enq' = Tail(enq)
    /\ UNCHANGED <<usedMB, sending, forced, jobs, inflight, job, retry, stats,
                   predict, envVars, budget>>

(* The repo is in flight: one follow-up will run. *)
DedupInFlight(q) ==
    /\ Receive(q)
    /\ q.repo \in InFlight
    /\ dirty' = dirty \cup {q.repo}
    /\ pendingRev' = [pendingRev EXCEPT ![q.repo] = Newest(@, q.rev)]
    /\ UNCHANGED <<pendingQ, pendingIndex, queueLen, deadMan>>

(* The repo is queued: the batch that will run takes the newest revision. *)
DedupQueued(q) ==
    /\ Receive(q)
    /\ q.repo \in pendingIndex \ InFlight
    /\ pendingRev' = [pendingRev EXCEPT ![q.repo] = Newest(@, q.rev)]
    /\ UNCHANGED <<pendingQ, pendingIndex, queueLen, dirty, deadMan>>

(* Neither queued nor in flight.  The mutant forgets one of the two. *)
IsNewUnlessQueued(r) == r \notin pendingIndex
IsNew(r) == r \notin pendingIndex \cup InFlight

DedupNew(q) ==
    /\ Receive(q)
    /\ IsNew(q.repo)
    /\ pendingIndex' = pendingIndex \cup {q.repo}
    /\ pendingRev' = [pendingRev EXCEPT ![q.repo] = q.rev]
    /\ pendingQ' = Append(pendingQ, q.repo)
    /\ queueLen' = queueLen + 1
    /\ deadMan' = IF InFlight = {} /\ deadMan = "off" THEN "running" ELSE deadMan
    /\ UNCHANGED dirty

Dedup == \E q \in Request : DedupInFlight(q) \/ DedupQueued(q) \/ DedupNew(q)

-----------------------------------------------------------------------------
(* Admission.                                                              *)

(* A job fits the budget, or is larger than the whole budget and alone.    *)
(* Mutants: an oversize job need not be alone; it never fits.              *)
MayAdmitFitting(mb) == BudgetMB = 0 \/ usedMB + mb <= BudgetMB
MayAdmit(mb) ==
    \/ BudgetMB = 0
    \/ usedMB + mb <= BudgetMB
    \/ InFlight = {} /\ mb > BudgetMB

(* Common to both admissions of repo r out of position i of the queue. *)
TokenOf(r) == [repo |-> r, rev |-> pendingRev[r], mb |-> predict[r]]

TakeFromQueue(i) ==
    LET r == pendingQ[i] IN
    /\ pendingQ' = SubSeq(pendingQ, 1, i - 1) \o
                   SubSeq(pendingQ, i + 1, Len(pendingQ))
    /\ pendingRev' = [pendingRev EXCEPT ![r] = NoRev]
    /\ inflight' = [inflight EXCEPT ![r] = predict[r]]
    /\ usedMB' = usedMB + predict[r]
    /\ deadMan' = "off"
    /\ UNCHANGED <<enq, pendingIndex, dirty, queueLen, jobs, job, retry, stats,
                   predict, envVars, budget>>

(* One turn of tryAdmit's loop: only the head is considered, and the loop  *)
(* is held while a heavy stage holds the gate or drains the index side.    *)
Admit ==
    /\ sending = NoTok
    /\ pendingQ # <<>>
    /\ stage = {}
    /\ MayAdmit(predict[Head(pendingQ)])
    /\ sending' = TokenOf(Head(pendingQ))
    /\ TakeFromQueue(1)
    /\ UNCHANGED forced

Deliver(t) ==
    /\ Len(jobs) < Cardinality(Worker)
    /\ jobs' = Append(jobs, t)
    /\ UNCHANGED <<enq, queueVars, inflight, usedMB, deadMan, job, retry, stats,
                   predict, envVars, budget>>

DeliverAdmitted ==
    /\ sending # NoTok
    /\ Deliver(sending)
    /\ sending' = NoTok
    /\ UNCHANGED forced

DeliverForced(t) ==
    /\ t \in forced
    /\ Deliver(t)
    /\ forced' = forced \ {t}
    /\ UNCHANGED sending

(* checkDeadMan: something is queued and nothing at all is happening; the  *)
(* mutant does not count a heavy stage as something happening.             *)
StuckBesideStage == pendingQ # <<>> /\ InFlight = {}
Stuck == pendingQ # <<>> /\ InFlight = {} /\ stage = {}

ResetDeadMan ==
    /\ \/ ~Stuck /\ deadMan' = "off"
       \/ Stuck /\ deadMan = "off" /\ deadMan' = "running"
    /\ UNCHANGED <<enq, queueVars, inflight, usedMB, sending, forced, jobs, job,
                   retry, stats, predict, envVars, budget>>

DeadManExpires ==
    /\ deadMan = "running"
    /\ deadMan' = "expired"
    /\ UNCHANGED <<enq, queueVars, inflight, usedMB, sending, forced, jobs, job,
                   retry, stats, predict, envVars, budget>>

(* The first of the smallest jobs is admitted whatever the budget says. *)
SmallestAt(i) ==
    /\ i \in 1..Len(pendingQ)
    /\ \A k \in 1..Len(pendingQ) :
         /\ predict[pendingQ[i]] <= predict[pendingQ[k]]
         /\ k < i => predict[pendingQ[i]] < predict[pendingQ[k]]

ForceAdmit ==
    /\ Stuck
    /\ deadMan = "expired"
    /\ \E i \in DOMAIN pendingQ :
         /\ SmallestAt(i)
         /\ forced' = forced \cup {TokenOf(pendingQ[i])}
         /\ TakeFromQueue(i)
    /\ UNCHANGED sending

-----------------------------------------------------------------------------
(* Workers: runIndex.                                                      *)

(* A worker takes a token and, in its first critical section, clears the   *)
(* pending and dirty marks: what triggered before this point is covered by *)
(* the index about to run.  The circuit is open when this revision failed  *)
(* last and its backoff has not run out.                                   *)
CircuitOpen(t) == stats[t.repo].backoff /\ stats[t.repo].failRev = t.rev

StartJob(w) ==
    /\ job[w].phase = "idle"
    /\ jobs # <<>>
    /\ LET t == Head(jobs) IN
       /\ pendingIndex' = pendingIndex \ {t.repo}
       /\ queueLen' = queueLen - 1
       /\ dirty' = dirty \ {t.repo}
       /\ job' = [job EXCEPT ![w] =
                    [phase |-> IF CircuitOpen(t) THEN "skipped" ELSE "claiming",
                     tok |-> t, send |-> NoTok]]
    /\ jobs' = Tail(jobs)
    /\ UNCHANGED <<enq, pendingQ, pendingRev, inflight, usedMB, deadMan, sending,
                   forced, retry, stats, predict, envVars, budget>>

(* TryClaimBackground: the foreground rebuild wins. *)
ClaimRepo(w) ==
    /\ job[w].phase = "claiming"
    /\ LET r == job[w].tok.repo
           free == claim[r] = "free" /\ ~want[r]
       IN /\ claim' = IF free THEN [claim EXCEPT ![r] = "background"] ELSE claim
          /\ job' = [job EXCEPT ![w].phase = IF free THEN "running" ELSE "yielded"]
    /\ UNCHANGED <<enq, queueVars, admitVars, retry, stats, predict, stage, want, budget>>

(* The index returns, fails, is cancelled or panics (recovered), and the   *)
(* claim is given back before the bookkeeping.                             *)
IndexReturns(w) ==
    /\ job[w].phase = "running"
    /\ \E result \in {"ok", "failed"} : job' = [job EXCEPT ![w].phase = result]
    /\ claim' = [claim EXCEPT ![job[w].tok.repo] = "free"]
    /\ UNCHANGED <<enq, queueVars, admitVars, retry, stats, predict, stage, want, budget>>

(* What the second critical section records: the breaker opens for the     *)
(* failed revision, closes on success, and is left alone by a skip or a    *)
(* yield.                                                                  *)
StatsAfter(phase, t) ==
    LET old == stats[t.repo] IN
    CASE phase = "ok"     -> [failRev |-> NoRev, backoff |-> FALSE, lastRev |-> t.rev]
      [] phase = "failed" -> [failRev |-> t.rev, backoff |-> TRUE,  lastRev |-> t.rev]
      [] OTHER            -> old

(* The revision of whatever runs next for the token's repo. *)
FollowUp(t) == [repo |-> t.repo, rev |-> Newest(t.rev, pendingRev[t.repo])]

(* What is left of the ledger once a token is retired.  Mutants: the       *)
(* prediction of now is given back instead of the token's, with and        *)
(* without the floor.                                                      *)
LedgerWithoutNowNoFloor(t) == usedMB - predict[t.repo]
LedgerWithout(t) == Max({usedMB - t.mb, 0})

(* A follow-up is owed for what came in while the job was in flight; a     *)
(* yielded job is retried anyway.  Mutant: a failed job owes nothing.      *)
OwedOnSuccess(phase, r) == phase = "ok" /\ r \in dirty
Owed(phase, r) == phase # "yielded" /\ r \in dirty

(* The second critical section: the repo leaves the ledger, its dirty mark *)
(* becomes one follow-up, and a yielded job arms its retry timer instead.  *)
Retire(w) ==
    /\ job[w].phase \in {"skipped", "yielded", "ok", "failed"}
    /\ LET phase == job[w].phase
           t     == job[w].tok
       IN /\ stats' = [stats EXCEPT ![t.repo] = StatsAfter(phase, t)]
          /\ inflight' = [inflight EXCEPT ![t.repo] = 0]
          /\ usedMB' = LedgerWithout(t)
          /\ dirty' = dirty \ {t.repo}
          /\ retry' = IF phase = "yielded"
                      THEN [retry EXCEPT ![FollowUp(t)] = @ + 1] ELSE retry
          /\ job' = [job EXCEPT ![w] =
                 [phase |-> IF phase = "ok" THEN "settlingOk" ELSE "settling",
                  tok   |-> t,
                  send  |-> IF Owed(phase, t.repo)
                            THEN FollowUp(t) ELSE NoTok]]
    /\ UNCHANGED <<enq, pendingQ, pendingIndex, pendingRev, queueLen, deadMan,
                   sending, forced, jobs, predict, envVars, budget>>

(* After the lock: the follow-up is sent through the enqueue channel like  *)
(* any trigger, and a success records the peak it measured.                *)
Settle(w) ==
    /\ job[w].phase \in {"settling", "settlingOk"}
    /\ IF job[w].send = NoTok THEN UNCHANGED enq ELSE Send(job[w].send)
    /\ IF job[w].phase = "settlingOk"
       THEN \E mb \in Size : predict' = [predict EXCEPT ![job[w].tok.repo] = mb]
       ELSE UNCHANGED predict
    /\ job' = [job EXCEPT ![w] = Idle]
    /\ UNCHANGED <<queueVars, admitVars, retry, stats, envVars, budget>>

RetryFires(q) ==
    /\ retry[q] > 0
    /\ retry' = [retry EXCEPT ![q] = @ - 1]
    /\ Send(q)
    /\ UNCHANGED <<queueVars, admitVars, job, stats, predict, envVars,
                   budget>>

BackoffExpires(r) ==
    /\ stats[r].backoff
    /\ stats' = [stats EXCEPT ![r].backoff = FALSE]
    /\ UNCHANGED <<enq, queueVars, admitVars, job, retry, predict, envVars,
                   budget>>

(* The synchronous index RPC reports an index it ran itself. *)
MarkIndexed(r) ==
    /\ stats' = [stats EXCEPT ![r].failRev = NoRev, ![r].backoff = FALSE]
    /\ UNCHANGED <<enq, queueVars, admitVars, job, retry, predict, envVars,
                   budget>>

-----------------------------------------------------------------------------
(* The neighbours.                                                         *)

StageChanges(spends) ==
    /\ budget.stages >= spends
    /\ budget' = [budget EXCEPT !.stages = @ - spends]
    /\ UNCHANGED <<enq, queueVars, admitVars, job, retry, stats, predict, want,
                   claim>>

(* tryAcquireStageLocked: only when no index is in flight.  A barrier the  *)
(* acquiring stage raised is cleared; another stage's barrier bars it.     *)
StageAcquires ==
    /\ "held" \notin stage
    /\ InFlight = {}
    /\ stage' = {"held"}
    /\ StageChanges(1)

StageDrains ==
    /\ "drain" \notin stage
    /\ stage' = stage \cup {"drain"}
    /\ StageChanges(1)

StageReleases == \E x \in stage : stage' = stage \ {x} /\ StageChanges(0)

RebuildWants(r) ==
    /\ budget.rebuilds > 0 /\ ~want[r]
    /\ budget' = [budget EXCEPT !.rebuilds = @ - 1]
    /\ want' = [want EXCEPT ![r] = TRUE]
    /\ UNCHANGED <<enq, queueVars, admitVars, job, retry, stats, predict, stage,
                   claim>>

RebuildClaims(r) ==
    /\ want[r] /\ claim[r] = "free"
    /\ claim' = [claim EXCEPT ![r] = "foreground"]
    /\ UNCHANGED <<enq, queueVars, admitVars, job, retry, stats, predict, stage,
                   want, budget>>

RebuildReleases(r) ==
    /\ claim[r] = "foreground"
    /\ claim' = [claim EXCEPT ![r] = "free"]
    /\ want'  = [want EXCEPT ![r] = FALSE]
    /\ UNCHANGED <<enq, queueVars, admitVars, job, retry, stats, predict, stage, budget>>

-----------------------------------------------------------------------------

WorkerStep(w) == StartJob(w) \/ ClaimRepo(w) \/ IndexReturns(w) \/ Retire(w)
                    \/ Settle(w)
Neighbour == \/ StageAcquires \/ StageDrains \/ StageReleases
             \/ \E r \in Repo : RebuildWants(r) \/ RebuildClaims(r)
                                   \/ RebuildReleases(r)

Next ==
    \/ \E q \in Request : Enqueue(q) \/ RetryFires(q)
    \/ Dedup
    \/ Admit \/ DeliverAdmitted \/ ResetDeadMan \/ DeadManExpires \/ ForceAdmit
    \/ \E t \in forced : DeliverForced(t)
    \/ \E w \in Worker : WorkerStep(w)
    \/ \E r \in Repo : BackoffExpires(r) \/ MarkIndexed(r)
    \/ Neighbour

Spec == Init /\ [][Next]_vars

(* The loops run, timers fire, an index ends, a stage and a rebuild that   *)
(* hold something give it back.  Nobody has to enqueue, contend, rebuild,  *)
(* fail or succeed.                                                        *)
Fairness ==
    /\ WF_vars(Dedup)
    /\ WF_vars(Admit) /\ WF_vars(DeliverAdmitted)
    /\ WF_vars(\E t \in forced : DeliverForced(t))
    /\ \A w \in Worker : WF_vars(WorkerStep(w))
    /\ \A q \in Request : WF_vars(RetryFires(q))
    /\ WF_vars(StageReleases)
    /\ \A r \in Repo : /\ WF_vars(RebuildClaims(r)) /\ WF_vars(RebuildReleases(r))
                       /\ WF_vars(BackoffExpires(r))

FairSpec == Spec /\ Fairness

-----------------------------------------------------------------------------
(* Properties.                                                             *)

Waiting(r) == \E i \in DOMAIN pendingQ : pendingQ[i] = r
InHand(w)  == job[w].phase \in Phase \ {"idle", "settling", "settlingOk"}

(* Every place a repo's token can be. *)
Holders(r) ==
    {<<"jobs", i>> : i \in {i \in DOMAIN jobs : jobs[i].repo = r}} \cup
    {<<"forced", t>> : t \in {t \in forced : t.repo = r}} \cup
    {<<"sending", t>> : t \in {t \in {sending} \ {NoTok} : t.repo = r}} \cup
    {<<"worker", w>> : w \in {w \in Worker : InHand(w) /\ job[w].tok.repo = r}}

(* A repo is queued at most once, never while in flight, and in flight     *)
(* exactly when one token for it is on its way through the channels to the *)
(* end of runIndex's bookkeeping: no two workers ever index one repo.      *)
OneTokenPerRepo ==
    \A r \in Repo :
        /\ Cardinality({i \in DOMAIN pendingQ : pendingQ[i] = r}) <= 1
        /\ Waiting(r) => r \in pendingIndex \ InFlight
        /\ Cardinality(Holders(r)) = (IF r \in InFlight THEN 1 ELSE 0)

(* The published queue length counts the repos that are pending, and every *)
(* one of those is really in the queue or on its way to a worker.          *)
QueueLenExact ==
    /\ queueLen = Cardinality(pendingIndex)
    /\ \A r \in pendingIndex : Waiting(r) \/ r \in InFlight

(* The admission ledger is the sum of what is in flight although the       *)
(* prediction may change between a job's admission and its end.            *)
LedgerExact == usedMB = MapThenSumSet(LAMBDA r : inflight[r], InFlight)

(* The budget is exceeded only by a job that runs alone: one larger than   *)
(* the whole budget, or one the dead-man forced.                           *)
BudgetRespected ==
    BudgetMB = 0 \/ usedMB <= BudgetMB \/ Cardinality(InFlight) = 1

(* No index is in flight while a heavy write stage holds the gate, the     *)
(* dead-man's forced admission included.                                   *)
NoIndexBesideStage == "held" \in stage => InFlight = {}

(* What admission keeps while jobs come and go. *)
AdmissionExact == QueueLenExact /\ LedgerExact /\ BudgetRespected /\ NoIndexBesideStage

(* The repos a worker is indexing, under the background claim. *)
Running == {job[w].tok.repo : w \in {w \in Worker : job[w].phase = "running"}}

(* Where a trigger may be waiting. *)
Due ==
    {enq[i].repo : i \in DOMAIN enq} \cup {pendingQ[i] : i \in DOMAIN pendingQ}
    \cup {jobs[i].repo : i \in DOMAIN jobs} \cup {t.repo : t \in forced}
    \cup {t.repo : t \in {sending} \ {NoTok}} \cup dirty
    \cup {q.repo : q \in {x \in Request : retry[x] > 0}}
    \cup {job[w].tok.repo : w \in
             {v \in Worker : job[v].phase \in {"claiming", "yielded"}}}
    \cup {job[w].send.repo : w \in {v \in Worker : job[v].send # NoTok}}

Promise == INSTANCE IndexPromise WITH
    due <- Due, running <- Running, open <- {r \in Repo : stats[r].backoff}

(* No trigger is lost on any path through the queues, the failure and the  *)
(* yield included: the scheduler implements IndexPromise.                  *)
KeepsPromise == Promise!Spec

(* A triggered repo is indexed after all: heavy stages, foreground         *)
(* rebuilds, a full budget and a full channel only delay it, and only an   *)
(* open circuit takes it away.                                             *)
TriggersRun ==
    \A r \in Repo : r \in Due ~> r \in Running \/ stats[r].backoff
=============================================================================
