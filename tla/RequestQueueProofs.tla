-------------------------- MODULE RequestQueueProofs --------------------------
(***************************************************************************)
(* For every set of requests, keys, waits and kills: a request that is not *)
(* pending came to an end, the attempt budget of a key bounds its starts   *)
(* over restarts, an ok means a completed rebuild, a panicked key waits    *)
(* for its backoff, and what nobody waits for is never applied again once  *)
(* it was acknowledged.  The invariant says what the drain loop and the    *)
(* rebuild goroutine hold in memory of the files, and where the attempts   *)
(* that a key has used up are recorded.                                    *)
(***************************************************************************)
EXTENDS RequestQueue, TLAPS, NaturalsInduction, WellFoundedInduction

Ran == {"completed", "succeeded"}

(* Only finitely many requests were written, so a bucket has a survivor. *)
WrittenBounded == \E n \in Nat : \A i \in written : i <= n

(* What the goroutine took off its list. *)
Taken == ({worker.cur} \cup worker.dups) \ {None}

Settled == worker.pc \in {"delete", "gc", "dupAck", "dupDelete", "dupGc"}

(* What the drain loop applied had its effect, and it still has to apply   *)
(* only what is pending.                                                   *)
DrainInv ==
    /\ drain.todo \subseteq written
    /\ \A i \in drain.todo : KeyOf[i] = Inline => i \in Pending
    /\ drain.pc # "route" =>
         /\ drain.cur \in written \ drain.todo
         /\ KeyOf[drain.cur] = Inline /\ outcome[drain.cur] = "succeeded"
    /\ drain.pc = "gc" => drain.cur \notin req

(* What the goroutine listed is pending; what it took is of one key, and   *)
(* of none it still has to look at.                                        *)
WorkerInv ==
    /\ worker.todo \subseteq Pending /\ \A i \in worker.todo : KeyOf[i] # Inline
    /\ worker.pc \in {"idle", "list", "next"} => Taken = {}
    /\ worker.pc \in {"apply", "ack", "delete", "gc", "dupDelete", "dupGc"} =>
         worker.cur # None
    /\ worker.cur \notin worker.dups
    /\ Taken \subseteq written
    /\ \A i, j \in Taken : KeyOf[i] = KeyOf[j] /\ KeyOf[i] # Inline
    /\ \A i \in Taken, j \in worker.todo : KeyOf[i] # KeyOf[j]
    /\ worker.pc \in {"apply", "ack"} => worker.cur \in Pending
    /\ worker.pc = "apply" => attempts[worker.cur] >= 1
    /\ worker.pc \in {"gc", "dupGc"} => worker.cur \notin req

(* The ends of requests, and what they are told. *)
EndKnown ==
    worker.pc = "ack" \/ Settled =>
      \A i \in Taken : outcome[i] # "none" /\ (worker.status # "dead" => outcome[i] \in Ran)
OutcomeInv ==
    /\ \A i \in written : outcome[i] = "none" => i \in Pending
    /\ \A i \in Id : /\ ack[i] # "none" => i \in acked
                     /\ ack[i] = "ok" => outcome[i] \in Ran
    /\ EndKnown
    /\ OkMeansCompleted

(* The starts of a key are recorded in a request of the key that is        *)
(* pending, and that the goroutine has on its list when it has any of the  *)
(* key.                                                                    *)
Recorded(S, k) == \E i \in S : KeyOf[i] = k /\ attempts[i] >= starts[k]
BudgetInv ==
    /\ \A k \in Key : starts[k] > 0 => Recorded(Pending, k)
    /\ \A j \in worker.todo :
         starts[KeyOf[j]] > 0 => Recorded(worker.todo, KeyOf[j])
    /\ Settled => \A i \in Taken : starts[KeyOf[i]] = 0

(* A panicked request is pending until its bucket is settled, and a list   *)
(* that has its key has the request.                                       *)
BackoffInv ==
    /\ window # {} => backoff = "waiting" /\ worker.pc \notin {"dupAck", "dupDelete", "dupGc"}
    /\ \A j \in window :
         /\ j \in written /\ KeyOf[j] # Inline /\ attempts[j] >= 1
         /\ j \in Pending \/ (worker.pc \in {"delete", "gc"} /\ j = worker.cur)
         /\ j \in worker.todo \/ \A i \in worker.todo : KeyOf[i] # KeyOf[j]

(* An ack is a request's last: nothing makes it pending again, unless a    *)
(* waiter takes the ack away.                                              *)
AckedInv == (acked \ Waits) \cap Pending = {}

QTypes == TypeOK /\ WrittenBounded
QInv == /\ QTypes /\ DrainInv /\ WorkerInv /\ OutcomeInv
        /\ BudgetInv /\ BackoffInv /\ AckedInv

-----------------------------------------------------------------------------
(* The least of a set of naturals is in it. *)
LEMMA MinExists ==
    ASSUME NEW S, S \subseteq Nat, S # {}
    PROVE  \E x \in S : \A y \in S : x <= y
<1>1. PICK x \in S : \A y \in S : ~ (<<y, x>> \in OpToRel(<, Nat))
  BY WFMin, NatLessThanWellFounded
<1>2. \A y \in S : ~ (y < x)
  BY <1>1 DEF OpToRel
<1> QED BY <1>2

(* The oldest request of a set is one of it. *)
LEMMA OldestIn ==
    ASSUME NEW S, S \subseteq Id, S # {}
    PROVE  Oldest(S) \in S
<1>1. \E x \in S : \A y \in S : x <= y
  BY MinExists, IdAssumption
<1> QED BY <1>1 DEF Oldest

(* So is the greatest of a bounded one. *)
LEMMA GreatestExists ==
    ASSUME NEW S, S # {}, NEW n \in Nat, S \subseteq 0..n
    PROVE  \E x \in S : \A y \in S : y <= x
<1> DEFINE T == {n - x : x \in S}
<1>1. T \subseteq Nat /\ T # {}
  <2>1. \A x \in S : n - x \in Nat
    OBVIOUS
  <2>2. PICK x \in S : TRUE
    OBVIOUS
  <2>3. n - x \in T
    OBVIOUS
  <2> QED BY <2>1, <2>3
<1>2. PICK t \in T : \A u \in T : t <= u
  <2> HIDE DEF T
  <2> QED BY <1>1, MinExists
<1>3. PICK x \in S : t = n - x
  OBVIOUS
<1>4. \A y \in S : n - x <= n - y
  BY <1>2, <1>3
<1> QED BY <1>4

(* The survivor of a bucket is in it, and none was attempted more often. *)
LEMMA SurvivorMostAttempted ==
    ASSUME QTypes, NEW B, B \subseteq written, B # {}
    PROVE  /\ Survivor(B) \in B
           /\ \A j \in B : attempts[j] <= attempts[Survivor(B)]
<1>1. \A j \in B : attempts[j] \in 0..MaxAttempts /\ j \in Nat
  BY IdAssumption DEF QTypes, TypeOK
<1>2. PICK m \in B : \A j \in B : attempts[j] <= attempts[m]
  <2> DEFINE A == {attempts[j] : j \in B}
  <2>1. A # {} /\ A \subseteq 0..MaxAttempts
    BY <1>1
  <2>2. \E x \in A : \A y \in A : y <= x
    <3> HIDE DEF A
    <3> QED BY <2>1, GreatestExists, BoundAssumption
  <2> QED BY <2>2
<1> DEFINE S == {j \in B : attempts[j] = attempts[m]}
<1>3. PICK n \in Nat : \A i \in written : i <= n
  BY DEF QTypes, WrittenBounded
<1>4. PICK i \in S : \A j \in S : j <= i
  <2>1. S # {} /\ S \subseteq 0..n
    BY <1>1, <1>2, <1>3
  <2> HIDE DEF S
  <2> QED BY <2>1, GreatestExists
<1>5. \A j \in B : \/ attempts[i] > attempts[j]
                   \/ attempts[i] = attempts[j] /\ j <= i
  BY <1>1, <1>2, <1>4
<1>6. /\ Survivor(B) \in B
      /\ \A j \in B : \/ attempts[Survivor(B)] > attempts[j]
                      \/ attempts[Survivor(B)] = attempts[j] /\ j <= Survivor(B)
  BY <1>5 DEF Survivor
<1> QED BY <1>1, <1>6

(* A list that is not empty has a first bucket: all it has of one key. *)
LEMMA BucketOfOneKey ==
    ASSUME QTypes, WorkerInv, worker.todo # {}
    PROVE  /\ Survivor(Bucket) \in Bucket /\ Bucket \subseteq worker.todo
           /\ \A i \in Bucket : /\ KeyOf[i] = KeyOf[Survivor(Bucket)]
                                /\ attempts[i] <= attempts[Survivor(Bucket)]
           /\ \A i \in worker.todo \ Bucket : KeyOf[i] # KeyOf[Survivor(Bucket)]
<1>1. worker.todo \subseteq written /\ written \subseteq Id
  BY DEF QTypes, TypeOK, WorkerInv, Pending
<1>2. Oldest(worker.todo) \in Bucket /\ Bucket \subseteq worker.todo
  BY <1>1, OldestIn DEF Bucket
<1>3. /\ Survivor(Bucket) \in Bucket
      /\ \A j \in Bucket : attempts[j] <= attempts[Survivor(Bucket)]
  BY <1>1, <1>2, SurvivorMostAttempted
<1> QED BY <1>2, <1>3 DEF Bucket

-----------------------------------------------------------------------------
(* Nothing was requested at first. *)
LEMMA InitQInv == Init => QInv
<1> SUFFICES ASSUME Init PROVE QInv
  OBVIOUS
<1> USE IdAssumption, KeyAssumption, WaitsAssumption, BoundAssumption
<1>1. TypeOK
  BY DEF Init, TypeOK, Idle, DrainIdle, WorkerPC, None
<1>2. WrittenBounded
  BY DEF Init, WrittenBounded
<1>3. DrainInv /\ WorkerInv /\ AckedInv
  BY DEF Init, DrainInv, WorkerInv, AckedInv, Taken, Pending, Idle, DrainIdle, None
<1>4. OutcomeInv /\ BudgetInv /\ BackoffInv
  BY DEF Init, OutcomeInv, EndKnown, BudgetInv, BackoffInv, Settled, Pending, OkMeansCompleted, Idle, Taken,
         Recorded
<1> QED BY <1>1, <1>2, <1>3, <1>4 DEF QInv, QTypes

(* The types, by the variables they are about. *)
FileTypes ==
    /\ written \subseteq Id /\ req \subseteq written /\ acked \subseteq written
    /\ attempts \in [Id -> 0..MaxAttempts]
    /\ ack \in [Id -> {"none", "ok", "error"}]
LoopTypes ==
    /\ drain \in [pc : {"route", "ack", "delete", "gc"}, todo : SUBSET Id, cur : Id \cup {None}]
    /\ backoff \in {"none", "waiting", "over"}
    /\ kills \in 0..MaxKills
WorkerRec == [pc : WorkerPC, todo : SUBSET Id, cur : Id \cup {None},
              dups : SUBSET Id, status : {"ok", "error", "dead"}]
WorkerTypes ==
    /\ worker \in WorkerRec
    /\ worker.pc \in {"apply", "ack"} => worker.cur \in req
OtherTypes ==
    /\ waiter \in [Waits -> {"none", "waiting", "ok", "error", "gaveup"}]
    /\ consumed \subseteq Waits
    /\ outcome \in [Id -> {"none", "dead", "completed", "succeeded"}]
    /\ starts \in [Key -> Nat]
    /\ window \subseteq Id

(* What the goroutine's steps with a bucket do to its own state. *)
LEMMA WorkerMoves ==
    ASSUME TypeOK
    PROVE  /\ worker \in WorkerRec
           /\ RebuildReturns =>
                /\ worker' \in WorkerRec /\ worker'.pc = "ack" /\ worker'.todo = worker.todo
                /\ worker'.cur = worker.cur /\ worker'.dups = worker.dups
                /\ worker'.status \in {"ok", "error"}
           /\ RebuildPanics \/ (DupAcks /\ worker.dups = {}) =>
                /\ worker' \in WorkerRec /\ worker'.pc = "next" /\ worker'.todo = worker.todo
                /\ worker'.cur = None /\ worker'.dups = {} /\ worker'.status = worker.status
           /\ WorkerAcks =>
                /\ worker' \in WorkerRec /\ worker'.pc = "delete" /\ worker'.todo = worker.todo
                /\ worker'.cur = worker.cur /\ worker'.dups = worker.dups
                /\ worker'.status = worker.status
           /\ WorkerDeletes \/ DupDeletes =>
                /\ worker' \in WorkerRec /\ worker'.pc \in {"gc", "dupGc"}
                /\ worker'.todo = worker.todo /\ worker'.cur = worker.cur
                /\ worker'.dups = worker.dups /\ worker'.status = worker.status
           /\ WorkerCollects \/ DupCollects =>
                /\ worker' \in WorkerRec /\ worker'.pc = "dupAck" /\ worker'.todo = worker.todo
                /\ worker'.cur = None /\ worker'.dups = worker.dups
                /\ worker'.status = worker.status
           /\ DupAcks /\ worker.dups # {} =>
                /\ Oldest(worker.dups) \in worker.dups
                /\ worker' \in WorkerRec /\ worker'.pc = "dupDelete" /\ worker'.todo = worker.todo
                /\ worker'.cur = Oldest(worker.dups)
                /\ worker'.dups = worker.dups \ {Oldest(worker.dups)}
                /\ worker'.status = worker.status
<1>1. worker \in WorkerRec
  BY DEF TypeOK, WorkerRec
<1>2. PICK w \in WorkerRec : w = worker
  BY <1>1
<1>3. PICK v : v = worker'
  OBVIOUS
<1>4. ASSUME RebuildReturns
      PROVE  \E s \in {"ok", "error"} : v = [w EXCEPT !.pc = "ack", !.status = s]
  BY <1>2, <1>3, <1>4 DEF RebuildReturns
<1>5. ASSUME RebuildPanics \/ (DupAcks /\ worker.dups = {})
      PROVE  v = [w EXCEPT !.pc = "next", !.cur = None, !.dups = {}]
  BY <1>2, <1>3, <1>5 DEF RebuildPanics, AfterPanic, DupAcks, Passed
<1>6. ASSUME WorkerAcks PROVE v = [w EXCEPT !.pc = "delete"]
  BY <1>2, <1>3, <1>6 DEF WorkerAcks
<1>7. ASSUME WorkerDeletes \/ DupDeletes
      PROVE  \E p \in {"gc", "dupGc"} : v = [w EXCEPT !.pc = p]
  BY <1>2, <1>3, <1>7 DEF WorkerDeletes, DupDeletes
<1>8. ASSUME WorkerCollects \/ DupCollects
      PROVE  v = [w EXCEPT !.pc = "dupAck", !.cur = None]
  BY <1>2, <1>3, <1>8 DEF WorkerCollects, DupCollects
<1>9. ASSUME DupAcks, worker.dups # {}
      PROVE  /\ Oldest(w.dups) \in w.dups
             /\ v = [w EXCEPT !.pc = "dupDelete", !.cur = Oldest(w.dups),
                              !.dups = w.dups \ {Oldest(w.dups)}]
  <2>1. w.dups \subseteq Id /\ w.dups # {}
    BY <1>2, <1>9 DEF WorkerRec
  <2>2. Oldest(w.dups) \in w.dups
    BY <2>1, OldestIn
  <2> QED BY <1>2, <1>3, <1>9, <2>2 DEF DupAcks
<1>10. ASSUME RebuildReturns
       PROVE  /\ v \in WorkerRec /\ v.pc = "ack" /\ v.todo = w.todo /\ v.cur = w.cur
              /\ v.dups = w.dups /\ v.status \in {"ok", "error"}
  BY <1>4, <1>10 DEF WorkerRec, WorkerPC
<1>11. ASSUME RebuildPanics \/ (DupAcks /\ worker.dups = {})
       PROVE  /\ v \in WorkerRec /\ v.pc = "next" /\ v.todo = w.todo /\ v.cur = None
              /\ v.dups = {} /\ v.status = w.status
  BY <1>5, <1>11 DEF WorkerRec, WorkerPC
<1>12. ASSUME WorkerAcks
       PROVE  /\ v \in WorkerRec /\ v.pc = "delete" /\ v.todo = w.todo /\ v.cur = w.cur
              /\ v.dups = w.dups /\ v.status = w.status
  BY <1>6, <1>12 DEF WorkerRec, WorkerPC
<1>13. ASSUME WorkerDeletes \/ DupDeletes
       PROVE  /\ v \in WorkerRec /\ v.pc \in {"gc", "dupGc"} /\ v.todo = w.todo
              /\ v.cur = w.cur /\ v.dups = w.dups /\ v.status = w.status
  BY <1>7, <1>13 DEF WorkerRec, WorkerPC
<1>14. ASSUME WorkerCollects \/ DupCollects
       PROVE  /\ v \in WorkerRec /\ v.pc = "dupAck" /\ v.todo = w.todo /\ v.cur = None
              /\ v.dups = w.dups /\ v.status = w.status
  BY <1>8, <1>14 DEF WorkerRec, WorkerPC
<1>15. ASSUME DupAcks, worker.dups # {}
       PROVE  /\ Oldest(w.dups) \in w.dups
              /\ v \in WorkerRec /\ v.pc = "dupDelete" /\ v.todo = w.todo
              /\ v.cur = Oldest(w.dups) /\ v.dups = w.dups \ {Oldest(w.dups)}
              /\ v.status = w.status
  BY <1>9, <1>15 DEF WorkerRec, WorkerPC
<1> QED BY <1>2, <1>3, <1>10, <1>11, <1>12, <1>13, <1>14, <1>15

(* Every step keeps the types, and that finitely many requests were        *)
(* written.                                                                *)
LEMMA TypesKeep ==
    ASSUME QTypes, DrainInv, WorkerInv, Next
    PROVE  QTypes'
<1> USE IdAssumption, KeyAssumption, WaitsAssumption, BoundAssumption DEF QTypes, None
<1>1. ASSUME NEW i \in Id, Write(i) PROVE QTypes'
  <2>1. TypeOK'
    BY <1>1 DEF Write, TypeOK, engine, history
  <2>2. WrittenBounded'
    <3>1. PICK n \in Nat : \A j \in written : j <= n
      BY DEF WrittenBounded
    <3>2. PICK m \in Nat : m >= n /\ m >= i
      OBVIOUS
    <3>3. \A j \in written' : j <= m
      BY <1>1, <3>1, <3>2 DEF Write, TypeOK
    <3> QED BY <3>3 DEF WrittenBounded
  <2> QED BY <2>1, <2>2
<1> SUFFICES ASSUME ~ \E i \in Id : Write(i)
             PROVE  TypeOK' /\ UNCHANGED written
  BY <1>1 DEF WrittenBounded
<1>2. CASE DrainLists
  BY <1>2 DEF DrainLists, DrainIdle, Pending, TypeOK, serve, history, WorkerInv
<1>3. CASE DrainSubmits
  BY <1>3 DEF DrainSubmits, TypeOK, serve, history, Idle, WorkerPC
<1>4. CASE DrainApplies
  <2>1. Oldest(drain.todo) \in Id
    BY <1>4, OldestIn DEF DrainApplies, TypeOK
  <2> QED BY <1>4, <2>1 DEF DrainApplies, TypeOK, serve
<1>5. CASE DrainAcks
  BY <1>5 DEF DrainAcks, WriteAck, DrainInv, TypeOK, serve, history
<1>6. CASE DrainDeletes
  <2>1. worker.pc \in {"apply", "ack"} => worker.cur # drain.cur
    BY <1>6 DEF DrainDeletes, DrainInv, WorkerInv, Taken
  <2> QED BY <1>6, <2>1 DEF DrainDeletes, TypeOK, serve, history
<1>7. CASE DrainCollects
  BY <1>7 DEF DrainCollects, TypeOK, serve, history, DrainInv
<1>8. CASE WorkerLists
  BY <1>8 DEF WorkerLists, workerFrame, serve, history, TypeOK, Pending, WorkerPC
<1>9. CASE WorkerEnds \/ WorkerSkips
  BY <1>9 DEF WorkerEnds, WorkerSkips, Idle, workerFrame, serve, history, TypeOK,
              WorkerPC
<1>10. CASE WorkerDeadLetters
  <2>1. /\ Survivor(Bucket) \in Bucket /\ Bucket \subseteq worker.todo
        /\ worker.todo \subseteq req
    BY <1>10, BucketOfOneKey DEF WorkerDeadLetters, WorkerInv, Pending
  <2>2. outcome' \in [Id -> {"none", "dead", "completed", "succeeded"}]
    BY <1>10 DEF WorkerDeadLetters, Became, TypeOK
  <2> QED BY <1>10, <2>1, <2>2
             DEF WorkerDeadLetters, Take, workerFrame, serve, TypeOK, WorkerPC
<1>11. CASE WorkerClaims
  <2>1. /\ Survivor(Bucket) \in Bucket /\ Bucket \subseteq worker.todo
        /\ worker.todo \subseteq req
    BY <1>11, BucketOfOneKey DEF WorkerClaims, WorkerInv, Pending
  <2>5. Survivor(Bucket) \in Id /\ attempts[Survivor(Bucket)] \in 0..MaxAttempts
    BY <2>1 DEF TypeOK
  <2>2. attempts[Survivor(Bucket)] + 1 \in 0..MaxAttempts
    BY <1>11, <2>5 DEF WorkerClaims, BudgetLeft
  <2>3. FileTypes'
    <3>1. attempts' \in [Id -> 0..MaxAttempts]
      BY <1>11, <2>2, <2>5 DEF WorkerClaims, TypeOK
    <3>2. written' = written /\ acked' = acked /\ req' = req /\ ack' = ack
      BY <1>11, <2>1 DEF WorkerClaims, workerFrame
    <3> QED BY <3>1, <3>2 DEF TypeOK, FileTypes
  <2>4. WorkerTypes'
    <3>1. /\ worker'.cur = Survivor(Bucket) /\ req' = req \cup {Survivor(Bucket)}
          /\ worker' \in [pc : WorkerPC, todo : SUBSET Id, cur : Id \cup {None},
                          dups : SUBSET Id, status : {"ok", "error", "dead"}]
      BY <1>11, <2>1, <2>5 DEF WorkerClaims, Take, TypeOK, WorkerPC
    <3> QED BY <3>1 DEF WorkerTypes, WorkerRec
  <2>6. LoopTypes'
    BY <1>11 DEF WorkerClaims, workerFrame, serve, TypeOK, LoopTypes
  <2>7. starts' \in [Key -> Nat]
    <3>1. KeyOf[Survivor(Bucket)] \in Key
      BY <2>1, <2>5 DEF WorkerInv
    <3> QED BY <1>11, <3>1 DEF WorkerClaims, TypeOK
  <2>8. OtherTypes'
    BY <1>11, <2>7 DEF WorkerClaims, workerFrame, serve, TypeOK, OtherTypes
  <2> QED BY <1>11, <2>3, <2>4, <2>6, <2>8 DEF TypeOK, FileTypes, LoopTypes, WorkerTypes, OtherTypes,
                 WorkerClaims, workerFrame, WorkerRec
<1>12. CASE RebuildReturns
  <2>1. outcome' \in [Id -> {"none", "dead", "completed", "succeeded"}]
    BY <1>12 DEF RebuildReturns, Became, TypeOK
  <2>2. /\ UNCHANGED <<written, drain, serve, kills, req, attempts, ack, backoff, starts, acked, window>>
        /\ worker.pc = "apply"
    BY <1>12 DEF RebuildReturns, workerFrame
  <2>3. WorkerTypes'
    BY <1>12, <2>2, WorkerMoves DEF WorkerTypes, TypeOK
  <2>4. FileTypes' /\ LoopTypes' /\ OtherTypes'
    BY <2>1, <2>2 DEF serve, TypeOK, FileTypes, LoopTypes, OtherTypes
  <2> QED BY <2>2, <2>3, <2>4 DEF TypeOK, FileTypes, LoopTypes, WorkerTypes, OtherTypes, WorkerRec
<1>18. CASE RebuildPanics
  <2>1. /\ UNCHANGED <<written, drain, serve, kills, req, attempts, ack, outcome, starts, acked>>
        /\ worker.pc = "apply" /\ backoff' = "waiting" /\ window' = window \cup {worker.cur}
    BY <1>18 DEF RebuildPanics, workerFrame
  <2>2. WorkerTypes'
    BY <1>18, WorkerMoves DEF WorkerTypes
  <2>3. FileTypes' /\ LoopTypes' /\ OtherTypes'
    BY <2>1 DEF serve, TypeOK, FileTypes, LoopTypes, OtherTypes
  <2> QED BY <2>1, <2>2, <2>3 DEF TypeOK, FileTypes, LoopTypes, WorkerTypes, OtherTypes, WorkerRec
<1>13. CASE WorkerAcks
  <2>1. worker.cur \in written
    BY <1>13 DEF WorkerAcks, TypeOK
  <2>2. WorkerTypes'
    BY <1>13, WorkerMoves DEF WorkerTypes
  <2>3. FileTypes'
    BY <1>13, <2>1 DEF WorkerAcks, WriteAck, workerFrame, TypeOK, FileTypes
  <2>4. LoopTypes' /\ OtherTypes'
    BY <1>13 DEF WorkerAcks, workerFrame, serve, TypeOK, LoopTypes, OtherTypes
  <2>5. written' = written
    BY <1>13 DEF WorkerAcks, workerFrame
  <2> QED BY <2>2, <2>3, <2>4, <2>5 DEF TypeOK, FileTypes, LoopTypes, WorkerTypes, OtherTypes, WorkerRec
<1>14. CASE WorkerDeletes \/ DupDeletes
  <2>1. /\ UNCHANGED <<written, drain, serve, kills, attempts, ack, backoff, history>>
        /\ req' \subseteq req
    BY <1>14 DEF WorkerDeletes, DupDeletes, workerFrame
  <2>2. WorkerTypes'
    BY <1>14, WorkerMoves DEF WorkerTypes
  <2>3. FileTypes' /\ LoopTypes' /\ OtherTypes'
    BY <2>1 DEF serve, history, TypeOK, FileTypes, LoopTypes, OtherTypes
  <2> QED BY <2>1, <2>2, <2>3 DEF TypeOK, FileTypes, LoopTypes, WorkerTypes, OtherTypes, WorkerRec
<1>19. CASE WorkerCollects \/ DupCollects
  <2>1. ack' \in [Id -> {"none", "ok", "error"}]
    BY <1>19 DEF WorkerCollects, DupCollects, Collected, TypeOK
  <2>2. /\ UNCHANGED <<written, drain, serve, kills, req, attempts, outcome, starts, acked>>
        /\ backoff' \in {"none", backoff} /\ window' \subseteq window
    BY <1>19 DEF WorkerCollects, DupCollects, workerFrame, history
  <2>3. WorkerTypes'
    BY <1>19, WorkerMoves DEF WorkerTypes
  <2>4. FileTypes' /\ LoopTypes' /\ OtherTypes'
    BY <2>1, <2>2 DEF serve, TypeOK, FileTypes, LoopTypes, OtherTypes
  <2> QED BY <2>2, <2>3, <2>4 DEF TypeOK, FileTypes, LoopTypes, WorkerTypes, OtherTypes, WorkerRec
<1>15. CASE DupAcks
  <2>1. worker.dups # {} => Oldest(worker.dups) \in written
    BY <1>15, WorkerMoves DEF WorkerInv, Taken, TypeOK
  <2>2. FileTypes'
    BY <1>15, <2>1 DEF DupAcks, WriteAck, DupStatus, workerFrame, TypeOK, FileTypes
  <2>3. WorkerTypes'
    <3>1. worker' \in WorkerRec /\ worker'.pc \in {"next", "dupDelete"}
      BY <1>15, WorkerMoves
    <3> QED BY <3>1 DEF WorkerTypes
  <2>4. LoopTypes' /\ OtherTypes'
    BY <1>15 DEF DupAcks, workerFrame, serve, TypeOK, LoopTypes, OtherTypes
  <2> QED BY <1>15, <2>2, <2>3, <2>4 DEF TypeOK, FileTypes, LoopTypes, WorkerTypes, OtherTypes,
                 DupAcks, workerFrame, WorkerRec
<1>16. CASE BackoffElapses \/ Kill
  <2>1. FileTypes' /\ OtherTypes'
    BY <1>16 DEF BackoffElapses, Kill, serve, TypeOK, FileTypes, OtherTypes
  <2>2. LoopTypes'
    BY <1>16 DEF BackoffElapses, Kill, DrainIdle, TypeOK, LoopTypes
  <2>3. WorkerTypes'
    BY <1>16 DEF BackoffElapses, Kill, Idle, TypeOK, WorkerTypes, WorkerPC, WorkerRec
  <2> QED BY <1>16, <2>1, <2>2, <2>3 DEF TypeOK, FileTypes, LoopTypes, WorkerTypes, OtherTypes,
                 BackoffElapses, Kill, WorkerRec
<1>20. CASE ServePolls
  <2>1. /\ UNCHANGED <<written, attempts, ack, drain, worker, backoff, serve, kills, history>>
        /\ req' = Pending
    BY <1>20 DEF ServePolls, engine
  <2>2. FileTypes'
    BY <2>1 DEF Pending, history, TypeOK, FileTypes
  <2>3. LoopTypes' /\ OtherTypes'
    BY <2>1 DEF serve, history, TypeOK, LoopTypes, OtherTypes
  <2>4. WorkerTypes'
    BY <2>1 DEF TypeOK, WorkerTypes, WorkerRec, WorkerInv
  <2> QED BY <2>1, <2>2, <2>3, <2>4 DEF TypeOK, FileTypes, LoopTypes, WorkerTypes, OtherTypes, WorkerRec
<1>17. ASSUME NEW i \in Waits, WaiterReads(i) \/ WaiterGivesUp(i) \/ WaiterConsumes(i)
       PROVE  TypeOK' /\ UNCHANGED written
  <2>1. i \in Id /\ ack[i] \in {"none", "ok", "error"}
    BY DEF TypeOK
  <2>2. waiter' \in [Waits -> {"none", "waiting", "ok", "error", "gaveup"}]
    BY <1>17, <2>1 DEF WaiterReads, WaiterGivesUp, WaiterConsumes, TypeOK
  <2>3. FileTypes'
    <3>1. ack' = ack \/ ack' = [ack EXCEPT ![i] = "none"]
      BY <1>17 DEF WaiterReads, WaiterGivesUp, WaiterConsumes
    <3>2. UNCHANGED <<written, req, acked, attempts>>
      BY <1>17 DEF WaiterReads, WaiterGivesUp, WaiterConsumes, history
    <3> QED BY <2>1, <3>1, <3>2 DEF TypeOK, FileTypes
  <2>5. WorkerTypes'
    BY <1>17 DEF WaiterReads, WaiterGivesUp, WaiterConsumes, engine, TypeOK, WorkerTypes, WorkerRec
  <2>6. /\ UNCHANGED <<drain, worker, backoff, kills, outcome, starts, acked, window>>
        /\ consumed' = consumed \/ consumed' = consumed \cup {i}
    BY <1>17 DEF WaiterReads, WaiterGivesUp, WaiterConsumes, engine, history
  <2>4. LoopTypes' /\ OtherTypes'
    BY <2>2, <2>6 DEF TypeOK, LoopTypes, OtherTypes
  <2> QED BY <1>17, <2>3, <2>4, <2>5 DEF TypeOK, FileTypes, LoopTypes, WorkerTypes, OtherTypes,
                 WaiterReads, WaiterGivesUp, WaiterConsumes, WorkerRec
<1> QED
  BY <1>1, <1>2, <1>3, <1>4, <1>5, <1>6, <1>7, <1>8, <1>9, <1>10, <1>11, <1>12, <1>13, <1>14,
     <1>15, <1>16, <1>17, <1>18, <1>19, <1>20
     DEF Next, DrainStep, WorkerStep, Rebuild

(* What a step of another actor must leave alone for the drain loop. *)
LEMMA DrainFrame ==
    ASSUME DrainInv, UNCHANGED drain, written \subseteq written',
           \A i \in written : KeyOf[i] = Inline =>
              /\ i \in Pending => i \in Pending'
              /\ i \notin req => i \notin req'
              /\ outcome[i] = "succeeded" => outcome'[i] = "succeeded"
    PROVE  DrainInv'
BY DEF DrainInv

(* Nobody but the drain loop touches what it applies. *)
LEMMA DrainKeeps ==
    ASSUME QTypes, DrainInv, WorkerInv, Next
    PROVE  DrainInv'
<1> USE IdAssumption, KeyAssumption, WaitsAssumption DEF None
<1>0. written \subseteq Id /\ req \subseteq written /\ drain.todo \subseteq Id
  BY DEF QTypes, TypeOK
<1>1. ASSUME NEW i \in Id, Write(i) PROVE DrainInv'
  BY <1>0, <1>1, DrainFrame DEF Write, engine, history, Pending
<1>2. CASE DrainLists
  BY <1>0, <1>2 DEF DrainLists, DrainIdle, DrainInv, Pending
<1>3. CASE DrainSubmits
  <2>1. /\ drain.pc = "route" /\ drain'.pc = "route" /\ drain'.todo \subseteq drain.todo
        /\ UNCHANGED <<written, Pending>>
    BY <1>3 DEF DrainSubmits, Pending, QTypes, TypeOK
  <2> QED BY <2>1 DEF DrainInv
<1>4. CASE DrainApplies
  <2>1. /\ Oldest(drain.todo) \in drain.todo /\ KeyOf[Oldest(drain.todo)] = Inline
        /\ drain'.pc = "ack" /\ drain'.cur = Oldest(drain.todo)
        /\ drain'.todo = drain.todo \ {Oldest(drain.todo)}
        /\ UNCHANGED <<written, Pending>>
    BY <1>0, <1>4, OldestIn DEF DrainApplies, Pending
  <2>2. outcome'[Oldest(drain.todo)] = "succeeded"
    BY <1>0, <1>4, <2>1 DEF DrainApplies, QTypes, TypeOK
  <2> QED BY <2>1, <2>2 DEF DrainInv
<1>5. CASE DrainAcks
  <2>1. /\ drain.pc = "ack" /\ drain'.pc = "delete" /\ drain'.cur = drain.cur
        /\ drain'.todo = drain.todo /\ UNCHANGED <<written, req, outcome>>
        /\ \A i \in Id : i # drain.cur => ack'[i] = ack[i]
    BY <1>5 DEF DrainAcks, WriteAck, QTypes, TypeOK
  <2> QED BY <1>0, <2>1 DEF DrainInv, Pending
<1>6. CASE DrainDeletes
  <2>1. /\ drain.pc = "delete" /\ drain'.pc = "gc" /\ drain'.cur = drain.cur
        /\ drain'.todo = drain.todo /\ UNCHANGED <<written, ack, outcome>>
        /\ req' = req \ {drain.cur}
    BY <1>6 DEF DrainDeletes, QTypes, TypeOK, history
  <2> QED BY <1>0, <2>1 DEF DrainInv, Pending
<1>7. CASE DrainCollects
  <2>1. /\ drain'.pc = "route" /\ drain'.todo = drain.todo /\ UNCHANGED <<written, req>>
        /\ \A i \in Id : ack[i] = "none" => ack'[i] = "none"
    BY <1>7 DEF DrainCollects, QTypes, TypeOK
  <2> QED BY <1>0, <2>1 DEF DrainInv, Pending
<1>8. CASE WorkerLists \/ ServePolls
  <2>1. req' = Pending /\ UNCHANGED <<written, drain, ack, outcome>>
    BY <1>8 DEF WorkerLists, ServePolls, workerFrame, engine, history
  <2> QED BY <2>1, DrainFrame DEF Pending
<1>9. CASE WorkerEnds \/ WorkerSkips \/ RebuildPanics \/ BackoffElapses
  <2>1. UNCHANGED <<written, drain, req, ack, outcome>>
    BY <1>9 DEF WorkerEnds, WorkerSkips, RebuildPanics, BackoffElapses, workerFrame, history
  <2> QED BY <2>1, DrainFrame DEF Pending
<1>10. CASE WorkerDeadLetters \/ RebuildReturns
  <2>1. UNCHANGED <<written, drain, req, ack>>
    BY <1>10 DEF WorkerDeadLetters, RebuildReturns, workerFrame
  <2>2. \A i \in Id : outcome[i] = "succeeded" => outcome'[i] = "succeeded"
    BY <1>10 DEF WorkerDeadLetters, RebuildReturns, Became
  <2> QED BY <1>0, <2>1, <2>2, DrainFrame DEF Pending
<1>11. CASE WorkerClaims
  <2>1. Survivor(Bucket) \in worker.todo /\ worker.todo \subseteq req
    BY <1>11, BucketOfOneKey DEF WorkerClaims, WorkerInv, Pending
  <2>2. UNCHANGED <<written, drain, req, ack, outcome>>
    BY <1>11, <2>1 DEF WorkerClaims, workerFrame
  <2> QED BY <2>2, DrainFrame DEF Pending
<1>12. CASE WorkerAcks \/ DupAcks
  <2>1. UNCHANGED <<written, drain, req, outcome>>
    BY <1>12 DEF WorkerAcks, DupAcks, workerFrame
  <2>2. \A i \in Id : KeyOf[i] = Inline => ack'[i] = ack[i]
    <3>1. CASE WorkerAcks
      BY <3>1 DEF WorkerAcks, WriteAck, WorkerInv, Taken, QTypes, TypeOK
    <3>2. CASE DupAcks /\ worker.dups = {}
      BY <3>2 DEF DupAcks
    <3>3. CASE DupAcks /\ worker.dups # {}
      <4>1. Oldest(worker.dups) \in worker.dups /\ worker.dups \subseteq Id
        BY <3>3, OldestIn DEF QTypes, TypeOK
      <4> QED BY <3>3, <4>1 DEF DupAcks, WriteAck, WorkerInv, Taken, QTypes, TypeOK
    <3> QED BY <1>12, <3>1, <3>2, <3>3
  <2> QED BY <1>0, <2>1, <2>2, DrainFrame DEF Pending
<1>13. CASE WorkerDeletes \/ DupDeletes
  <2>1. UNCHANGED <<written, drain, ack, outcome>> /\ req' = req \ {worker.cur}
    BY <1>13 DEF WorkerDeletes, DupDeletes, workerFrame, history
  <2>2. KeyOf[worker.cur] # Inline
    BY <1>13 DEF WorkerDeletes, DupDeletes, WorkerInv, Taken
  <2> QED BY <2>1, <2>2, DrainFrame DEF Pending
<1>14. CASE WorkerCollects \/ DupCollects
  <2>1. /\ UNCHANGED <<written, drain, req, outcome>>
        /\ \A i \in Id : ack[i] = "none" => ack'[i] = "none"
    BY <1>14 DEF WorkerCollects, DupCollects, Collected, workerFrame, history, QTypes, TypeOK
  <2> QED BY <1>0, <2>1, DrainFrame DEF Pending
<1>15. CASE Kill
  BY <1>15 DEF Kill, DrainIdle, DrainInv
<1>16. ASSUME NEW i \in Waits, WaiterReads(i) \/ WaiterGivesUp(i) \/ WaiterConsumes(i)
       PROVE  DrainInv'
  <2>1. /\ UNCHANGED <<written, drain, req, outcome>>
        /\ \A j \in Id : ack[j] = "none" => ack'[j] = "none"
    BY <1>16 DEF WaiterReads, WaiterGivesUp, WaiterConsumes, engine, history, QTypes, TypeOK
  <2> QED BY <1>0, <2>1, DrainFrame DEF Pending
<1> QED
  BY <1>1, <1>2, <1>3, <1>4, <1>5, <1>6, <1>7, <1>8, <1>9, <1>10, <1>11, <1>12, <1>13, <1>14,
     <1>15, <1>16
     DEF Next, DrainStep, WorkerStep, Rebuild

(* What a step of another actor must leave alone for the goroutine. *)
LEMMA WorkerFrame ==
    ASSUME QTypes, WorkerInv, UNCHANGED <<worker, attempts>>, written \subseteq written',
           \A i \in written : KeyOf[i] # Inline =>
              /\ i \in Pending => i \in Pending'
              /\ i \notin req => i \notin req'
    PROVE  WorkerInv'
<1>1. Taken' = Taken
  BY DEF Taken
<1>2. Taken \subseteq written' /\ worker'.todo \subseteq Pending'
  BY DEF WorkerInv, QTypes, TypeOK, Pending
<1>3. worker'.pc \in {"apply", "ack"} => worker'.cur \in Pending'
  BY <1>2 DEF WorkerInv, Taken, QTypes, TypeOK, Pending
<1>4. worker'.pc \in {"gc", "dupGc"} => worker'.cur \notin req'
  BY <1>2 DEF WorkerInv, Taken
<1> QED BY <1>1, <1>2, <1>3, <1>4 DEF WorkerInv

(* A goroutine with nothing in hand is as it should be if its list is. *)
LEMMA NothingTaken ==
    ASSUME worker'.pc \in {"idle", "list", "next"}, worker'.cur = None, worker'.dups = {},
           worker'.todo \subseteq Pending', \A i \in worker'.todo : KeyOf[i] # Inline
    PROVE  WorkerInv'
<1>1. Taken' = {}
  BY DEF Taken
<1> QED BY <1>1 DEF WorkerInv

(* One that moves on within a bucket is, if what it holds shrinks. *)
LEMMA BucketShrinks ==
    ASSUME WorkerInv, Taken' \subseteq Taken, worker'.todo = worker.todo, written \subseteq written',
           worker'.cur \notin worker'.dups,
           worker'.pc \in {"ack", "delete", "gc", "dupAck", "dupDelete", "dupGc"},
           worker'.pc # "dupAck" => worker'.cur # None,
           worker'.pc = "ack" => worker'.cur \in Pending',
           worker'.pc \in {"gc", "dupGc"} => worker'.cur \notin req',
           \A i \in worker.todo : i \in Pending'
    PROVE  WorkerInv'
BY DEF WorkerInv

(* Taking a bucket takes all the list has of its key. *)
LEMMA TakesOneKey ==
    ASSUME QTypes, WorkerInv, worker.todo # {}, UNCHANGED <<written, Pending>>,
           NEW to \in {"apply", "ack"}, NEW status, Take(to, status),
           to = "apply" => attempts'[Survivor(Bucket)] >= 1
    PROVE  /\ WorkerInv'
           /\ worker'.todo = worker.todo \ Bucket
           /\ worker'.cur = Survivor(Bucket) /\ Taken' = Bucket
           /\ worker'.status = status /\ worker'.pc = to
<1> USE IdAssumption DEF None
<1>1. /\ Survivor(Bucket) \in Bucket /\ Bucket \subseteq worker.todo
      /\ \A i \in Bucket : KeyOf[i] = KeyOf[Survivor(Bucket)]
      /\ \A i \in worker.todo \ Bucket : KeyOf[i] # KeyOf[Survivor(Bucket)]
  BY BucketOfOneKey
<1>2. worker.todo \subseteq written /\ worker.todo \subseteq Pending /\ None \notin worker.todo
  BY DEF WorkerInv, Pending, QTypes, TypeOK
<1>3. /\ worker'.pc = to /\ worker'.todo = worker.todo \ Bucket /\ worker'.cur = Survivor(Bucket)
      /\ worker'.dups = Bucket \ {Survivor(Bucket)} /\ worker'.status = status
  BY DEF Take
<1>4. Taken' = Bucket
  BY <1>1, <1>2, <1>3 DEF Taken
<1>5. WorkerInv'
  BY <1>1, <1>2, <1>3, <1>4 DEF WorkerInv
<1> QED BY <1>3, <1>4, <1>5

(* The goroutine's own steps keep what it holds in order, and the others'  *)
(* steps what it relies on.                                                *)
LEMMA WorkerKeeps ==
    ASSUME QTypes, DrainInv, WorkerInv, Next
    PROVE  WorkerInv'
<1> USE IdAssumption, KeyAssumption, WaitsAssumption DEF None
<1>0. /\ written \subseteq Id /\ req \subseteq written
      /\ worker.todo \subseteq Pending /\ \A i \in worker.todo : KeyOf[i] # Inline
  BY DEF QTypes, TypeOK, WorkerInv
<1>1. ASSUME NEW i \in Id, Write(i) PROVE WorkerInv'
  BY <1>0, <1>1, WorkerFrame DEF Write, engine, history, Pending
<1>2. CASE DrainLists \/ ServePolls
  <2>1. req' = Pending /\ UNCHANGED <<written, worker, ack, attempts>>
    BY <1>2 DEF DrainLists, ServePolls, engine
  <2> QED BY <2>1, WorkerFrame DEF Pending
<1>3. CASE DrainSubmits
  <2>1. UNCHANGED <<written, req, ack, attempts>>
    BY <1>3 DEF DrainSubmits
  <2>2. CASE worker.pc = "idle"
    BY <1>3, <2>1, <2>2, NothingTaken DEF DrainSubmits, Idle
  <2>3. CASE worker.pc # "idle"
    BY <1>3, <2>1, <2>3, WorkerFrame DEF DrainSubmits, Pending
  <2> QED BY <2>2, <2>3
<1>4. CASE DrainApplies \/ BackoffElapses
  BY <1>4, WorkerFrame DEF DrainApplies, BackoffElapses, Pending
<1>5. CASE DrainAcks
  <2>1. /\ UNCHANGED <<written, req, worker, attempts>> /\ KeyOf[drain.cur] = Inline
        /\ \A i \in Id : i # drain.cur => ack'[i] = ack[i]
    BY <1>5 DEF DrainAcks, WriteAck, DrainInv, QTypes, TypeOK
  <2> QED BY <1>0, <2>1, WorkerFrame DEF Pending
<1>6. CASE DrainDeletes
  <2>1. /\ UNCHANGED <<written, ack, worker, attempts>> /\ KeyOf[drain.cur] = Inline
        /\ req' = req \ {drain.cur}
    BY <1>6 DEF DrainDeletes, DrainInv
  <2> QED BY <1>0, <2>1, WorkerFrame DEF Pending
<1>7. CASE DrainCollects
  <2>1. /\ UNCHANGED <<written, req, worker, attempts>>
        /\ \A i \in Id : ack[i] = "none" => ack'[i] = "none"
    BY <1>7 DEF DrainCollects, QTypes, TypeOK
  <2> QED BY <1>0, <2>1, WorkerFrame DEF Pending
<1>8. CASE WorkerLists
  <2>1. /\ worker'.pc = "next" /\ worker'.todo = {i \in Pending : KeyOf[i] # Inline}
        /\ worker'.cur = worker.cur /\ worker'.dups = worker.dups
        /\ Pending' = Pending
    BY <1>8 DEF WorkerLists, Pending, QTypes, TypeOK
  <2>2. worker.cur = None /\ worker.dups = {}
    BY <1>0, <1>8 DEF WorkerLists, WorkerInv, Taken, QTypes, TypeOK
  <2> QED BY <2>1, <2>2, NothingTaken
<1>9. CASE WorkerEnds
  BY <1>9, NothingTaken DEF WorkerEnds, Idle
<1>10. CASE WorkerSkips
  <2>1. /\ worker'.pc = "next" /\ worker'.todo \subseteq worker.todo
        /\ worker'.cur = worker.cur /\ worker'.dups = worker.dups
        /\ Pending' = Pending
    BY <1>10 DEF WorkerSkips, Pending, QTypes, TypeOK
  <2>2. worker.cur = None /\ worker.dups = {}
    BY <1>0, <1>10 DEF WorkerSkips, WorkerInv, Taken, QTypes, TypeOK
  <2> QED BY <1>0, <2>1, <2>2, NothingTaken
<1>11. CASE WorkerDeadLetters
  <2>1. /\ worker.todo # {} /\ UNCHANGED <<written, Pending>> /\ Take("ack", "dead")
    BY <1>11 DEF WorkerDeadLetters, workerFrame, Pending
  <2> QED BY <2>1, TakesOneKey
<1>12. CASE WorkerClaims
  <2>1. /\ Survivor(Bucket) \in worker.todo
    BY <1>12, BucketOfOneKey DEF WorkerClaims
  <2>2. Survivor(Bucket) \in req /\ Survivor(Bucket) \in Id
    BY <1>0, <2>1 DEF Pending
  <2>3. /\ worker.todo # {} /\ UNCHANGED <<written, Pending>> /\ Take("apply", "ok")
    BY <1>12, <2>2 DEF WorkerClaims, workerFrame, Pending
  <2>4. attempts'[Survivor(Bucket)] >= 1
    <3>1. attempts[Survivor(Bucket)] \in 0..MaxAttempts
      BY <2>2 DEF QTypes, TypeOK
    <3>2. attempts'[Survivor(Bucket)] = attempts[Survivor(Bucket)] + 1
      BY <1>12, <2>2 DEF WorkerClaims, QTypes, TypeOK
    <3> QED BY <3>1, <3>2, BoundAssumption
  <2> QED BY <2>3, <2>4, TakesOneKey
<1>13. CASE RebuildReturns
  <2>1. /\ worker'.pc = "ack" /\ worker'.todo = worker.todo /\ worker'.cur = worker.cur
        /\ worker'.dups = worker.dups /\ UNCHANGED <<written, Pending>>
    <3>1. UNCHANGED <<written, req, ack>>
      BY <1>13 DEF RebuildReturns, workerFrame
    <3> QED BY <1>13, <3>1, WorkerMoves DEF Pending, QTypes
  <2>2. worker.cur \in Pending /\ worker.cur # None /\ Taken' = Taken
    BY <1>13, <2>1 DEF RebuildReturns, WorkerInv, Taken
  <2> QED BY <1>0, <2>1, <2>2, BucketShrinks DEF WorkerInv
<1>14. CASE RebuildPanics
  <2>1. /\ worker'.pc = "next" /\ worker'.todo = worker.todo /\ worker'.cur = None
        /\ worker'.dups = {} /\ Pending' = Pending
    <3>1. UNCHANGED <<written, req, ack>>
      BY <1>14 DEF RebuildPanics, workerFrame
    <3> QED BY <1>14, <3>1, WorkerMoves DEF Pending, QTypes
  <2> QED BY <1>0, <2>1, NothingTaken
<1>15. CASE WorkerAcks
  <2>1. /\ worker'.pc = "delete" /\ worker'.todo = worker.todo /\ worker'.cur = worker.cur
        /\ worker'.dups = worker.dups /\ UNCHANGED <<written, req>>
        /\ \A i \in Id : i # worker.cur => ack'[i] = ack[i]
    <3>1. /\ UNCHANGED <<written, req>>
          /\ \A i \in Id : i # worker.cur => ack'[i] = ack[i]
      BY <1>15 DEF WorkerAcks, WriteAck, workerFrame, QTypes, TypeOK
    <3> QED BY <1>15, <3>1, WorkerMoves DEF QTypes
  <2>2. worker.cur # None /\ Taken' = Taken /\ worker.cur \notin worker.todo
    BY <1>15, <2>1 DEF WorkerAcks, WorkerInv, Taken
  <2>3. \A i \in worker.todo : i \in Pending'
    BY <1>0, <2>1, <2>2 DEF Pending
  <2> QED BY <2>1, <2>2, <2>3, BucketShrinks DEF WorkerInv
<1>16. CASE WorkerDeletes \/ DupDeletes
  <2>1. /\ worker'.pc \in {"gc", "dupGc"} /\ worker'.todo = worker.todo /\ worker'.cur = worker.cur
        /\ worker'.dups = worker.dups /\ UNCHANGED <<written, ack>>
        /\ req' = req \ {worker.cur}
    <3>1. UNCHANGED <<written, ack>> /\ req' = req \ {worker.cur}
      BY <1>16 DEF WorkerDeletes, DupDeletes, workerFrame
    <3> QED BY <1>16, <3>1, WorkerMoves DEF QTypes
  <2>2. worker.cur # None /\ Taken' = Taken /\ worker.cur \notin worker.todo
    BY <1>16, <2>1 DEF WorkerDeletes, DupDeletes, WorkerInv, Taken
  <2>3. \A i \in worker.todo : i \in Pending'
    BY <1>0, <2>1, <2>2 DEF Pending
  <2> QED BY <2>1, <2>2, <2>3, BucketShrinks DEF WorkerInv
<1>17. CASE WorkerCollects \/ DupCollects
  <2>1. /\ worker'.pc = "dupAck" /\ worker'.todo = worker.todo /\ worker'.cur = None
        /\ worker'.dups = worker.dups /\ UNCHANGED <<written, req>>
        /\ \A i \in Id : ack[i] = "none" => ack'[i] = "none"
    <3>1. /\ UNCHANGED <<written, req>>
          /\ \A i \in Id : ack[i] = "none" => ack'[i] = "none"
      BY <1>17 DEF WorkerCollects, DupCollects, Collected, workerFrame, QTypes, TypeOK
    <3> QED BY <1>17, <3>1, WorkerMoves DEF QTypes
  <2>2. Taken' \subseteq Taken /\ None \notin worker.dups
    BY <2>1 DEF Taken, QTypes, TypeOK
  <2>3. \A i \in worker.todo : i \in Pending'
    BY <1>0, <2>1 DEF Pending
  <2> QED BY <2>1, <2>2, <2>3, BucketShrinks
<1>18. CASE DupAcks
  <2>1. CASE worker.dups = {}
    <3>1. UNCHANGED <<written, req, ack>>
      BY <1>18, <2>1 DEF DupAcks, workerFrame
    <3>2. /\ worker'.pc = "next" /\ worker'.cur = None /\ worker'.dups = {}
          /\ worker'.todo = worker.todo /\ Pending' = Pending
      BY <1>18, <2>1, <3>1, WorkerMoves DEF Pending, QTypes
    <3> QED BY <1>0, <3>2, NothingTaken
  <2>2. CASE worker.dups # {}
    <3>1. Oldest(worker.dups) \in worker.dups /\ worker.dups \subseteq Id
      BY <2>2, OldestIn DEF QTypes, TypeOK
    <3>2. /\ worker'.pc = "dupDelete" /\ worker'.todo = worker.todo
          /\ worker'.cur = Oldest(worker.dups)
          /\ worker'.dups = worker.dups \ {Oldest(worker.dups)}
          /\ UNCHANGED <<written, req>>
          /\ \A i \in Id : i # Oldest(worker.dups) => ack'[i] = ack[i]
      <4>1. /\ UNCHANGED <<written, req>>
            /\ \A i \in Id : i # Oldest(worker.dups) => ack'[i] = ack[i]
        BY <1>18, <2>2 DEF DupAcks, WriteAck, workerFrame, QTypes, TypeOK
      <4> QED BY <1>18, <2>2, <4>1, WorkerMoves DEF QTypes
    <3>3. Oldest(worker.dups) \notin worker.todo /\ Taken' \subseteq Taken
      BY <3>1, <3>2 DEF WorkerInv, Taken
    <3>4. \A i \in worker.todo : i \in Pending'
      BY <1>0, <3>2, <3>3 DEF Pending
    <3> QED BY <3>1, <3>2, <3>3, <3>4, BucketShrinks
  <2> QED BY <2>1, <2>2
<1>19. CASE Kill
  BY <1>19, NothingTaken DEF Kill, Idle
<1>20. ASSUME NEW i \in Waits, WaiterReads(i) \/ WaiterGivesUp(i) \/ WaiterConsumes(i)
       PROVE  WorkerInv'
  <2>1. /\ UNCHANGED <<written, worker, req, attempts>>
        /\ \A j \in Id : ack[j] = "none" => ack'[j] = "none"
    BY <1>20 DEF WaiterReads, WaiterGivesUp, WaiterConsumes, engine, history, QTypes, TypeOK
  <2> QED BY <1>0, <2>1, WorkerFrame DEF Pending
<1> QED
  BY <1>1, <1>2, <1>3, <1>4, <1>5, <1>6, <1>7, <1>8, <1>9, <1>10, <1>11, <1>12, <1>13, <1>14,
     <1>15, <1>16, <1>17, <1>18, <1>19, <1>20
     DEF Next, DrainStep, WorkerStep, Rebuild

(* An end takes nothing back, and reaches every request it is for. *)
LEMMA BecameBetter ==
    ASSUME QTypes, NEW S, NEW what \in {"dead", "completed", "succeeded"},
           outcome' = Became(S, what)
    PROVE  \A i \in Id : /\ outcome[i] # "none" => outcome'[i] # "none"
                         /\ outcome[i] \in Ran => outcome'[i] \in Ran
                         /\ i \in S => outcome'[i] # "none"
                         /\ i \in S /\ what # "dead" => outcome'[i] \in Ran
BY DEF Became, Ran, QTypes, TypeOK

(* What a step may do to files and ends: an ack it writes is a true one,   *)
(* and a request stops to be pending only with an end.                     *)
LEMMA OutcomeFrame ==
    ASSUME QTypes, OutcomeInv, UNCHANGED <<written, waiter>>, acked \subseteq acked', EndKnown',
           \A i \in Id : /\ outcome[i] # "none" => outcome'[i] # "none"
                         /\ outcome[i] \in Ran => outcome'[i] \in Ran
                         /\ i \in Pending => i \in Pending' \/ outcome'[i] # "none"
                         /\ \/ ack'[i] \in {ack[i], "none"}
                            \/ i \in acked' /\ (ack'[i] = "ok" => outcome'[i] \in Ran)
    PROVE  OutcomeInv'
<1> USE WaitsAssumption
<1>1. \A i \in written' : outcome'[i] = "none" => i \in Pending'
  BY DEF OutcomeInv, QTypes, TypeOK
<1>2. \A i \in Id : /\ ack'[i] # "none" => i \in acked'
                    /\ ack'[i] = "ok" => outcome'[i] \in Ran
  BY DEF OutcomeInv, Ran
<1>3. OkMeansCompleted'
  BY DEF OutcomeInv, OkMeansCompleted, Ran
<1> QED BY <1>1, <1>2, <1>3 DEF OutcomeInv

(* A goroutine that goes on with its bucket knows the ends it knew. *)
LEMMA EndKnownFrame ==
    ASSUME QTypes, WorkerInv, EndKnown, worker'.status = worker.status, Taken' \subseteq Taken,
           worker'.pc = "ack" \/ Settled' => worker.pc = "ack" \/ Settled,
           \A i \in Id : /\ outcome[i] # "none" => outcome'[i] # "none"
                         /\ outcome[i] \in Ran => outcome'[i] \in Ran
    PROVE  EndKnown'
<1>1. Taken \subseteq Id
  BY DEF WorkerInv, QTypes, TypeOK
<1> QED BY <1>1 DEF EndKnown

(* Every step of the system keeps the ends of requests true. *)
LEMMA OutcomeKeeps ==
    ASSUME QTypes, DrainInv, WorkerInv, WorkerInv', OutcomeInv, Next
    PROVE  OutcomeInv'
<1> USE IdAssumption, KeyAssumption, WaitsAssumption DEF None
<1>0. written \subseteq Id /\ req \subseteq written /\ EndKnown /\ Taken \subseteq written
  BY DEF QTypes, TypeOK, OutcomeInv, WorkerInv
<1>1. ASSUME NEW i \in Id, Write(i) PROVE OutcomeInv'
  <2>1. UNCHANGED <<ack, acked, outcome, worker>> /\ written' = written \cup {i} /\ req' = req \cup {i}
    BY <1>1 DEF Write, engine, history
  <2>2. \A w \in Waits : waiter'[w] = "ok" => waiter[w] = "ok"
    BY <1>1 DEF Write
  <2>3. i \in acked => FALSE
    BY <1>1 DEF Write, QTypes, TypeOK
  <2>4. EndKnown'
    BY <1>0, <2>1 DEF EndKnown, Taken, Settled
  <2> QED BY <2>1, <2>2, <2>3, <2>4 DEF OutcomeInv, OkMeansCompleted, Pending
<1>2. CASE DrainLists \/ ServePolls
  <2>1. req' = Pending /\ UNCHANGED <<written, waiter, worker, ack, acked, outcome>>
    BY <1>2 DEF DrainLists, ServePolls, engine, serve, history
  <2>2. EndKnown'
    BY <1>0, <2>1 DEF EndKnown, Taken, Settled
  <2> QED BY <2>1, <2>2, OutcomeFrame DEF Pending
<1>3. CASE DrainSubmits
  <2>1. /\ UNCHANGED <<written, waiter, ack, acked, outcome, req>>
        /\ worker' = worker \/ worker' = [Idle EXCEPT !.pc = "list"]
    BY <1>3 DEF DrainSubmits, serve, history
  <2>2. EndKnown'
    BY <1>0, <2>1 DEF EndKnown, Taken, Settled, Idle
  <2> QED BY <2>1, <2>2, OutcomeFrame DEF Pending
<1>4. CASE DrainApplies
  <2>1. UNCHANGED <<written, waiter, ack, acked, req, worker>>
    BY <1>4 DEF DrainApplies, serve
  <2>2. \A i \in Id : /\ outcome[i] # "none" => outcome'[i] # "none"
                      /\ outcome[i] \in Ran => outcome'[i] \in Ran
    BY <1>4 DEF DrainApplies, Ran, QTypes, TypeOK
  <2>3. EndKnown'
    BY <1>0, <2>1, <2>2, EndKnownFrame DEF Taken, Settled
  <2> QED BY <2>1, <2>2, <2>3, OutcomeFrame DEF Pending
<1>5. CASE DrainAcks
  <2>1. /\ UNCHANGED <<written, waiter, req, worker, outcome>>
        /\ acked' = acked \cup {drain.cur} /\ outcome[drain.cur] = "succeeded"
        /\ \A i \in Id : i # drain.cur => ack'[i] = ack[i]
    BY <1>5 DEF DrainAcks, WriteAck, DrainInv, serve, QTypes, TypeOK
  <2>2. EndKnown'
    BY <1>0, <2>1 DEF EndKnown, Taken, Settled
  <2> QED BY <2>1, <2>2, OutcomeFrame DEF Pending, Ran
<1>6. CASE DrainDeletes
  <2>1. /\ UNCHANGED <<written, waiter, ack, acked, worker, outcome>>
        /\ outcome[drain.cur] = "succeeded" /\ req' = req \ {drain.cur}
    BY <1>6 DEF DrainDeletes, DrainInv, serve, history
  <2>2. EndKnown'
    BY <1>0, <2>1 DEF EndKnown, Taken, Settled
  <2> QED BY <2>1, <2>2, OutcomeFrame DEF Pending
<1>7. CASE DrainCollects
  <2>1. /\ UNCHANGED <<written, waiter, req, acked, worker, outcome>>
        /\ \A i \in Id : ack'[i] \in {ack[i], "none"}
    BY <1>7 DEF DrainCollects, serve, history, QTypes, TypeOK
  <2>2. EndKnown'
    BY <1>0, <2>1 DEF EndKnown, Taken, Settled
  <2> QED BY <2>1, <2>2, OutcomeFrame DEF Pending
<1>8. CASE WorkerLists
  <2>1. /\ UNCHANGED <<written, waiter, ack, acked, outcome>> /\ req' = Pending
        /\ worker'.pc = "next"
    BY <1>8 DEF WorkerLists, workerFrame, serve, history, QTypes, TypeOK
  <2>2. EndKnown'
    BY <2>1 DEF EndKnown, Settled
  <2> QED BY <2>1, <2>2, OutcomeFrame DEF Pending
<1>9. CASE WorkerEnds \/ WorkerSkips \/ RebuildPanics \/ BackoffElapses
  <2>1. /\ UNCHANGED <<written, waiter, req, ack, acked, outcome>>
    BY <1>9 DEF WorkerEnds, WorkerSkips, RebuildPanics, BackoffElapses, workerFrame, serve, history
  <2>2. worker' = worker \/ worker'.pc \in {"idle", "next"}
    <3>1. CASE WorkerEnds \/ WorkerSkips
      BY <3>1 DEF WorkerEnds, WorkerSkips, Idle, QTypes, TypeOK
    <3>2. CASE RebuildPanics \/ BackoffElapses
      BY <3>2, WorkerMoves DEF BackoffElapses, QTypes
    <3> QED BY <1>9, <3>1, <3>2
  <2>3. EndKnown'
    BY <1>0, <2>1, <2>2 DEF EndKnown, Settled, Taken
  <2> QED BY <2>1, <2>3, OutcomeFrame DEF Pending
<1>10. CASE WorkerDeadLetters
  <2>1. /\ UNCHANGED <<written, waiter, req, ack, acked>> /\ outcome' = Became(Bucket, "dead")
        /\ worker.todo # {} /\ UNCHANGED Pending /\ Take("ack", "dead")
    BY <1>10 DEF WorkerDeadLetters, workerFrame, serve, Pending
  <2>2. Taken' = Bucket /\ worker'.status = "dead" /\ Taken' \subseteq Id
    BY <1>0, <2>1, TakesOneKey DEF WorkerInv
  <2>3. EndKnown'
    BY <2>1, <2>2, BecameBetter DEF EndKnown
  <2> QED BY <2>1, <2>3, BecameBetter, OutcomeFrame DEF Pending
<1>11. CASE WorkerClaims
  <2>1. /\ Survivor(Bucket) \in worker.todo
    BY <1>11, BucketOfOneKey DEF WorkerClaims
  <2>2. Survivor(Bucket) \in req
    BY <2>1 DEF WorkerInv, Pending
  <2>3. UNCHANGED <<written, waiter, req, ack, acked, outcome>> /\ worker'.pc = "apply"
    BY <1>11, <2>2 DEF WorkerClaims, Take, workerFrame, serve
  <2>4. EndKnown'
    BY <2>3 DEF EndKnown, Settled
  <2> QED BY <2>3, <2>4, OutcomeFrame DEF Pending
<1>12. CASE RebuildReturns
  <2>1. /\ UNCHANGED <<written, waiter, req, ack, acked>>
        /\ \E what \in {"completed", "succeeded"} :
             outcome' = Became({worker.cur} \cup worker.dups, what)
    BY <1>12 DEF RebuildReturns, workerFrame, serve
  <2>2. Taken' \subseteq {worker.cur} \cup worker.dups /\ Taken' \subseteq Id
    <3>1. worker'.cur = worker.cur /\ worker'.dups = worker.dups
      BY <1>12, WorkerMoves DEF QTypes
    <3> QED BY <1>0, <3>1 DEF Taken
  <2>3. EndKnown'
    BY <2>1, <2>2, BecameBetter DEF EndKnown
  <2> QED BY <2>1, <2>3, BecameBetter, OutcomeFrame DEF Pending
<1>13. CASE WorkerAcks
  <2>1. /\ UNCHANGED <<written, waiter, req, outcome>> /\ acked' = acked \cup {worker.cur}
        /\ worker'.status = worker.status /\ worker'.pc = "delete" /\ Taken' = Taken
        /\ \A i \in Id : i # worker.cur => ack'[i] = ack[i]
        /\ worker.cur \in Id => ack'[worker.cur] = IF worker.status = "ok" THEN "ok" ELSE "error"
    <3>1. /\ UNCHANGED <<written, waiter, req, outcome>> /\ acked' = acked \cup {worker.cur}
          /\ \A i \in Id : i # worker.cur => ack'[i] = ack[i]
          /\ worker.cur \in Id => ack'[worker.cur] = IF worker.status = "ok" THEN "ok" ELSE "error"
      BY <1>13 DEF WorkerAcks, WriteAck, workerFrame, serve, QTypes, TypeOK
    <3> QED BY <1>13, <3>1, WorkerMoves DEF Taken, QTypes
  <2>2. worker.cur \in Taken
    BY <1>13 DEF WorkerAcks, WorkerInv, Taken
  <2>3. outcome[worker.cur] # "none" /\ (worker.status = "ok" => outcome[worker.cur] \in Ran)
    BY <1>0, <1>13, <2>2 DEF WorkerAcks, EndKnown
  <2>4. EndKnown'
    BY <1>0, <1>13, <2>1, EndKnownFrame DEF WorkerAcks
  <2> QED BY <2>1, <2>3, <2>4, OutcomeFrame DEF Pending
<1>14. CASE WorkerDeletes \/ DupDeletes
  <2>1. /\ UNCHANGED <<written, waiter, ack, acked, outcome>> /\ req' = req \ {worker.cur}
        /\ worker'.status = worker.status /\ Taken' = Taken
    <3>1. UNCHANGED <<written, waiter, ack, acked, outcome>> /\ req' = req \ {worker.cur}
      BY <1>14 DEF WorkerDeletes, DupDeletes, workerFrame, serve, history
    <3> QED BY <1>14, <3>1, WorkerMoves DEF Taken, QTypes
  <2>2. worker.cur \in Taken /\ Settled
    BY <1>14 DEF WorkerDeletes, DupDeletes, WorkerInv, Taken, Settled
  <2>3. outcome[worker.cur] # "none"
    BY <1>0, <2>2 DEF EndKnown
  <2>4. EndKnown'
    BY <1>0, <2>1, <2>2, EndKnownFrame
  <2> QED BY <2>1, <2>3, <2>4, OutcomeFrame DEF Pending
<1>15. CASE WorkerCollects \/ DupCollects
  <2>1. /\ UNCHANGED <<written, waiter, req, acked, outcome>>
        /\ worker'.status = worker.status /\ Taken' \subseteq Taken
        /\ \A i \in Id : ack'[i] \in {ack[i], "none"}
    <3>1. /\ UNCHANGED <<written, waiter, req, acked, outcome>>
          /\ \A i \in Id : ack'[i] \in {ack[i], "none"}
      BY <1>15 DEF WorkerCollects, DupCollects, Collected, workerFrame, serve, history,
                   QTypes, TypeOK
    <3> QED BY <1>15, <3>1, WorkerMoves DEF Taken, QTypes
  <2>2. EndKnown'
    BY <1>0, <1>15, <2>1, EndKnownFrame DEF WorkerCollects, DupCollects, Settled
  <2> QED BY <2>1, <2>2, OutcomeFrame DEF Pending
<1>16. CASE DupAcks
  <2>1. CASE worker.dups = {}
    <3>1. UNCHANGED <<written, waiter, req, ack, acked, outcome>> /\ worker'.pc = "next"
      BY <1>16, <2>1, WorkerMoves DEF DupAcks, workerFrame, serve, QTypes
    <3>2. EndKnown'
      BY <3>1 DEF EndKnown, Settled
    <3> QED BY <3>1, <3>2, OutcomeFrame DEF Pending
  <2>2. CASE worker.dups # {}
    <3>1. Oldest(worker.dups) \in worker.dups /\ worker.dups \subseteq Id
      BY <2>2, OldestIn DEF QTypes, TypeOK
    <3>2. /\ worker'.status = worker.status
          /\ worker'.cur = Oldest(worker.dups) /\ worker'.dups \subseteq worker.dups
      BY <1>16, <2>2, WorkerMoves DEF QTypes
    <3>7. UNCHANGED <<written, waiter, req, outcome>>
      BY <1>16 DEF DupAcks, workerFrame, serve
    <3>6. /\ acked' = acked \cup {Oldest(worker.dups)}
          /\ \A i \in Id : i # Oldest(worker.dups) => ack'[i] = ack[i]
          /\ ack'[Oldest(worker.dups)] = "ok" => worker.status # "dead"
      BY <1>16, <2>2, <3>1 DEF DupAcks, WriteAck, DupStatus, QTypes, TypeOK
    <3>3. Taken' \subseteq Taken /\ Oldest(worker.dups) \in Taken /\ Settled
      BY <1>16, <3>1, <3>2 DEF DupAcks, Taken, Settled
    <3>4. /\ outcome[Oldest(worker.dups)] # "none"
          /\ worker.status # "dead" => outcome[Oldest(worker.dups)] \in Ran
      BY <1>0, <3>3 DEF EndKnown
    <3>5. EndKnown'
      BY <1>0, <3>2, <3>3, <3>7, EndKnownFrame
    <3> QED BY <3>1, <3>4, <3>5, <3>6, <3>7, OutcomeFrame DEF Pending
  <2> QED BY <2>1, <2>2
<1>17. CASE Kill
  <2>1. UNCHANGED <<written, waiter, req, ack, acked, outcome>> /\ worker'.pc = "idle"
    BY <1>17 DEF Kill, Idle, serve
  <2>2. EndKnown'
    BY <2>1 DEF EndKnown, Settled
  <2> QED BY <2>1, <2>2, OutcomeFrame DEF Pending
<1>18. ASSUME NEW i \in Waits, WaiterGivesUp(i) \/ WaiterConsumes(i) PROVE OutcomeInv'
  <2>1. /\ UNCHANGED <<written, req, acked, outcome, worker>>
        /\ \A j \in Waits : waiter'[j] = "ok" => waiter[j] = "ok"
        /\ \A j \in Id : ack'[j] \in {ack[j], "none"}
    BY <1>18 DEF WaiterGivesUp, WaiterConsumes, engine, history, QTypes, TypeOK
  <2>2. EndKnown'
    BY <1>0, <2>1 DEF EndKnown, Taken, Settled
  <2>3. OkMeansCompleted'
    BY <2>1 DEF OutcomeInv, OkMeansCompleted
  <2>4. \A j \in written' : outcome'[j] = "none" => j \in Pending'
    BY <1>0, <2>1 DEF OutcomeInv, Pending
  <2> QED BY <2>1, <2>2, <2>3, <2>4 DEF OutcomeInv
<1>19. ASSUME NEW i \in Waits, WaiterReads(i) PROVE OutcomeInv'
  <2>1. /\ UNCHANGED <<written, req, ack, acked, outcome, worker>>
        /\ \A j \in Waits : waiter'[j] = "ok" => waiter[j] = "ok" \/ ack[j] = "ok"
    BY <1>19 DEF WaiterReads, engine, history, QTypes, TypeOK
  <2>2. EndKnown'
    BY <1>0, <2>1 DEF EndKnown, Taken, Settled
  <2> QED BY <2>1, <2>2 DEF OutcomeInv, OkMeansCompleted, Pending, Ran
<1> QED
  BY <1>1, <1>2, <1>3, <1>4, <1>5, <1>6, <1>7, <1>8, <1>9, <1>10, <1>11, <1>12, <1>13, <1>14,
     <1>15, <1>16, <1>17, <1>18, <1>19
     DEF Next, DrainStep, WorkerStep, Rebuild

(* A step that starts nothing and acknowledges no request of a key that    *)
(* has been started leaves every record of attempts in place.              *)
LEMMA BudgetFrame ==
    ASSUME QTypes, WorkerInv, BudgetInv, UNCHANGED attempts,
           \A k \in Key : starts'[k] \in {starts[k], 0},
           \A i \in Pending : \/ i \in Pending'
                              \/ KeyOf[i] = Inline
                              \/ KeyOf[i] \in Key /\ starts'[KeyOf[i]] = 0,
           \/ worker'.todo = {}
           \/ worker'.todo = worker.todo
           \/ worker'.todo = {i \in Pending : KeyOf[i] # Inline}
           \/ worker.todo # {} /\ worker'.todo = worker.todo \ Bucket,
           Settled' => \A i \in Taken' : starts'[KeyOf[i]] = 0
    PROVE  BudgetInv'
<1> USE IdAssumption, KeyAssumption
<1>0. /\ Pending \subseteq Id /\ worker.todo \subseteq Pending
      /\ \A i \in worker.todo : KeyOf[i] \in Key
      /\ \A k \in Key : starts[k] \in Nat
  BY DEF QTypes, TypeOK, Pending, WorkerInv
<1>1. ASSUME NEW k \in Key, starts'[k] > 0 PROVE Recorded(Pending, k)' /\ starts[k] > 0
  <2>1. starts'[k] = starts[k] /\ starts[k] > 0
    BY <1>0, <1>1
  <2>2. PICK i \in Pending : KeyOf[i] = k /\ attempts[i] >= starts[k]
    BY <2>1 DEF BudgetInv, Recorded
  <2>3. i \in Pending'
    BY <1>1, <2>2
  <2> QED BY <2>1, <2>2, <2>3 DEF Recorded
<1>2. ASSUME NEW j \in worker'.todo, starts'[KeyOf[j]] > 0
      PROVE  Recorded(worker.todo, KeyOf[j])'
  <2>1. CASE worker'.todo = worker.todo
    <3>1. starts'[KeyOf[j]] = starts[KeyOf[j]]
      BY <1>0, <1>2, <2>1
    <3> QED BY <1>2, <2>1, <3>1 DEF BudgetInv, Recorded
  <2>2. CASE worker'.todo = {i \in Pending : KeyOf[i] # Inline}
    <3>1. KeyOf[j] \in Key /\ KeyOf[j] # Inline /\ starts'[KeyOf[j]] = starts[KeyOf[j]]
      <4>1. j \in Pending /\ KeyOf[j] # Inline
        BY <1>2, <2>2
      <4>2. KeyOf[j] \in Key
        BY <1>0, <4>1
      <4>3. starts'[KeyOf[j]] \in {starts[KeyOf[j]], 0}
        BY <4>2
      <4> QED BY <1>2, <4>1, <4>2, <4>3
    <3>2. PICK i \in Pending : KeyOf[i] = KeyOf[j] /\ attempts[i] >= starts[KeyOf[j]]
      BY <1>2, <3>1 DEF BudgetInv, Recorded
    <3> QED BY <2>2, <3>1, <3>2 DEF Recorded
  <2>3. CASE worker.todo # {} /\ worker'.todo = worker.todo \ Bucket
    <3>1. j \in worker.todo /\ starts'[KeyOf[j]] = starts[KeyOf[j]]
      BY <1>0, <1>2, <2>3
    <3>2. PICK i \in worker.todo : KeyOf[i] = KeyOf[j] /\ attempts[i] >= starts[KeyOf[j]]
      BY <1>2, <3>1 DEF BudgetInv, Recorded
    <3>3. i \notin Bucket
      BY <1>2, <2>3, <3>2 DEF Bucket
    <3> QED BY <2>3, <3>1, <3>2, <3>3 DEF Recorded
  <2> QED BY <1>2, <2>1, <2>2, <2>3
<1> QED BY <1>1, <1>2 DEF BudgetInv

(* The request that is attempted for a key is one that was attempted as    *)
(* often as the key was started, so the record grows with the starts.      *)
LEMMA ClaimIsRecorded ==
    ASSUME QTypes, WorkerInv, BudgetInv, WorkerClaims
    PROVE  BudgetInv'
<1> USE IdAssumption, KeyAssumption, BoundAssumption
<1> DEFINE s == Survivor(Bucket)
<1>0. /\ Pending \subseteq Id /\ worker.todo \subseteq Pending
      /\ \A i \in worker.todo : KeyOf[i] \in Key
  BY DEF QTypes, TypeOK, Pending, WorkerInv
<1>1. /\ s \in Bucket /\ Bucket \subseteq worker.todo
      /\ \A i \in Bucket : KeyOf[i] = KeyOf[s] /\ attempts[i] <= attempts[s]
      /\ \A i \in worker.todo \ Bucket : KeyOf[i] # KeyOf[s]
  BY BucketOfOneKey DEF WorkerClaims
<1>2. s \in Pending /\ s \in Id /\ KeyOf[s] \in Key
  BY <1>0, <1>1
<1>3. /\ \A i \in Id : attempts[i] \in Nat
      /\ \A k \in Key : starts[k] \in Nat
  BY DEF QTypes, TypeOK
<1>4. /\ attempts'[s] = attempts[s] + 1
      /\ \A i \in Id : i # s => attempts'[i] = attempts[i]
      /\ starts'[KeyOf[s]] = starts[KeyOf[s]] + 1
      /\ \A k \in Key : k # KeyOf[s] => starts'[k] = starts[k]
  BY <1>2 DEF WorkerClaims, QTypes, TypeOK
<1>5. Pending' = Pending
  <2>1. req' = req /\ ack' = ack
    BY <1>2 DEF WorkerClaims, Pending
  <2> QED BY <2>1 DEF Pending
<1>6. worker'.todo = worker.todo \ Bucket /\ worker'.pc = "apply"
  BY DEF WorkerClaims, Take
<1> HIDE DEF s
<1>7. attempts[s] >= starts[KeyOf[s]]
  <2>1. CASE starts[KeyOf[s]] > 0
    <3>1. PICK i \in worker.todo : KeyOf[i] = KeyOf[s] /\ attempts[i] >= starts[KeyOf[s]]
      BY <1>1, <2>1 DEF BudgetInv, Recorded
    <3>2. i \in Bucket
      BY <1>1, <3>1
    <3>3. attempts[i] \in Nat /\ attempts[s] \in Nat /\ starts[KeyOf[s]] \in Nat
      BY <1>0, <1>2, <1>3, <3>1
    <3>4. attempts[i] <= attempts[s]
      BY <1>1, <3>2
    <3> QED BY <3>1, <3>3, <3>4
  <2>2. CASE ~ (starts[KeyOf[s]] > 0)
    <3>1. attempts[s] \in Nat /\ starts[KeyOf[s]] \in Nat
      BY <1>2, <1>3
    <3> QED BY <2>2, <3>1
  <2> QED BY <2>1, <2>2
<1>8. ASSUME NEW k \in Key, starts'[k] > 0 PROVE Recorded(Pending, k)'
  <2>1. CASE k = KeyOf[s]
    <3>1. attempts'[s] >= starts'[k]
      BY <1>2, <1>3, <1>4, <1>7, <2>1
    <3> QED BY <1>2, <1>5, <2>1, <3>1 DEF Recorded
  <2>2. CASE k # KeyOf[s]
    <3>1. starts'[k] = starts[k]
      BY <1>4, <2>2
    <3>2. PICK i \in Pending : KeyOf[i] = k /\ attempts[i] >= starts[k]
      BY <1>8, <3>1 DEF BudgetInv, Recorded
    <3>3. attempts'[i] = attempts[i]
      BY <1>0, <1>4, <2>2, <3>2
    <3> QED BY <1>5, <3>1, <3>2, <3>3 DEF Recorded
  <2> QED BY <2>1, <2>2
<1>9. ASSUME NEW j \in worker'.todo, starts'[KeyOf[j]] > 0
      PROVE  Recorded(worker.todo, KeyOf[j])'
  <2>1. j \in worker.todo /\ KeyOf[j] # KeyOf[s] /\ KeyOf[j] \in Key
    BY <1>0, <1>1, <1>6, <1>9
  <2>2. starts'[KeyOf[j]] = starts[KeyOf[j]]
    BY <1>4, <2>1
  <2>3. PICK i \in worker.todo : KeyOf[i] = KeyOf[j] /\ attempts[i] >= starts[KeyOf[j]]
    BY <1>9, <2>1, <2>2 DEF BudgetInv, Recorded
  <2>4. i \notin Bucket /\ i # s /\ i \in Id
    BY <1>0, <1>1, <2>1, <2>3
  <2>5. attempts'[i] = attempts[i]
    BY <1>4, <2>4
  <2> QED BY <1>6, <2>2, <2>3, <2>4, <2>5 DEF Recorded
<1> QED BY <1>6, <1>8, <1>9 DEF BudgetInv, Settled

(* Every step keeps the record. *)
LEMMA BudgetKeeps ==
    ASSUME QTypes, DrainInv, WorkerInv, WorkerInv', BudgetInv, Next
    PROVE  BudgetInv'
<1> USE IdAssumption, KeyAssumption, WaitsAssumption
<1>0. /\ req \subseteq Id /\ Taken \subseteq Id
      /\ \A i \in Id : KeyOf[i] = Inline \/ KeyOf[i] \in Key
      /\ Settled => \A i \in Taken : starts[KeyOf[i]] = 0
  BY DEF QTypes, TypeOK, WorkerInv, BudgetInv
<1>1. ASSUME NEW i \in Id, Write(i) PROVE BudgetInv'
  <2>1. UNCHANGED <<ack, worker, attempts, starts>> /\ req' = req \cup {i}
    BY <1>1 DEF Write, engine, history
  <2> QED BY <1>0, <2>1, BudgetFrame DEF Pending, Settled, Taken
<1>2. CASE DrainLists \/ ServePolls
  <2>1. req' = Pending /\ UNCHANGED <<worker, ack, attempts, starts>>
    BY <1>2 DEF DrainLists, ServePolls, engine, history
  <2> QED BY <1>0, <2>1, BudgetFrame DEF Pending, Settled, Taken
<1>3. CASE DrainSubmits
  <2>1. /\ UNCHANGED <<req, ack, attempts, starts>>
        /\ worker' = worker \/ worker' = [Idle EXCEPT !.pc = "list"]
    BY <1>3 DEF DrainSubmits, history
  <2>2. CASE worker' = worker
    BY <1>0, <2>1, <2>2, BudgetFrame DEF Pending, Settled, Taken
  <2>3. CASE worker' = [Idle EXCEPT !.pc = "list"]
    <3>1. worker'.todo = {} /\ worker'.pc = "list"
      BY <2>3 DEF Idle
    <3> QED BY <1>0, <2>1, <3>1, BudgetFrame DEF Pending, Settled
  <2> QED BY <2>1, <2>2, <2>3
<1>4. CASE DrainApplies \/ BackoffElapses
  <2>1. UNCHANGED <<req, ack, attempts, starts, worker>>
    BY <1>4 DEF DrainApplies, BackoffElapses
  <2> QED BY <1>0, <2>1, BudgetFrame DEF Pending, Settled, Taken
<1>5. CASE DrainAcks
  <2>1. /\ UNCHANGED <<req, worker, attempts, starts>> /\ KeyOf[drain.cur] = Inline
        /\ \A i \in Id : i # drain.cur => ack'[i] = ack[i]
    BY <1>5 DEF DrainAcks, WriteAck, DrainInv, QTypes, TypeOK
  <2> QED BY <1>0, <2>1, BudgetFrame DEF Pending, Settled, Taken
<1>6. CASE DrainDeletes
  <2>1. /\ UNCHANGED <<ack, worker, attempts, starts>> /\ KeyOf[drain.cur] = Inline
        /\ req' = req \ {drain.cur}
    BY <1>6 DEF DrainDeletes, DrainInv, history
  <2> QED BY <1>0, <2>1, BudgetFrame DEF Pending, Settled, Taken
<1>7. CASE DrainCollects
  <2>1. /\ UNCHANGED <<req, worker, attempts, starts>>
        /\ \A i \in Id : ack[i] = "none" => ack'[i] = "none"
    BY <1>7 DEF DrainCollects, history, QTypes, TypeOK
  <2> QED BY <1>0, <2>1, BudgetFrame DEF Pending, Settled, Taken
<1>8. CASE WorkerLists
  <2>1. /\ worker'.pc = "next" /\ worker'.todo = {i \in Pending : KeyOf[i] # Inline}
    BY <1>8 DEF WorkerLists, QTypes, TypeOK
  <2>2. UNCHANGED <<Pending, attempts, starts>>
    BY <1>8 DEF WorkerLists, Pending, history
  <2> QED BY <2>1, <2>2, BudgetFrame DEF Settled
<1>9. CASE WorkerEnds \/ Kill
  <2>1. /\ worker'.todo = {} /\ worker'.pc = "idle" /\ UNCHANGED <<req, ack, attempts, starts>>
    BY <1>9 DEF WorkerEnds, Kill, Idle, history
  <2> QED BY <2>1, BudgetFrame DEF Settled, Pending
<1>10. CASE WorkerSkips
  <2>1. /\ worker.todo # {} /\ worker'.todo = worker.todo \ Bucket /\ worker'.pc = "next"
    BY <1>10 DEF WorkerSkips, QTypes, TypeOK
  <2>2. UNCHANGED <<req, ack, attempts, starts>>
    BY <1>10 DEF WorkerSkips, history
  <2> QED BY <2>1, <2>2, BudgetFrame DEF Settled, Pending
<1>11. CASE WorkerDeadLetters
  <2>1. /\ worker.todo # {} /\ worker'.todo = worker.todo \ Bucket /\ worker'.pc = "ack"
        /\ UNCHANGED <<req, ack, attempts, starts>>
    BY <1>11 DEF WorkerDeadLetters, Take
  <2> QED BY <2>1, BudgetFrame DEF Settled, Pending
<1>12. CASE WorkerClaims
  BY <1>12, ClaimIsRecorded
<1>13. CASE RebuildReturns \/ RebuildPanics
  <2>1. worker'.pc \in {"ack", "next"} /\ worker'.todo = worker.todo
    <3>1. CASE RebuildReturns
      BY <3>1 DEF RebuildReturns, QTypes, TypeOK
    <3>2. CASE RebuildPanics
      BY <3>2 DEF RebuildPanics, AfterPanic, Passed, QTypes, TypeOK
    <3> QED BY <1>13, <3>1, <3>2
  <2>2. UNCHANGED <<req, ack, attempts, starts>>
    BY <1>13 DEF RebuildReturns, RebuildPanics
  <2> QED BY <2>1, <2>2, BudgetFrame DEF Settled, Pending
<1>14. CASE WorkerAcks
  <2>1. worker'.todo = worker.todo /\ Taken' = Taken
    BY <1>14 DEF WorkerAcks, Taken, QTypes, TypeOK
  <2>2. worker.cur \in Taken /\ worker.cur \in Id /\ KeyOf[worker.cur] \in Key
        /\ \A i \in Taken : KeyOf[i] = KeyOf[worker.cur]
    BY <1>0, <1>14 DEF WorkerAcks, WorkerInv, Taken
  <2>3. /\ UNCHANGED <<req, attempts>>
        /\ \A i \in Id : i # worker.cur => ack'[i] = ack[i]
    BY <1>14 DEF WorkerAcks, WriteAck, QTypes, TypeOK
  <2>4. /\ starts'[KeyOf[worker.cur]] = 0
        /\ \A k \in Key : starts'[k] \in {starts[k], 0}
    BY <1>14, <2>2 DEF WorkerAcks, QTypes, TypeOK
  <2>5. \A i \in Taken' : starts'[KeyOf[i]] = 0
    BY <2>1, <2>2, <2>4
  <2>6. \A i \in Pending : i # worker.cur => i \in Pending'
    BY <1>0, <2>3 DEF Pending
  <2> QED BY <2>1, <2>2, <2>3, <2>4, <2>5, <2>6, BudgetFrame
<1>15. CASE WorkerDeletes \/ DupDeletes
  <2>1. worker'.todo = worker.todo /\ Taken' = Taken
    BY <1>15 DEF WorkerDeletes, DupDeletes, Taken, QTypes, TypeOK
  <2>2. worker.cur \in Taken /\ KeyOf[worker.cur] \in Key /\ Settled
    BY <1>0, <1>15 DEF WorkerDeletes, DupDeletes, WorkerInv, Taken, Settled
  <2>3. UNCHANGED <<ack, attempts, starts>> /\ req' = req \ {worker.cur}
    BY <1>15 DEF WorkerDeletes, DupDeletes, history
  <2>4. starts[KeyOf[worker.cur]] = 0
    BY <1>0, <2>2
  <2>5. \A i \in Pending : i # worker.cur => i \in Pending'
    BY <2>3 DEF Pending
  <2> QED BY <1>0, <2>1, <2>2, <2>3, <2>4, <2>5, BudgetFrame
<1>16. CASE WorkerCollects \/ DupCollects
  <2>1. /\ worker'.todo = worker.todo /\ Taken' \subseteq Taken /\ Settled
    BY <1>16 DEF WorkerCollects, DupCollects, Taken, Settled, QTypes, TypeOK
  <2>2. /\ UNCHANGED <<req, attempts, starts>>
        /\ \A i \in Id : ack[i] = "none" => ack'[i] = "none"
    BY <1>16 DEF WorkerCollects, DupCollects, Collected, history, QTypes, TypeOK
  <2>3. Pending \subseteq Pending'
    BY <1>0, <2>2 DEF Pending
  <2> QED BY <1>0, <2>1, <2>2, <2>3, BudgetFrame
<1>17. CASE DupAcks
  <2>1. CASE worker.dups = {}
    <3>1. worker' = Passed(worker) /\ UNCHANGED <<req, ack, attempts, starts>>
      BY <1>17, <2>1 DEF DupAcks, workerFrame
    <3>2. worker'.pc = "next" /\ worker'.todo = worker.todo
      BY <3>1 DEF Passed, QTypes, TypeOK
    <3> QED BY <3>1, <3>2, BudgetFrame DEF Settled, Pending
  <2>2. CASE worker.dups # {}
    <3>1. Oldest(worker.dups) \in worker.dups /\ worker.dups \subseteq Id
      BY <2>2, OldestIn DEF QTypes, TypeOK
    <3>2. /\ worker'.todo = worker.todo /\ worker'.cur = Oldest(worker.dups)
          /\ worker'.dups \subseteq worker.dups
      <4>1. worker' = [worker EXCEPT !.pc = "dupDelete", !.cur = Oldest(worker.dups),
                                     !.dups = @ \ {Oldest(worker.dups)}]
        BY <1>17, <2>2 DEF DupAcks
      <4> QED BY <4>1 DEF QTypes, TypeOK
    <3>3. Taken' \subseteq Taken /\ Oldest(worker.dups) \in Taken /\ Settled
      BY <1>17, <3>1, <3>2 DEF DupAcks, Taken, Settled, None
    <3>4. /\ UNCHANGED <<req, attempts, starts>>
          /\ \A i \in Id : i # Oldest(worker.dups) => ack'[i] = ack[i]
      BY <1>17, <2>2 DEF DupAcks, WriteAck, QTypes, TypeOK
    <3>5. KeyOf[Oldest(worker.dups)] \in Key /\ starts[KeyOf[Oldest(worker.dups)]] = 0
      BY <1>0, <3>3 DEF WorkerInv
    <3>6. \A i \in Pending : i # Oldest(worker.dups) => i \in Pending'
      BY <1>0, <3>4 DEF Pending
    <3> QED BY <1>0, <3>2, <3>3, <3>4, <3>5, <3>6, BudgetFrame
  <2> QED BY <2>1, <2>2
<1>18. ASSUME NEW i \in Waits, WaiterReads(i) \/ WaiterGivesUp(i) \/ WaiterConsumes(i)
       PROVE  BudgetInv'
  <2>1. /\ UNCHANGED <<worker, req, attempts, starts>>
        /\ \A j \in Id : ack[j] = "none" => ack'[j] = "none"
    BY <1>18 DEF WaiterReads, WaiterGivesUp, WaiterConsumes, engine, history, QTypes, TypeOK
  <2> QED BY <1>0, <2>1, BudgetFrame DEF Pending, Settled, Taken
<1> QED
  BY <1>1, <1>2, <1>3, <1>4, <1>5, <1>6, <1>7, <1>8, <1>9, <1>10, <1>11, <1>12, <1>13, <1>14,
     <1>15, <1>16, <1>17, <1>18
     DEF Next, DrainStep, WorkerStep, Rebuild

(* Whoever panicked stays pending, and with its key on the list, unless    *)
(* its bucket is being settled.                                            *)
LEMMA BackoffFrame ==
    ASSUME QTypes, WorkerInv, BackoffInv, window' \subseteq window, written' = written,
           window' # {} => backoff' = backoff /\ worker'.pc \notin {"dupAck", "dupDelete", "dupGc"},
           \A i \in Id : attempts[i] >= 1 => attempts'[i] >= 1,
           \A i \in window' :
              /\ KeyOf[i] # Inline /\ i \in Pending =>
                   i \in Pending' \/ (worker'.pc \in {"delete", "gc"} /\ i = worker'.cur)
              /\ worker.pc \in {"delete", "gc"} /\ i = worker.cur =>
                   worker'.pc \in {"delete", "gc"} /\ i = worker'.cur,
           \/ worker'.todo = {}
           \/ worker'.todo = worker.todo
           \/ worker.pc = "list" /\ worker'.todo = {i \in Pending : KeyOf[i] # Inline}
           \/ worker.todo # {} /\ worker'.todo = worker.todo \ Bucket
    PROVE  BackoffInv'
<1>1. window' # {} => backoff' = "waiting" /\ worker'.pc \notin {"dupAck", "dupDelete", "dupGc"}
  BY DEF BackoffInv
<1>2. ASSUME NEW j \in window'
      PROVE  /\ j \in written' /\ KeyOf[j] # Inline /\ attempts'[j] >= 1
             /\ j \in Pending' \/ (worker'.pc \in {"delete", "gc"} /\ j = worker'.cur)
             /\ j \in worker'.todo \/ \A i \in worker'.todo : KeyOf[i] # KeyOf[j]
  <2>1. /\ j \in written /\ j \in Id /\ KeyOf[j] # Inline /\ attempts[j] >= 1
        /\ j \in Pending \/ (worker.pc \in {"delete", "gc"} /\ j = worker.cur)
        /\ j \in worker.todo \/ \A i \in worker.todo : KeyOf[i] # KeyOf[j]
    BY DEF BackoffInv, QTypes, TypeOK
  <2>2. attempts'[j] >= 1
    BY <2>1
  <2>3. j \in Pending' \/ (worker'.pc \in {"delete", "gc"} /\ j = worker'.cur)
    BY <2>1
  <2>4. j \in worker'.todo \/ \A i \in worker'.todo : KeyOf[i] # KeyOf[j]
    <3>1. CASE worker.pc = "list" /\ worker'.todo = {i \in Pending : KeyOf[i] # Inline}
      BY <2>1, <3>1
    <3>2. CASE worker.todo # {} /\ worker'.todo = worker.todo \ Bucket
      BY <2>1, <3>2 DEF Bucket
    <3> QED BY <2>1, <3>1, <3>2
  <2> QED BY <2>1, <2>2, <2>3, <2>4
<1> QED BY <1>1, <1>2 DEF BackoffInv

(* A panic puts its request behind the backoff; every other step keeps     *)
(* those that are there.                                                   *)
LEMMA BackoffKeeps ==
    ASSUME QTypes, DrainInv, WorkerInv, WorkerInv', BackoffInv, Next
    PROVE  BackoffInv'
<1> USE IdAssumption, KeyAssumption, WaitsAssumption
<1>0. req \subseteq Id /\ Taken \subseteq Id
  BY DEF QTypes, TypeOK, WorkerInv
<1>1. ASSUME NEW i \in Id, Write(i) PROVE BackoffInv'
  <2>1. /\ UNCHANGED <<ack, worker, attempts, backoff, window>>
        /\ req' = req \cup {i} /\ written' = written \cup {i}
    BY <1>1 DEF Write, engine, history
  <2>2. Pending \subseteq Pending'
    BY <2>1 DEF Pending
  <2> QED BY <2>1, <2>2 DEF BackoffInv
<1>2. CASE DrainLists \/ ServePolls
  <2>1. req' = Pending /\ UNCHANGED <<written, worker, ack, attempts, backoff, window>>
    BY <1>2 DEF DrainLists, ServePolls, engine, history
  <2> QED BY <2>1 DEF Pending, BackoffInv
<1>3. CASE DrainSubmits
  <2>1. /\ UNCHANGED <<written, Pending, attempts, backoff, window>>
        /\ worker' = worker \/ worker' = [Idle EXCEPT !.pc = "list"]
    BY <1>3 DEF DrainSubmits, history, Pending
  <2>2. CASE worker' = worker
    BY <2>1, <2>2 DEF BackoffInv
  <2>3. CASE worker' = [Idle EXCEPT !.pc = "list"] /\ worker' # worker
    <3>1. worker'.todo = {} /\ worker'.pc = "list" /\ worker.pc = "idle"
      BY <1>3, <2>3 DEF DrainSubmits, Idle
    <3> QED BY <2>1, <3>1, BackoffFrame
  <2> QED BY <2>1, <2>2, <2>3
<1>4. CASE DrainApplies
  BY <1>4 DEF DrainApplies, BackoffInv, Pending
<1>5. CASE DrainAcks
  <2>1. /\ UNCHANGED <<written, req, worker, attempts, backoff, window>>
        /\ KeyOf[drain.cur] = Inline
        /\ \A i \in Id : i # drain.cur => ack'[i] = ack[i]
    BY <1>5 DEF DrainAcks, WriteAck, DrainInv, QTypes, TypeOK
  <2>2. \A i \in Pending : KeyOf[i] # Inline => i \in Pending'
    BY <1>0, <2>1 DEF Pending
  <2> QED BY <2>1, <2>2 DEF BackoffInv
<1>6. CASE DrainDeletes
  <2>1. /\ UNCHANGED <<written, ack, worker, attempts, backoff, window>>
        /\ KeyOf[drain.cur] = Inline /\ req' = req \ {drain.cur}
    BY <1>6 DEF DrainDeletes, DrainInv, history
  <2>2. \A i \in Pending : KeyOf[i] # Inline => i \in Pending'
    BY <1>0, <2>1 DEF Pending
  <2> QED BY <2>1, <2>2 DEF BackoffInv
<1>7. CASE DrainCollects
  <2>1. /\ UNCHANGED <<written, req, worker, attempts, backoff, window>>
        /\ \A i \in Id : ack[i] = "none" => ack'[i] = "none"
    BY <1>7 DEF DrainCollects, history, QTypes, TypeOK
  <2>2. Pending \subseteq Pending'
    BY <1>0, <2>1 DEF Pending
  <2> QED BY <2>1, <2>2 DEF BackoffInv
<1>8. CASE WorkerLists
  <2>1. /\ worker.pc = "list" /\ worker'.pc = "next"
        /\ worker'.todo = {i \in Pending : KeyOf[i] # Inline}
    BY <1>8 DEF WorkerLists, QTypes, TypeOK
  <2>2. UNCHANGED <<written, Pending, attempts, backoff, window>>
    BY <1>8 DEF WorkerLists, workerFrame, Pending, history
  <2> QED BY <2>1, <2>2, BackoffFrame
<1>9. CASE WorkerEnds
  <2>1. /\ worker'.todo = {} /\ worker'.pc = "idle" /\ worker.pc = "next"
        /\ UNCHANGED <<written, Pending, attempts, backoff, window>>
    BY <1>9 DEF WorkerEnds, workerFrame, Idle, history, Pending
  <2> QED BY <2>1, BackoffFrame
<1>10. CASE WorkerSkips
  <2>1. /\ worker.todo # {} /\ worker'.todo = worker.todo \ Bucket
        /\ worker.pc = "next" /\ worker'.pc = "next"
    BY <1>10 DEF WorkerSkips, QTypes, TypeOK
  <2>2. UNCHANGED <<written, Pending, attempts, backoff, window>>
    BY <1>10 DEF WorkerSkips, workerFrame, history, Pending
  <2> QED BY <2>1, <2>2, BackoffFrame
<1>11. CASE WorkerDeadLetters
  <2>1. /\ worker.todo # {} /\ worker'.todo = worker.todo \ Bucket
        /\ worker.pc = "next" /\ worker'.pc = "ack"
        /\ UNCHANGED <<written, Pending, attempts, backoff, window>>
    BY <1>11 DEF WorkerDeadLetters, workerFrame, Take, Pending
  <2> QED BY <2>1, BackoffFrame
<1>12. CASE WorkerClaims
  <2>1. Survivor(Bucket) \in Pending
    BY <1>12, BucketOfOneKey DEF WorkerClaims, WorkerInv
  <2>2. /\ worker.todo # {} /\ worker'.todo = worker.todo \ Bucket
        /\ worker.pc = "next" /\ worker'.pc = "apply"
        /\ UNCHANGED <<written, Pending, backoff, window>>
    BY <1>12, <2>1 DEF WorkerClaims, workerFrame, Take, Pending
  <2>3. \A i \in Id : attempts[i] >= 1 => attempts'[i] >= 1
    <3>1. Survivor(Bucket) \in Id
      BY <1>0, <2>1 DEF Pending
    <3>3. \A i \in Id : attempts[i] \in 0..MaxAttempts
      BY DEF QTypes, TypeOK
    <3>2. attempts' = [attempts EXCEPT ![Survivor(Bucket)] = attempts[Survivor(Bucket)] + 1]
      BY <1>12 DEF WorkerClaims
    <3> QED BY <3>1, <3>2, <3>3, BoundAssumption DEF QTypes, TypeOK
  <2> QED BY <2>2, <2>3, BackoffFrame
<1>13. CASE RebuildReturns
  <2>1. /\ worker.pc = "apply" /\ worker'.pc = "ack" /\ worker'.todo = worker.todo
    BY <1>13 DEF RebuildReturns, QTypes, TypeOK
  <2>2. UNCHANGED <<written, Pending, attempts, backoff, window>>
    BY <1>13 DEF RebuildReturns, workerFrame, Pending
  <2> QED BY <2>1, <2>2, BackoffFrame
<1>14. CASE RebuildPanics
  <2>1. /\ worker'.pc = "next" /\ worker'.todo = worker.todo /\ worker.pc = "apply"
    BY <1>14 DEF RebuildPanics, AfterPanic, Passed, QTypes, TypeOK
  <2>2. /\ UNCHANGED <<written, Pending, attempts>> /\ backoff' = "waiting"
        /\ window' = window \cup {worker.cur}
    BY <1>14 DEF RebuildPanics, workerFrame, Pending
  <2>3. /\ worker.cur \in Taken /\ worker.cur \in Pending /\ worker.cur \in written
        /\ KeyOf[worker.cur] # Inline /\ attempts[worker.cur] >= 1
        /\ \A i \in worker.todo : KeyOf[i] # KeyOf[worker.cur]
    BY <1>0, <2>1 DEF WorkerInv, Taken
  <2> QED BY <2>1, <2>2, <2>3 DEF BackoffInv
<1>15. CASE WorkerAcks
  <2>1. /\ worker'.pc = "delete" /\ worker'.todo = worker.todo /\ worker'.cur = worker.cur
        /\ worker.pc = "ack"
    BY <1>15 DEF WorkerAcks, QTypes, TypeOK
  <2>2. /\ UNCHANGED <<written, req, attempts, backoff, window>>
        /\ \A i \in Id : i # worker.cur => ack'[i] = ack[i]
    BY <1>15 DEF WorkerAcks, WriteAck, workerFrame, QTypes, TypeOK
  <2>3. \A i \in Pending : i # worker.cur => i \in Pending'
    BY <1>0, <2>2 DEF Pending
  <2> QED BY <2>1, <2>2, <2>3, BackoffFrame
<1>16. CASE WorkerDeletes
  <2>1. /\ worker.pc = "delete" /\ worker'.pc = "gc" /\ worker'.todo = worker.todo
        /\ worker'.cur = worker.cur
    BY <1>16 DEF WorkerDeletes, QTypes, TypeOK
  <2>2. UNCHANGED <<written, ack, attempts, backoff, window>> /\ req' = req \ {worker.cur}
    BY <1>16 DEF WorkerDeletes, workerFrame, history
  <2>3. \A i \in Pending : i # worker.cur => i \in Pending'
    BY <2>2 DEF Pending
  <2> QED BY <2>1, <2>2, <2>3, BackoffFrame
<1>17. CASE WorkerCollects \/ BackoffElapses \/ Kill
  <2>1. window' = {}
    BY <1>17 DEF WorkerCollects, BackoffElapses, Kill
  <2> QED BY <2>1 DEF BackoffInv
<1>18. CASE DupAcks \/ DupDeletes \/ DupCollects
  <2>1. window' = window /\ window = {}
    BY <1>18 DEF DupAcks, DupDeletes, DupCollects, history, BackoffInv
  <2> QED BY <2>1 DEF BackoffInv
<1>19. ASSUME NEW i \in Waits, WaiterReads(i) \/ WaiterGivesUp(i) \/ WaiterConsumes(i)
       PROVE  BackoffInv'
  <2>1. /\ UNCHANGED <<written, worker, req, attempts, backoff, window>>
        /\ \A j \in Id : ack[j] = "none" => ack'[j] = "none"
    BY <1>19 DEF WaiterReads, WaiterGivesUp, WaiterConsumes, engine, history, QTypes, TypeOK
  <2>2. Pending \subseteq Pending'
    BY <1>0, <2>1 DEF Pending
  <2> QED BY <2>1, <2>2 DEF BackoffInv
<1> QED
  BY <1>1, <1>2, <1>3, <1>4, <1>5, <1>6, <1>7, <1>8, <1>9, <1>10, <1>11, <1>12, <1>13, <1>14,
     <1>15, <1>16, <1>17, <1>18, <1>19
     DEF Next, DrainStep, WorkerStep, Rebuild

(* An ack goes only when its request has gone, unless a waiter takes it,   *)
(* and no request comes back.                                              *)
LEMMA AckedKeeps ==
    ASSUME QTypes, DrainInv, WorkerInv, AckedInv, Next
    PROVE  AckedInv'
<1> USE IdAssumption, KeyAssumption, WaitsAssumption
<1> SUFFICES ASSUME NEW j \in Id \ Waits, j \in acked', j \in Pending' PROVE FALSE
  <2>1. acked' \subseteq Id
    BY TypesKeep DEF QTypes, TypeOK
  <2> QED BY <2>1 DEF AckedInv
<1>0. req \subseteq Id /\ acked \subseteq written /\ (j \in acked => j \notin Pending)
  BY DEF QTypes, TypeOK, AckedInv
<1>1. ASSUME NEW i \in Id, Write(i) PROVE FALSE
  <2>1. UNCHANGED <<ack, acked>> /\ req' = req \cup {i} /\ i \notin written
    BY <1>1 DEF Write, history
  <2> QED BY <1>0, <2>1 DEF Pending
<1>2. CASE req' = Pending /\ UNCHANGED <<ack, acked>>
  BY <1>0, <1>2 DEF Pending
<1>3. CASE UNCHANGED <<req, ack, acked>>
  BY <1>0, <1>3 DEF Pending
<1>4. CASE DrainAcks \/ WorkerAcks \/ DupAcks
  <2>1. req' = req
    BY <1>4 DEF DrainAcks, WorkerAcks, DupAcks
  <2>2. \/ UNCHANGED <<ack, acked>>
        \/ \E i \in Id, status \in {"ok", "error"} : WriteAck(i, status)
    <3>1. CASE DrainAcks
      BY <3>1 DEF DrainAcks, DrainInv, QTypes, TypeOK
    <3>2. CASE WorkerAcks
      BY <3>2 DEF WorkerAcks, WorkerInv, Pending, QTypes, TypeOK
    <3>3. CASE DupAcks /\ worker.dups # {}
      <4>1. Oldest(worker.dups) \in Id
        BY <3>3, OldestIn DEF QTypes, TypeOK
      <4> QED BY <3>3, <4>1 DEF DupAcks, DupStatus
    <3>4. CASE DupAcks /\ worker.dups = {}
      BY <3>4 DEF DupAcks
    <3> QED BY <1>4, <3>1, <3>2, <3>3, <3>4
  <2>3. CASE UNCHANGED <<ack, acked>>
    BY <1>3, <2>1, <2>3
  <2>4. ASSUME NEW i \in Id, NEW status \in {"ok", "error"}, WriteAck(i, status) PROVE FALSE
    <3>1. /\ ack'[i] # "none" /\ acked' = acked \cup {i}
          /\ j # i => ack'[j] = ack[j]
      BY <2>4 DEF WriteAck, QTypes, TypeOK
    <3> QED BY <1>0, <2>1, <3>1 DEF Pending
  <2> QED BY <2>2, <2>3, <2>4
<1>5. CASE DrainDeletes \/ WorkerDeletes \/ DupDeletes
  BY <1>0, <1>5 DEF DrainDeletes, WorkerDeletes, DupDeletes, history, Pending
<1>6. CASE DrainCollects \/ WorkerCollects \/ DupCollects
  <2>1. UNCHANGED <<req, acked>>
    BY <1>6 DEF DrainCollects, WorkerCollects, DupCollects, history
  <2>2. ack'[j] = ack[j] \/ j \notin req
    BY <1>6 DEF DrainCollects, WorkerCollects, DupCollects, Collected, DrainInv, WorkerInv, QTypes,
                TypeOK
  <2> QED BY <1>0, <2>1, <2>2 DEF Pending
<1>7. CASE WorkerClaims
  <2>1. Survivor(Bucket) \in worker.todo
    BY <1>7, BucketOfOneKey DEF WorkerClaims
  <2>2. UNCHANGED <<req, ack, acked>>
    BY <1>7, <2>1 DEF WorkerClaims, WorkerInv, Pending
  <2> QED BY <1>3, <2>2
<1>8. ASSUME NEW i \in Waits, WaiterReads(i) \/ WaiterGivesUp(i) \/ WaiterConsumes(i) PROVE FALSE
  <2>1. UNCHANGED <<req, acked>> /\ ack'[j] = ack[j]
    BY <1>8 DEF WaiterReads, WaiterGivesUp, WaiterConsumes, history, QTypes, TypeOK
  <2> QED BY <1>0, <2>1 DEF Pending
<1>9. CASE DrainLists \/ WorkerLists \/ ServePolls
  BY <1>2, <1>9 DEF DrainLists, WorkerLists, ServePolls, history
<1>10. CASE \/ DrainSubmits \/ DrainApplies \/ WorkerEnds \/ WorkerSkips \/ WorkerDeadLetters
            \/ Rebuild \/ BackoffElapses \/ Kill
  BY <1>3, <1>10 DEF DrainSubmits, DrainApplies, WorkerEnds, WorkerSkips, WorkerDeadLetters, Rebuild,
                     RebuildReturns, RebuildPanics, BackoffElapses, Kill, history
<1> QED
  BY <1>1, <1>4, <1>5, <1>6, <1>7, <1>8, <1>9, <1>10 DEF Next, DrainStep, WorkerStep

-----------------------------------------------------------------------------

(* A step that changes nothing keeps the invariant. *)
LEMMA StutterQInv == QInv /\ UNCHANGED vars => QInv'
BY DEF vars, engine, serve, history, QInv, QTypes, TypeOK, WrittenBounded, DrainInv, WorkerInv, OutcomeInv, EndKnown,
       BudgetInv, BackoffInv, AckedInv, Pending, Taken, Settled, Recorded, OkMeansCompleted

(* Every step keeps the invariant. *)
LEMMA NextQInv == QInv /\ [Next]_vars => QInv'
<1> SUFFICES ASSUME QInv, Next PROVE QInv'
  BY StutterQInv
<1>1. QTypes' /\ DrainInv' /\ WorkerInv'
  BY TypesKeep, DrainKeeps, WorkerKeeps DEF QInv
<1>2. OutcomeInv' /\ BudgetInv' /\ BackoffInv' /\ AckedInv'
  BY <1>1, OutcomeKeeps, BudgetKeeps, BackoffKeeps, AckedKeeps DEF QInv
<1> QED BY <1>1, <1>2 DEF QInv

(* The invariant holds in every reachable state, kills included.           *)
THEOREM SpecQInv == Spec => []QInv
<1>1. Init => QInv
  BY InitQInv
<1> QED BY <1>1, NextQInv, PTL DEF Spec

(* The queue's variables keep their types. *)
THEOREM QueueTypes == Spec => []TypeOK
<1>1. QInv => TypeOK
  BY DEF QInv, QTypes
<1> QED BY <1>1, SpecQInv, PTL

(* A request is off the queue only with an end of its work, whatever the   *)
(* interleaving of drain, rebuilds, waiters and kills.                     *)
THEOREM OffTheQueueIsTerminal == Spec => []NotPendingMeansTerminal
<1>1. QInv => NotPendingMeansTerminal
  BY DEF QInv, OutcomeInv, NotPendingMeansTerminal
<1> QED BY <1>1, SpecQInv, PTL

(* Over any number of kills and of new requests a key is started at most   *)
(* MaxAttempts times before it is answered: every start is recorded in the *)
(* request that will be attempted next.                                    *)
THEOREM StartsAreBounded == Spec => []CrashLoopBounded
<1>1. ASSUME QInv PROVE CrashLoopBounded
  <2>1. SUFFICES ASSUME NEW k \in Key PROVE starts[k] <= MaxAttempts
    BY DEF CrashLoopBounded
  <2>2. starts[k] \in Nat /\ MaxAttempts \in Nat
    BY <1>1, BoundAssumption DEF QInv, QTypes, TypeOK
  <2>3. CASE starts[k] > 0
    <3>1. PICK i \in Pending : attempts[i] >= starts[k]
      BY <1>1, <2>3 DEF QInv, BudgetInv, Recorded
    <3>2. i \in Id
      BY <1>1 DEF QInv, QTypes, TypeOK, Pending
    <3>3. attempts[i] \in 0..MaxAttempts
      BY <1>1, <3>2 DEF QInv, QTypes, TypeOK
    <3> QED BY <2>2, <3>1, <3>3
  <2> QED BY <2>2, <2>3
<1> QED BY <1>1, SpecQInv, PTL

(* A waiter that is told ok has had a rebuild run to its end. *)
THEOREM OkIsCompleted == Spec => []OkMeansCompleted
<1>1. QInv => OkMeansCompleted
  BY DEF QInv, OutcomeInv
<1> QED BY <1>1, SpecQInv, PTL

(* What a step that starts request i is. *)
LEMMA StartIs ==
    ASSUME QInv, Next, NEW i \in Id, Starts(i)
    PROVE  \/ WorkerClaims /\ i = Survivor(Bucket)
           \/ DrainApplies /\ i \in drain.todo /\ KeyOf[i] = Inline
<1> USE IdAssumption
<1>1. CASE worker.pc = "next" /\ worker'.pc = "apply" /\ worker'.cur = i
  <2>1. worker' # worker
    BY <1>1
  <2>2. CASE WorkerClaims
    BY <1>1, <2>2 DEF WorkerClaims, Take
  <2>3. CASE WorkerDeadLetters
    BY <1>1, <2>3 DEF WorkerDeadLetters, Take
  <2>4. CASE WorkerSkips
    BY <1>1, <2>4 DEF WorkerSkips, QInv, QTypes, TypeOK
  <2>5. CASE WorkerEnds \/ Kill
    BY <1>1, <2>5 DEF WorkerEnds, Kill, Idle
  <2>6. WorkerClaims \/ WorkerDeadLetters \/ WorkerSkips \/ WorkerEnds \/ Kill
    BY <1>1, <2>1 DEF Next, DrainStep, WorkerStep, Rebuild, Write, DrainLists, DrainSubmits,
       DrainApplies, DrainAcks, DrainDeletes, DrainCollects, WorkerLists, RebuildReturns,
       RebuildPanics, WorkerAcks, WorkerDeletes, WorkerCollects, DupAcks, DupDeletes, DupCollects,
       BackoffElapses, ServePolls, WaiterReads, WaiterGivesUp, WaiterConsumes, engine
  <2> QED BY <2>2, <2>3, <2>4, <2>5, <2>6
<1>2. CASE drain.pc = "route" /\ drain'.pc = "ack" /\ drain'.cur = i
  <2>1. drain' # drain
    BY <1>2
  <2>2. CASE DrainApplies
    <3>1. Oldest(drain.todo) \in drain.todo
      BY <2>2, OldestIn DEF DrainApplies, QInv, QTypes, TypeOK
    <3> QED BY <1>2, <2>2, <3>1 DEF DrainApplies
  <2>3. CASE DrainLists \/ DrainSubmits
    BY <1>2, <2>3 DEF DrainLists, DrainSubmits, DrainIdle, QInv, QTypes, TypeOK
  <2>4. CASE Kill
    BY <1>2, <2>4 DEF Kill, DrainIdle
  <2>5. DrainApplies \/ DrainLists \/ DrainSubmits \/ Kill
    BY <1>2, <2>1 DEF Next, DrainStep, WorkerStep, Rebuild, Write, DrainAcks, DrainDeletes,
       DrainCollects, WorkerLists, WorkerEnds, WorkerSkips, WorkerDeadLetters, WorkerClaims,
       RebuildReturns, RebuildPanics, WorkerAcks, WorkerDeletes, WorkerCollects, DupAcks,
       DupDeletes, DupCollects, BackoffElapses, ServePolls, WaiterReads, WaiterGivesUp,
       WaiterConsumes, engine, workerFrame
  <2> QED BY <2>2, <2>3, <2>4, <2>5
<1> QED BY <1>1, <1>2 DEF Starts

(* A key that panicked is not started again before its backoff is over or  *)
(* a bucket was settled, on behalf of no request of the key.               *)
THEOREM PanickedKeyWaits == Spec => BackoffHolds
<1>1. QInv /\ [Next]_vars => [\A i \in Id : Starts(i) => \A j \in window : KeyOf[j] # KeyOf[i]]_vars
  <2> SUFFICES ASSUME QInv, Next, NEW i \in Id, Starts(i), NEW j \in window, KeyOf[j] = KeyOf[i]
               PROVE  FALSE
    OBVIOUS
  <2>1. /\ KeyOf[j] # Inline /\ attempts[j] >= 1 /\ backoff = "waiting"
        /\ j \in worker.todo \/ \A m \in worker.todo : KeyOf[m] # KeyOf[j]
    BY DEF QInv, BackoffInv
  <2>2. WorkerClaims /\ i = Survivor(Bucket)
    BY <2>1, StartIs
  <2>3. /\ i \in Bucket /\ i \in worker.todo
        /\ \A m \in Bucket : attempts[m] <= attempts[i]
        /\ \A m \in worker.todo \ Bucket : KeyOf[m] # KeyOf[i]
    BY <2>2, BucketOfOneKey DEF WorkerClaims, QInv
  <2>4. j \in Bucket
    BY <2>1, <2>3
  <2>5. attempts[j] \in 0..MaxAttempts /\ attempts[i] \in 0..MaxAttempts
    BY <2>3, <2>4 DEF QInv, QTypes, TypeOK, WorkerInv, Pending
  <2>6. attempts[i] >= 1
    BY <2>1, <2>3, <2>4, <2>5, BoundAssumption
  <2> QED BY <2>1, <2>2, <2>6 DEF WorkerClaims, Gated
<1> QED BY <1>1, SpecQInv, PTL DEF Spec, BackoffHolds

(* Only what is pending is started. *)
LEMMA StartedIsPending ==
    ASSUME QInv, Next, NEW i \in Id, Starts(i)
    PROVE  i \in Pending
<1>1. CASE WorkerClaims /\ i = Survivor(Bucket)
  BY <1>1, BucketOfOneKey DEF WorkerClaims, QInv, WorkerInv
<1>2. CASE DrainApplies /\ i \in drain.todo /\ KeyOf[i] = Inline
  BY <1>2 DEF QInv, DrainInv
<1> QED BY <1>1, <1>2, StartIs

(* An acknowledged request is not applied again, for itself or for the     *)
(* others of its bucket, whatever is killed when.  Only a waiter's reading *)
(* of the ack, which removes it, can make its request pending again.       *)
THEOREM UnawaitedNeverReapplied ==
    Spec => [][\A i \in Id \ Waits : Starts(i) => i \notin acked]_vars
<1>1. QInv /\ [Next]_vars => [\A i \in Id \ Waits : Starts(i) => i \notin acked]_vars
  BY StartedIsPending DEF QInv, AckedInv
<1> QED BY <1>1, SpecQInv, PTL DEF Spec

(* Where nobody waits that is every request. *)
THEOREM AckedIsNotReapplied ==
    ASSUME Waits = {}
    PROVE  Spec => AckedNeverReapplied
<1>1. QInv /\ [Next]_vars => [\A i \in Id : Starts(i) => i \notin acked]_vars
  BY StartedIsPending DEF QInv, AckedInv
<1> QED BY <1>1, SpecQInv, PTL DEF Spec, AckedNeverReapplied
=============================================================================
