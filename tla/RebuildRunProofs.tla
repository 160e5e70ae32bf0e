--------------------------- MODULE RebuildRunProofs ---------------------------
(***************************************************************************)
(* For every set of groups, rebuilds, repos and workers: rebuilds of a     *)
(* group exclude each other, a delete reaches the one that is registered,  *)
(* and a repo has one index at a time.  The invariant ties the semaphore   *)
(* to the goroutine that took it, its registration to the semaphore, and   *)
(* the goroutine of an index to the claim it holds.  For every number of   *)
(* slots the gate counts what it handed out, leaves no slot idle beside a  *)
(* ticket and lets tickets in by turn.                                     *)
(***************************************************************************)
EXTENDS RebuildRun, FiniteSetTheorems, SequenceTheorems, TLAPS

(* The goroutine that indexes holds the claim, alone, and no other does. *)
ClaimIsHeld ==
    \A t \in Task :
        /\ inner[t] = "indexing" => holders[RepoOf[t]] = {t}
        /\ t \in holders[RepoOf[t]] => inner[t] = "indexing"

(* The invariant, in parts by the variables they are about. *)
GroupInv == /\ sem \in [Group -> Run \cup {None}]
            /\ pc \in [Run -> {"none", "begun", "over"} \cup Underway]
            /\ cancels \in [Group -> Run \cup {None}]
            /\ cancelled \subseteq Run
            /\ OneRebuildPerGroup /\ CancelReachesIt
IndexInv == /\ inner \in [Task -> {"none", "asking", "wanting", "indexing", "over"}]
            /\ holders \in [Repo -> SUBSET Task]
            /\ ClaimIsHeld

(* A goroutine of an index starts only from the gate, and a worker of the  *)
(* pool only from a rebuild that looked its group up.                      *)
PoolInv ==
    /\ rpc \in [Run -> {"queued", "waiting", "ok", "failed"}]
    /\ outer \in [Task -> {"none", "pool", "gate", "running", "done"}]
    /\ \A r \in Run : rpc[r] = "queued" => pc[r] = "none"
    /\ \A t \in Task :
         /\ pc[RunOf[t]] \in {"none", "begun", "registered"} => outer[t] = "none"
         /\ outer[t] \in {"none", "pool", "gate"} => inner[t] = "none"

RInv == GroupInv /\ IndexInv /\ PoolInv

(* Nothing is under way at first. *)
LEMMA InitRInv == Init => RInv
BY RebuildAssumption
   DEF Init, RInv, GroupInv, IndexInv, PoolInv, OneRebuildPerGroup, CancelReachesIt, ClaimIsHeld,
       Claim!Init, Underway

(* The end of a rebuild takes back no registration but its own. *)
LEMMA EndKeeps ==
    ASSUME GroupInv, NEW r \in Run, pc[r] \in Underway, End(r), sem' = sem
    PROVE  GroupInv'
<1> USE RebuildAssumption
<1>1. /\ pc' \in [Run -> {"none", "begun", "over"} \cup Underway]
      /\ pc'[r] = "over" /\ \A q \in Run : q # r => pc'[q] = pc[q]
  BY DEF End, GroupInv
<1>2. cancels' \in [Group -> Run \cup {None}] /\ cancelled' = cancelled \cup {r}
  BY DEF End, GroupInv
<1>3. OneRebuildPerGroup'
  BY <1>1 DEF GroupInv, OneRebuildPerGroup, Underway
<1>4. \A q \in Run : cancels[GroupOf[q]] = q /\ q # r => cancels'[GroupOf[q]] = q
  BY DEF End, GroupInv
<1>5. CancelReachesIt'
  BY <1>1, <1>2, <1>4 DEF GroupInv, CancelReachesIt, Underway
<1> QED BY <1>1, <1>2, <1>3, <1>5 DEF GroupInv

(* Steps of a rebuild keep groups exclusive and registered rebuilds in     *)
(* reach.                                                                  *)
LEMMA RunStepKeeps ==
    ASSUME GroupInv, NEW r \in Run, RunStep(r)
    PROVE  GroupInv'
<1> USE RebuildAssumption
<1>1. CASE TakeSem(r)
  <2>1. /\ sem[GroupOf[r]] = None
        /\ \A q \in Run : GroupOf[q] = GroupOf[r] => pc[q] \notin {"begun"} \cup Underway
    BY <1>1 DEF TakeSem, GroupInv, OneRebuildPerGroup
  <2>2. /\ sem' \in [Group -> Run \cup {None}] /\ sem'[GroupOf[r]] = r
        /\ \A g \in Group : g # GroupOf[r] => sem'[g] = sem[g]
        /\ pc' \in [Run -> {"none", "begun", "over"} \cup Underway]
        /\ pc'[r] = "begun" /\ \A q \in Run : q # r => pc'[q] = pc[q]
        /\ cancels' = cancels /\ cancelled' = cancelled
    BY <1>1 DEF TakeSem, GroupInv, regVars
  <2>3. OneRebuildPerGroup'
    BY <2>1, <2>2 DEF GroupInv, OneRebuildPerGroup
  <2>4. CancelReachesIt'
    BY <2>2 DEF GroupInv, CancelReachesIt, Underway
  <2> QED BY <2>2, <2>3, <2>4 DEF GroupInv
<1>2. CASE RpcTimeout(r) \/ Answer(r)
  BY <1>2 DEF RpcTimeout, Answer, GroupInv, OneRebuildPerGroup, CancelReachesIt, regVars
<1>3. CASE ReleaseGuard(r)
  <2>1. /\ sem' \in [Group -> Run \cup {None}]
        /\ \A g \in Group : g # GroupOf[r] => sem'[g] = sem[g]
        /\ pc' = pc /\ cancels' = cancels /\ cancelled' = cancelled
    BY <1>3 DEF ReleaseGuard, GroupInv, regVars
  <2>2. \A q \in Run : GroupOf[q] = GroupOf[r] => pc[q] \notin {"begun"} \cup Underway
    BY <1>3 DEF ReleaseGuard, GroupInv, OneRebuildPerGroup, Underway
  <2>3. OneRebuildPerGroup'
    BY <2>1, <2>2 DEF GroupInv, OneRebuildPerGroup
  <2> QED BY <2>1, <2>3 DEF GroupInv, CancelReachesIt
<1>4. CASE Register(r)
  <2>1. /\ \A q \in Run : GroupOf[q] = GroupOf[r] /\ q # r => pc[q] \notin {"begun"} \cup Underway
        /\ sem[GroupOf[r]] = r
    BY <1>4 DEF Register, GroupInv, OneRebuildPerGroup
  <2>2. /\ sem' = sem
        /\ pc' \in [Run -> {"none", "begun", "over"} \cup Underway]
        /\ pc'[r] = "registered" /\ \A q \in Run : q # r => pc'[q] = pc[q]
        /\ cancels' \in [Group -> Run \cup {None}] /\ cancels'[GroupOf[r]] = r
        /\ \A g \in Group : g # GroupOf[r] => cancels'[g] = cancels[g]
        /\ cancelled \subseteq cancelled' /\ cancelled' \subseteq Run
    BY <1>4 DEF Register, GroupInv, rpcVars, Underway
  <2>3. OneRebuildPerGroup'
    BY <2>1, <2>2 DEF GroupInv, OneRebuildPerGroup
  <2>4. CancelReachesIt'
    BY <2>1, <2>2 DEF GroupInv, CancelReachesIt
  <2> QED BY <2>2, <2>3, <2>4 DEF GroupInv
<1>5. CASE StartRepos(r)
  <2>1. CASE End(r)
    BY <1>5, <2>1, EndKeeps DEF StartRepos, rpcVars, Underway
  <2>2. CASE ~ End(r)
    <3>1. /\ pc[r] = "registered" /\ pc' = [pc EXCEPT ![r] = "repos"]
          /\ sem' = sem /\ cancels' = cancels /\ cancelled' = cancelled
      BY <1>5, <2>2 DEF StartRepos, rpcVars
    <3> QED BY <3>1 DEF GroupInv, OneRebuildPerGroup, CancelReachesIt, Underway
  <2> QED BY <2>1, <2>2
<1>6. CASE ReposDone(r)
  <2>1. CASE End(r)
    BY <1>6, <2>1, EndKeeps DEF ReposDone, rpcVars, Underway
  <2>2. CASE ~ End(r)
    <3>1. /\ pc[r] = "repos" /\ pc' = [pc EXCEPT ![r] = "links"]
          /\ sem' = sem /\ cancels' = cancels /\ cancelled' = cancelled
      BY <1>6, <2>2 DEF ReposDone, rpcVars, regVars
    <3> QED BY <3>1 DEF GroupInv, OneRebuildPerGroup, CancelReachesIt, Underway
  <2> QED BY <2>1, <2>2
<1>7. CASE LinksDone(r)
  BY <1>7, EndKeeps DEF LinksDone, rpcVars, Underway
<1> QED BY <1>1, <1>2, <1>3, <1>4, <1>5, <1>6, <1>7 DEF RunStep

(* A delete takes a registration away only as it cancels it. *)
LEMMA GroupStepKeeps ==
    ASSUME GroupInv, NEW g \in Group, DeleteGroup(g) \/ RemoveGroup(g) \/ CreateGroup(g)
    PROVE  GroupInv'
<1> USE RebuildAssumption
<1>1. CASE DeleteGroup(g)
  <2>1. /\ sem' = sem /\ pc' = pc
        /\ cancels' \in [Group -> Run \cup {None}]
        /\ cancelled' = cancelled \cup ({cancels[g]} \ {None})
        /\ \A h \in Group : h # g => cancels'[h] = cancels[h]
    BY <1>1 DEF DeleteGroup, GroupInv, rpcVars
  <2>2. cancelled' \subseteq Run
    BY <2>1 DEF GroupInv
  <2>3. CancelReachesIt'
    BY <2>1 DEF GroupInv, CancelReachesIt
  <2> QED BY <2>1, <2>2, <2>3 DEF GroupInv, OneRebuildPerGroup
<1>2. CASE RemoveGroup(g) \/ CreateGroup(g)
  BY <1>2 DEF RemoveGroup, CreateGroup, rpcVars, GroupInv, OneRebuildPerGroup, CancelReachesIt
<1> QED BY <1>1, <1>2

(* Steps of a repo's worker and of its index leave the groups alone.       *)
LEMMA TaskLeavesGroups ==
    ASSUME NEW t \in Task, TaskStep(t)
    PROVE  UNCHANGED <<sem, pc, cancels, cancelled>>
BY DEF TaskStep, WorkerStep, ToGate, StartIndex, RepoTimeout, Collect, AskClaim, GetClaim,
       IndexEnds, rpcVars, regVars

(* The claim goes to one index at a time, and back when it ends. *)
LEMMA TaskStepKeeps ==
    ASSUME IndexInv, PoolInv, NEW t \in Task, TaskStep(t)
    PROVE  IndexInv'
<1> USE RebuildAssumption
<1>1. CASE ToGate(t) \/ RepoTimeout(t) \/ \E result \in {"ok", "err"} : Collect(t, result)
  BY <1>1 DEF ToGate, RepoTimeout, Collect, claimVars, IndexInv, ClaimIsHeld
<1>2. CASE StartIndex(t)
  <2>1. holders' = holders
    BY <1>2 DEF StartIndex, claimVars
  <2>2. CASE UNCHANGED inner
    BY <2>1, <2>2 DEF IndexInv, ClaimIsHeld
  <2>3. CASE inner[t] = "none" /\ inner' = [inner EXCEPT ![t] = "asking"]
    BY <2>1, <2>3 DEF IndexInv, ClaimIsHeld
  <2> QED BY <1>2, <2>2, <2>3 DEF StartIndex, PoolInv
<1>3. CASE AskClaim(t)
  <2>1. /\ inner[t] = "asking"
        /\ inner' = [inner EXCEPT ![t] = IF t \in holders'[RepoOf[t]] THEN "indexing" ELSE "wanting"]
        /\ Claim!Take(t, RepoOf[t]) \/ UNCHANGED holders
    BY <1>3 DEF AskClaim, Claim!Ask
  <2>2. CASE Claim!Take(t, RepoOf[t])
    BY <2>1, <2>2 DEF Claim!Take, IndexInv, ClaimIsHeld
  <2>3. CASE UNCHANGED holders
    BY <2>1, <2>3 DEF IndexInv, ClaimIsHeld
  <2> QED BY <2>1, <2>2, <2>3
<1>4. CASE GetClaim(t)
  BY <1>4 DEF GetClaim, Claim!Get, Claim!Take, IndexInv, ClaimIsHeld
<1>5. CASE IndexEnds(t)
  BY <1>5 DEF IndexEnds, Claim!GiveBack, IndexInv, ClaimIsHeld
<1> QED BY <1>1, <1>2, <1>3, <1>4, <1>5 DEF TaskStep, WorkerStep

(* All other steps leave the indexes alone. *)
LEMMA OthersLeaveIndexes ==
    ASSUME \/ \E r \in Run : RunStep(r)
           \/ \E g \in Group : DeleteGroup(g) \/ RemoveGroup(g) \/ CreateGroup(g)
    PROVE  UNCHANGED <<inner, holders>>
BY DEF RunStep, TakeSem, RpcTimeout, Answer, ReleaseGuard, Register, StartRepos, ReposDone,
       LinksDone, DeleteGroup, RemoveGroup, CreateGroup, taskVars, claimVars

(* Workers and goroutines start in their order. *)
LEMMA PoolKeeps ==
    ASSUME RInv, Next
    PROVE  PoolInv'
<1> USE RebuildAssumption DEF RInv, GroupInv, IndexInv, PoolInv
<1>1. ASSUME NEW r \in Run, RunStep(r), ~ StartRepos(r)
      PROVE  PoolInv'
  <2>1. outer' = outer /\ inner' = inner
    BY <1>1 DEF RunStep, TakeSem, RpcTimeout, Answer, ReleaseGuard, Register, ReposDone,
                LinksDone, taskVars
  <2>2. /\ rpc' \in [Run -> {"queued", "waiting", "ok", "failed"}]
        /\ \A q \in Run : rpc'[q] = "queued" => rpc[q] = "queued" /\ pc'[q] = pc[q]
        /\ \A q \in Run : pc'[q] \in {"none", "begun", "registered"}
                             => pc[q] \in {"none", "begun", "registered"}
    <3>1. CASE TakeSem(r)
      BY <3>1 DEF TakeSem
    <3>2. CASE RpcTimeout(r) \/ Answer(r) \/ ReleaseGuard(r)
      BY <3>2 DEF RpcTimeout, Answer, ReleaseGuard, rpcVars
    <3>3. CASE Register(r)
      BY <3>3 DEF Register, rpcVars
    <3>4. CASE ReposDone(r) \/ LinksDone(r)
      <4>1. /\ rpc' = rpc /\ pc[r] \in {"repos", "links"}
            /\ pc' \in {[pc EXCEPT ![r] = "over"], [pc EXCEPT ![r] = "links"]}
        BY <3>4 DEF ReposDone, LinksDone, End, rpcVars
      <4> QED BY <4>1
    <3> QED BY <1>1, <3>1, <3>2, <3>3, <3>4 DEF RunStep
  <2> QED BY <2>1, <2>2
<1>2. ASSUME NEW r \in Run, StartRepos(r)
      PROVE  PoolInv'
  <2>1. /\ pc[r] = "registered" /\ rpc' = rpc /\ inner' = inner
        /\ \/ /\ pc' = [pc EXCEPT ![r] = "repos"]
              /\ outer' = [t \in Task |-> IF RunOf[t] = r THEN "pool" ELSE outer[t]]
           \/ pc' = [pc EXCEPT ![r] = "over"] /\ outer' = outer
    BY <1>2 DEF StartRepos, End, rpcVars
  <2> QED BY <2>1
<1>3. ASSUME NEW t \in Task, TaskStep(t)
      PROVE  PoolInv'
  <2>1. pc' = pc /\ rpc' = rpc
    BY <1>3 DEF TaskStep, WorkerStep, ToGate, StartIndex, RepoTimeout, Collect, AskClaim,
                GetClaim, IndexEnds, rpcVars
  <2>2. CASE ToGate(t)
    BY <2>1, <2>2 DEF ToGate
  <2>3. CASE StartIndex(t)
    BY <2>1, <2>3 DEF StartIndex, Settle
  <2>4. CASE RepoTimeout(t) \/ \E result \in {"ok", "err"} : Collect(t, result)
    BY <2>1, <2>4 DEF RepoTimeout, Collect, Settle
  <2>5. CASE AskClaim(t) \/ GetClaim(t) \/ IndexEnds(t)
    <3>1. /\ outer' = outer /\ inner[t] # "none"
          /\ \A u \in Task : u # t => inner'[u] = inner[u]
      BY <2>5 DEF AskClaim, GetClaim, IndexEnds
    <3> QED BY <2>1, <3>1
  <2> QED BY <1>3, <2>2, <2>3, <2>4, <2>5 DEF TaskStep, WorkerStep
<1>4. ASSUME NEW g \in Group, DeleteGroup(g) \/ RemoveGroup(g) \/ CreateGroup(g)
      PROVE  PoolInv'
  BY <1>4 DEF DeleteGroup, RemoveGroup, CreateGroup, rpcVars, taskVars
<1>5. CASE Finished
  BY <1>5 DEF Finished, vars, rpcVars, taskVars
<1> QED BY <1>1, <1>2, <1>3, <1>4, <1>5 DEF Next

(* Every step keeps the invariant. *)
LEMMA NextRInv == RInv /\ [Next]_vars => RInv'
<1> SUFFICES ASSUME RInv, [Next]_vars PROVE RInv'
  OBVIOUS
<1>0. PoolInv'
  <2>1. CASE Next
    BY <2>1, PoolKeeps
  <2>2. CASE UNCHANGED vars
    BY <2>2 DEF vars, rpcVars, taskVars, RInv, PoolInv
  <2> QED BY <2>1, <2>2
<1>1. ASSUME UNCHANGED <<inner, holders>> PROVE IndexInv'
  BY <1>1 DEF RInv, IndexInv, ClaimIsHeld
<1>2. ASSUME UNCHANGED <<sem, pc, cancels, cancelled>> PROVE GroupInv'
  BY <1>2 DEF RInv, GroupInv, OneRebuildPerGroup, CancelReachesIt
<1>3. CASE UNCHANGED vars
  BY <1>0, <1>1, <1>2, <1>3 DEF vars, rpcVars, regVars, taskVars, claimVars, RInv
<1>4. CASE \E r \in Run : RunStep(r)
  BY <1>0, <1>1, <1>4, RunStepKeeps, OthersLeaveIndexes DEF RInv
<1>5. CASE \E g \in Group : DeleteGroup(g) \/ RemoveGroup(g) \/ CreateGroup(g)
  BY <1>0, <1>1, <1>5, GroupStepKeeps, OthersLeaveIndexes DEF RInv
<1>6. CASE \E t \in Task : TaskStep(t)
  BY <1>0, <1>2, <1>6, TaskStepKeeps, TaskLeavesGroups DEF RInv
<1> QED BY <1>3, <1>4, <1>5, <1>6 DEF Next, Finished

(* Rebuilds of a group are one at a time, in reach of a delete, and a repo *)
(* has one index at a time, for any number of each.                        *)
THEOREM Exclusive == Spec => []RebuildsExclusive
<1>1. ASSUME RInv PROVE RebuildsExclusive
  <2>1. ASSUME NEW t \in Task, NEW u \in Task,
               inner[t] = "indexing", inner[u] = "indexing", RepoOf[t] = RepoOf[u]
        PROVE  t = u
    <3>1. holders[RepoOf[t]] = {t} /\ holders[RepoOf[u]] = {u}
      BY <1>1, <2>1 DEF RInv, IndexInv, ClaimIsHeld
    <3> QED BY <2>1, <3>1
  <2>2. OneIndexPerRepo
    BY <2>1 DEF OneIndexPerRepo
  <2> QED BY <1>1, <2>2 DEF RInv, GroupInv, RebuildsExclusive
<1> QED BY InitRInv, NextRInv, <1>1, PTL DEF Spec

-----------------------------------------------------------------------------
(* The gate.  A queue is taken apart into what a release wakes and what    *)
(* stays behind.                                                           *)

(* The least and the greatest of two naturals. *)
LEMMA OfTwo ==
    ASSUME NEW a \in Int, NEW b \in Int
    PROVE  /\ Min({a, b}) = IF a <= b THEN a ELSE b
           /\ Max({a, b}) = IF a >= b THEN a ELSE b
<1>1. PICK x \in {a, b} : \A y \in {a, b} : x <= y
  OBVIOUS
<1>2. Min({a, b}) \in {a, b} /\ \A y \in {a, b} : Min({a, b}) <= y
  BY <1>1 DEF Min
<1>3. PICK z \in {a, b} : \A y \in {a, b} : z >= y
  OBVIOUS
<1>4. Max({a, b}) \in {a, b} /\ \A y \in {a, b} : Max({a, b}) >= y
  BY <1>3 DEF Max
<1> QED BY <1>2, <1>4

(* How many tickets get in: as many as wait, or as there is room for. *)
LEMMA HowMany ==
    ASSUME NEW S, NEW q \in Seq(S), NEW n \in Int, NEW limit \in Int
    PROVE  Admitted(q, n, limit) =
              IF limit <= n THEN 0
              ELSE IF Len(q) <= limit - n THEN Len(q) ELSE limit - n
<1>1. PICK d \in Int : d = limit - n
  OBVIOUS
<1>2. 0 \in Int
  OBVIOUS
<1>3. PICK m : m = Max({d, 0})
  OBVIOUS
<1>6. m = IF d >= 0 THEN d ELSE 0
  BY <1>2, <1>3, OfTwo
<1>4. Len(q) \in Int /\ Len(q) >= 0
  OBVIOUS
<1>5. Min({Len(q), m}) = IF Len(q) <= m THEN Len(q) ELSE m
  BY <1>2, <1>4, <1>6, OfTwo
<1> QED BY <1>1, <1>3, <1>4, <1>5, <1>6 DEF Admitted

(* A queue is what is woken of it and what stays behind, in order. *)
LEMMA WokenAndBehind ==
    ASSUME NEW S, NEW q \in Seq(S), IsInjective(q), NEW n \in 0..Len(q)
    PROVE  /\ Behind(q, n) \in Seq(S) /\ IsInjective(Behind(q, n))
           /\ Behind(q, n) = <<>> <=> n = Len(q)
           /\ Woken(q, n) = {q[i] : i \in 1..n}
           /\ ToSet(Behind(q, n)) = {q[i] : i \in n+1..Len(q)}
           /\ IsFiniteSet(Woken(q, n)) /\ Cardinality(Woken(q, n)) = n
<1>1. /\ Len(q) \in Nat /\ DOMAIN q = 1..Len(q)
      /\ \A i \in 1..Len(q) : q[i] \in S
  OBVIOUS
<1> DEFINE b == SubSeq(q, n + 1, Len(q))
           w == SubSeq(q, 1, n)
<1>2. /\ b \in Seq(S) /\ Len(b) = Len(q) - n
      /\ \A i \in 1..Len(q) - n : b[i] = q[n + i]
  <2>1. n + 1 \in Int /\ Len(q) \in Int /\ \A i \in n + 1..Len(q) : q[i] \in S
    BY <1>1
  <2>2. /\ b \in Seq(S)
        /\ Len(b) = IF n + 1 <= Len(q) THEN Len(q) - (n + 1) + 1 ELSE 0
        /\ \A i \in 1..Len(q) - (n + 1) + 1 : b[i] = q[(n + 1) + i - 1]
    BY <2>1, SubSeqProperties
  <2>3. \A i \in 1..Len(q) - n : b[i] = q[n + i]
    <3> TAKE i \in 1..Len(q) - n
    <3>1. i \in 1..Len(q) - (n + 1) + 1 /\ (n + 1) + i - 1 = n + i
      BY <1>1
    <3> HIDE DEF b
    <3> QED BY <2>2, <3>1
  <2> HIDE DEF b
  <2> QED BY <1>1, <2>2, <2>3
<1>3. /\ w \in Seq(S) /\ Len(w) = n
      /\ \A i \in 1..n : w[i] = q[i]
  <2>1. 1 \in Int /\ n \in Int /\ \A i \in 1..n : q[i] \in S
    BY <1>1
  <2>2. /\ w \in Seq(S)
        /\ Len(w) = IF 1 <= n THEN n - 1 + 1 ELSE 0
        /\ \A i \in 1..n - 1 + 1 : w[i] = q[1 + i - 1]
    BY <2>1, SubSeqProperties
  <2>3. \A i \in 1..n : w[i] = q[i]
    <3> TAKE i \in 1..n
    <3>1. i \in 1..n - 1 + 1 /\ 1 + i - 1 = i
      BY <1>1
    <3> HIDE DEF w
    <3> QED BY <2>2, <3>1
  <2> HIDE DEF w
  <2> QED BY <1>1, <2>2, <2>3
<1>10. Behind(q, n) = b /\ Woken(q, n) = ToSet(w)
  BY DEF Behind, Woken
<1> HIDE DEF b, w
<1>4. DOMAIN b = 1..Len(q) - n /\ DOMAIN w = 1..n
  BY <1>2, <1>3
<1>5. IsInjective(b)
  <2> SUFFICES ASSUME NEW i \in 1..Len(q) - n, NEW j \in 1..Len(q) - n, b[i] = b[j]
               PROVE  i = j
    BY <1>4 DEF IsInjective
  <2>1. n + i \in 1..Len(q) /\ n + j \in 1..Len(q) /\ i \in Int /\ j \in Int /\ n \in Int
    BY <1>1
  <2>2. q[n + i] = q[n + j]
    BY <1>2
  <2>3. n + i = n + j
    BY <1>1, <2>1, <2>2 DEF IsInjective
  <2> QED BY <2>1, <2>3
<1>6. Woken(q, n) = {q[i] : i \in 1..n}
  BY <1>3, <1>4, <1>10 DEF ToSet
<1>7. ToSet(b) = {q[i] : i \in n+1..Len(q)}
  <2>1. \A i \in n+1..Len(q) : i - n \in 1..Len(q) - n /\ n + (i - n) = i
    BY <1>1
  <2>2. \A i \in n+1..Len(q) : b[i - n] = q[i]
    <3> TAKE i \in n+1..Len(q)
    <3>1. PICK k : k = i - n /\ k \in 1..Len(q) - n /\ n + k = i
      BY <2>1
    <3> QED BY <1>2, <3>1
  <2>3. \A i \in 1..Len(q) - n : n + i \in n+1..Len(q)
    BY <1>1
  <2>4. \A x \in ToSet(b) : \E i \in n+1..Len(q) : x = q[i]
    BY <1>2, <1>4, <2>3 DEF ToSet
  <2>5. \A i \in n+1..Len(q) : q[i] \in ToSet(b)
    BY <1>4, <2>1, <2>2 DEF ToSet
  <2> QED BY <2>4, <2>5
<1>8. IsFiniteSet(Woken(q, n)) /\ Cardinality(Woken(q, n)) = n
  <2>1. w \in Bijection(1..n, Woken(q, n))
    <3>1. w \in [1..n -> Woken(q, n)]
      <4>1. w = [i \in 1..n |-> w[i]]
        BY <1>3, <1>4
      <4>2. \A i \in 1..n : w[i] \in Woken(q, n)
        BY <1>3, <1>6
      <4> QED BY <4>1, <4>2, Zenon
    <3>2. IsInjective(w)
      BY <1>1, <1>3, <1>4 DEF IsInjective
    <3>3. \A x \in Woken(q, n) : \E i \in 1..n : w[i] = x
      BY <1>3, <1>6
    <3> QED BY <3>1, <3>2, <3>3 DEF Bijection, Injection, Surjection
  <2>2. ExistsBijection(1..n, Woken(q, n))
    BY <2>1 DEF ExistsBijection
  <2>3. IsFiniteSet(1..n) /\ Cardinality(1..n) = n
    BY FS_Interval
  <2> QED BY <2>2, <2>3, FS_Bijection
<1>9. b = <<>> <=> n = Len(q)
  <2>1. b = <<>> => Len(b) = 0
    OBVIOUS
  <2>2. b # <<>> => Len(b) \in Nat \ {0}
    BY <1>2, EmptySeq
  <2>3. n = Len(q) <=> Len(q) - n = 0
    BY <1>1
  <2> QED BY <1>2, <2>1, <2>2, <2>3
<1> QED BY <1>2, <1>5, <1>6, <1>7, <1>8, <1>9, <1>10

(* Where the elements of two sequences are in their concatenation. *)
LEMMA ConcatAt ==
    ASSUME NEW P, NEW Q, NEW p \in Seq(P), NEW q \in Seq(Q)
    PROVE  /\ DOMAIN (p \o q) = 1..Len(p) + Len(q)
           /\ \A i \in 1..Len(p) : i \in DOMAIN (p \o q) /\ (p \o q)[i] = p[i]
           /\ \A i \in 1..Len(q) : /\ Len(p) + i \in DOMAIN (p \o q)
                                   /\ (p \o q)[Len(p) + i] = q[i]
<1>1. Len(p) \in Nat /\ Len(q) \in Nat
  OBVIOUS
<1>2. p \in Seq(P \cup Q) /\ q \in Seq(P \cup Q)
  BY SeqMonotonic
<1> DEFINE c == p \o q
<1>3. /\ DOMAIN c = 1..Len(p) + Len(q)
      /\ \A i \in 1..Len(p) + Len(q) : c[i] = IF i <= Len(p) THEN p[i] ELSE q[i - Len(p)]
  BY <1>2, ConcatProperties, LenProperties
<1> HIDE DEF c
<1>4. \A i \in 1..Len(p) : i \in 1..Len(p) + Len(q) /\ i <= Len(p)
  BY <1>1
<1>5. \A i \in 1..Len(q) : /\ Len(p) + i \in 1..Len(p) + Len(q)
                          /\ ~ Len(p) + i <= Len(p) /\ (Len(p) + i) - Len(p) = i
  BY <1>1
<1>6. \A i \in 1..Len(p) : i \in DOMAIN c /\ c[i] = p[i]
  BY <1>3, <1>4
<1>7. \A i \in 1..Len(q) : Len(p) + i \in DOMAIN c /\ c[Len(p) + i] = q[i]
  <2> TAKE i \in 1..Len(q)
  <2>1. PICK k : k = Len(p) + i /\ k \in 1..Len(p) + Len(q) /\ ~ k <= Len(p) /\ k - Len(p) = i
    BY <1>5
  <2> QED BY <1>3, <2>1
<1> QED BY <1>3, <1>6, <1>7 DEF c

(* The two queues hold different tasks, and each holds one once. *)
LEMMA QueuesApart ==
    ASSUME NEW p \in Seq(Foreground), NEW q \in Seq(Task \ Foreground)
    PROVE  /\ IsInjective(p \o q) <=> IsInjective(p) /\ IsInjective(q)
           /\ ToSet(p \o q) = ToSet(p) \cup ToSet(q)
           /\ ToSet(p) \subseteq Foreground /\ ToSet(q) \subseteq Task \ Foreground
           /\ p \o q = <<>> <=> p = <<>> /\ q = <<>>
<1>1. /\ Len(p) \in Nat /\ DOMAIN p = 1..Len(p) /\ \A i \in 1..Len(p) : p[i] \in Foreground
      /\ Len(q) \in Nat /\ DOMAIN q = 1..Len(q) /\ \A i \in 1..Len(q) : q[i] \in Task \ Foreground
  OBVIOUS
<1>2. p \in Seq(Task) /\ q \in Seq(Task)
  BY <1>1, TaskAssumption, SeqMonotonic
<1> DEFINE c == p \o q
<1>3. c = <<>> <=> p = <<>> /\ q = <<>>
  BY <1>2, ConcatEqualIffEmpty, ConcatSimplifications
<1>4. DOMAIN c = 1..Len(p) + Len(q)
  BY ConcatAt
<1>5. /\ \A i \in 1..Len(p) : i \in DOMAIN c /\ c[i] = p[i]
      /\ \A i \in 1..Len(q) : Len(p) + i \in DOMAIN c /\ c[Len(p) + i] = q[i]
  BY ConcatAt
<1> HIDE DEF c
<1>6. \A i \in DOMAIN c : \/ i \in 1..Len(p) /\ c[i] = p[i]
                          \/ i - Len(p) \in 1..Len(q) /\ c[i] = q[i - Len(p)]
  <2> TAKE i \in DOMAIN c
  <2>1. CASE i \in 1..Len(p)
    BY <1>5, <2>1
  <2>2. CASE i \notin 1..Len(p)
    <3>1. PICK k : k = i - Len(p) /\ k \in 1..Len(q) /\ Len(p) + k = i
      BY <1>1, <1>4, <2>2
    <3> QED BY <1>5, <3>1
  <2> QED BY <2>1, <2>2
<1>7. IsInjective(c) => IsInjective(p) /\ IsInjective(q)
  <2> SUFFICES ASSUME IsInjective(c) PROVE IsInjective(p) /\ IsInjective(q)
    OBVIOUS
  <2>1. IsInjective(p)
    BY <1>1, <1>5 DEF IsInjective
  <2>2. ASSUME NEW i \in 1..Len(q), NEW j \in 1..Len(q), q[i] = q[j] PROVE i = j
    <3>1. Len(p) + i = Len(p) + j
      BY <1>5, <2>2 DEF IsInjective
    <3> QED BY <1>1, <3>1
  <2> QED BY <1>1, <2>1, <2>2 DEF IsInjective
<1>8. IsInjective(p) /\ IsInjective(q) => IsInjective(c)
  <2> SUFFICES ASSUME IsInjective(p), IsInjective(q),
                      NEW i \in DOMAIN c, NEW j \in DOMAIN c, c[i] = c[j]
               PROVE  i = j
    BY DEF IsInjective
  <2>1. i \in Int /\ j \in Int
    BY <1>1, <1>4
  <2>2. CASE i \in 1..Len(p) /\ j \in 1..Len(p)
    BY <1>1, <1>5, <2>2 DEF IsInjective
  <2>3. CASE i - Len(p) \in 1..Len(q) /\ j - Len(p) \in 1..Len(q)
    <3>1. q[i - Len(p)] = q[j - Len(p)]
      <4>1. PICK k, l : /\ k = i - Len(p) /\ l = j - Len(p)
                        /\ Len(p) + k = i /\ Len(p) + l = j
        BY <1>1, <2>1
      <4> QED BY <1>5, <2>3, <4>1
    <3>2. i - Len(p) = j - Len(p)
      BY <1>1, <2>3, <3>1 DEF IsInjective
    <3> QED BY <1>1, <2>1, <3>2
  <2> QED BY <1>1, <1>6, <2>2, <2>3
<1>9. ToSet(c) = ToSet(p) \cup ToSet(q)
  <2>1. \A x \in ToSet(c) : x \in ToSet(p) \cup ToSet(q)
    BY <1>1, <1>6 DEF ToSet
  <2>2. \A x \in ToSet(p) : x \in ToSet(c)
    BY <1>1, <1>5 DEF ToSet
  <2>3. \A x \in ToSet(q) : x \in ToSet(c)
    <3> TAKE x \in ToSet(q)
    <3>1. PICK i \in 1..Len(q) : x = q[i]
      BY <1>1 DEF ToSet
    <3>2. Len(p) + i \in DOMAIN c /\ c[Len(p) + i] = x
      BY <1>5, <3>1
    <3> QED BY <3>2 DEF ToSet
  <2> QED BY <2>1, <2>2, <2>3
<1>11. ToSet(p) \subseteq Foreground /\ ToSet(q) \subseteq Task \ Foreground
  BY <1>1 DEF ToSet
<1> QED BY <1>3, <1>7, <1>8, <1>9, <1>11 DEF c

(* Disjoint finite sets add up. *)
LEMMA DisjointUnion ==
    ASSUME NEW A, NEW B, IsFiniteSet(A), IsFiniteSet(B), A \cap B = {}
    PROVE  /\ IsFiniteSet(A \cup B)
           /\ Cardinality(A \cup B) = Cardinality(A) + Cardinality(B)
<1>1. Cardinality(A \cap B) = 0
  BY FS_EmptySet
<1>2. Cardinality(A) \in Nat /\ Cardinality(B) \in Nat
  BY FS_CardinalityType
<1>3. /\ IsFiniteSet(A \cup B)
      /\ Cardinality(A \cup B) = Cardinality(A) + Cardinality(B) - Cardinality(A \cap B)
  BY FS_Union
<1> QED BY <1>1, <1>2, <1>3

(* The gate's invariant: its counts and queues, and that slots do not idle. *)
GateInv == GateTypeOK /\ IsFiniteSet(held) /\ GateExact /\ NoIdleSlot

(* Everybody who was let in or waits for it. *)
AtTheGate == held \cup ToSet(fg) \cup ToSet(bg)

(* What the invariant says of the queues and the counts, one by one. *)
LEMMA GateFacts ==
    ASSUME GateInv
    PROVE  /\ fg \in Seq(Foreground) /\ bg \in Seq(Task \ Foreground)
           /\ IsInjective(fg) /\ IsInjective(bg)
           /\ held \cap ToSet(fg) = {} /\ held \cap ToSet(bg) = {}
           /\ ToSet(fg) \subseteq Foreground /\ ToSet(bg) \subseteq Task \ Foreground
           /\ held \subseteq Task /\ IsFiniteSet(held)
           /\ Cardinality(held) = active /\ Cardinality(held \cap Foreground) = fgActive
           /\ active \in 0..Cap /\ fgActive \in Nat
           /\ fg # <<>> \/ bg # <<>> => active = Cap
BY QueuesApart, CapAssumption DEF GateInv, GateTypeOK, GateExact, NoIdleSlot

(* The converse, for the state after a step. *)
LEMMA GateHolds ==
    ASSUME fg' \in Seq(Foreground), bg' \in Seq(Task \ Foreground),
           IsInjective(fg'), IsInjective(bg'),
           held' \cap ToSet(fg') = {}, held' \cap ToSet(bg') = {},
           held' \subseteq Task, IsFiniteSet(held'),
           Cardinality(held') = active', Cardinality(held' \cap Foreground) = fgActive',
           active' \in 0..Cap, fgActive' \in Nat,
           fg' # <<>> \/ bg' # <<>> => active' = Cap
    PROVE  GateInv'
<1>1. PICK p \in Seq(Foreground) : p = fg'
  OBVIOUS
<1>2. PICK q \in Seq(Task \ Foreground) : q = bg'
  OBVIOUS
<1>3. /\ IsInjective(p \o q) /\ ToSet(p \o q) = ToSet(p) \cup ToSet(q)
      /\ p \o q = <<>> <=> p = <<>> /\ q = <<>>
  BY <1>1, <1>2, QueuesApart
<1>4. IsInjective(fg' \o bg') /\ held' \cap ToSet(fg' \o bg') = {}
  BY <1>1, <1>2, <1>3
<1>5. fg' \o bg' # <<>> => active' = Cap
  BY <1>1, <1>2, <1>3
<1> QED BY <1>4, <1>5, CapAssumption DEF GateInv, GateTypeOK, GateExact, NoIdleSlot

(* A ticket joins the end of its queue. *)
LEMMA JoinsQueue ==
    ASSUME NEW S, NEW q \in Seq(S), IsInjective(q), NEW t \in S, t \notin ToSet(q)
    PROVE  /\ Append(q, t) \in Seq(S) /\ IsInjective(Append(q, t))
           /\ ToSet(Append(q, t)) = ToSet(q) \cup {t}
<1>1. /\ Len(q) \in Nat /\ DOMAIN q = 1..Len(q)
      /\ \A i \in 1..Len(q) : q[i] \in S /\ q[i] # t
  BY DEF ToSet
<1>2. PICK a : a = Append(q, t)
  OBVIOUS
<1>3. /\ a \in Seq(S) /\ DOMAIN a = 1..Len(q) + 1 /\ a[Len(q) + 1] = t
      /\ \A i \in 1..Len(q) : a[i] = q[i]
  BY <1>1, <1>2
<1>4. \A i \in 1..Len(q) + 1 : i \in 1..Len(q) \/ i = Len(q) + 1
  BY <1>1
<1>5. \A i \in 1..Len(q) : i \in 1..Len(q) + 1
  BY <1>1
<1>6. Len(q) + 1 \in 1..Len(q) + 1
  BY <1>1
<1>7. IsInjective(a)
  <2> SUFFICES ASSUME NEW i \in DOMAIN a, NEW j \in DOMAIN a, a[i] = a[j] PROVE i = j
    BY DEF IsInjective
  <2>1. CASE i \in 1..Len(q) /\ j \in 1..Len(q)
    BY <1>1, <1>3, <2>1 DEF IsInjective
  <2> QED BY <1>1, <1>3, <1>4, <2>1
<1>8. ToSet(a) = ToSet(q) \cup {t}
  <2>1. \A x \in ToSet(a) : x \in ToSet(q) \cup {t}
    BY <1>1, <1>3, <1>4 DEF ToSet
  <2>2. \A x \in ToSet(q) : x \in ToSet(a)
    BY <1>1, <1>3, <1>5 DEF ToSet
  <2>3. t \in ToSet(a)
    BY <1>3, <1>6 DEF ToSet
  <2> QED BY <2>1, <2>2, <2>3
<1> QED BY <1>2, <1>3, <1>7, <1>8

(* An acquirer is let in, or joins the queue of its class when no slot is  *)
(* free for it.                                                            *)
LEMMA AcquireKeeps ==
    ASSUME GateInv, NEW t \in Task, t \notin AtTheGate, Acquire(t)
    PROVE  /\ GateInv' /\ AtTheGate' = AtTheGate \cup {t} /\ held \subseteq held'
           /\ t \in held' => fg = <<>> /\ bg = <<>> /\ held' = held \cup {t}
           /\ t \notin held' => held' = held
<1> USE GateFacts, CapAssumption, TaskAssumption
<1>0. t \notin held /\ t \notin ToSet(fg) /\ t \notin ToSet(bg)
  BY DEF AtTheGate
<1>1. CASE canAdmit(t)
  <2>1. /\ held' = held \cup {t} /\ active' = active + 1 /\ fg' = fg /\ bg' = bg
        /\ fgActive' = fgActive + Cardinality({t} \cap Foreground)
    BY <1>1 DEF Acquire
  <2>2. active < Cap
    BY <1>1 DEF canAdmit, BgLimit, reserveForForeground
  <2>3. fg = <<>> /\ bg = <<>>
    BY <2>2
  <2>4. IsFiniteSet(held') /\ Cardinality(held') = active'
    BY <1>0, <2>1, FS_AddElement
  <2>5. Cardinality(held' \cap Foreground) = fgActive' /\ fgActive' \in Nat
    <3>1. IsFiniteSet(held \cap Foreground) /\ t \notin held \cap Foreground
      BY <1>0, FS_Subset
    <3>2. CASE t \in Foreground
      <4>1. held' \cap Foreground = (held \cap Foreground) \cup {t} /\ {t} \cap Foreground = {t}
        BY <2>1, <3>2
      <4>2. Cardinality(held' \cap Foreground) = Cardinality(held \cap Foreground) + 1
        BY <3>1, <4>1, FS_AddElement
      <4>3. Cardinality({t}) = 1
        BY FS_Singleton
      <4>4. fgActive' = fgActive + 1
        BY <2>1, <4>1, <4>3
      <4> QED BY <4>2, <4>4
    <3>3. CASE t \notin Foreground
      <4>1. held' \cap Foreground = held \cap Foreground /\ {t} \cap Foreground = {}
        BY <2>1, <3>3
      <4>2. Cardinality({t} \cap Foreground) = 0
        BY <4>1, FS_EmptySet
      <4>3. fgActive' = fgActive
        BY <2>1, <4>2
      <4>4. Cardinality(held' \cap Foreground) = Cardinality(held \cap Foreground)
        BY <4>1
      <4> QED BY <4>3, <4>4
    <3> QED BY <3>2, <3>3
  <2>6. held' \cap ToSet(fg') = {} /\ held' \cap ToSet(bg') = {}
    BY <1>0, <2>1
  <2>7. active' \in 0..Cap
    BY <2>1, <2>2
  <2>8. GateInv'
    BY <2>1, <2>3, <2>4, <2>5, <2>6, <2>7, GateHolds
  <2> QED BY <2>1, <2>3, <2>8 DEF AtTheGate
<1>2. CASE ~ canAdmit(t)
  <2>1. /\ fg' = IF t \in Foreground THEN Append(fg, t) ELSE fg
        /\ bg' = IF t \in Foreground THEN bg ELSE Append(bg, t)
        /\ active' = active /\ fgActive' = fgActive /\ held' = held
    BY <1>2 DEF Acquire
  <2>2. active' = Cap
    <3>1. CASE t \in Foreground \/ fg = <<>>
      BY <1>2, <2>1, <3>1 DEF canAdmit, BgLimit
    <3>2. CASE fg # <<>>
      BY <2>1, <3>2
    <3> QED BY <3>1, <3>2
  <2>3. CASE t \in Foreground
    <3>1. /\ fg' \in Seq(Foreground) /\ IsInjective(fg') /\ ToSet(fg') = ToSet(fg) \cup {t}
          /\ bg' = bg
      BY <1>0, <2>1, <2>3, JoinsQueue
    <3>2. held' \cap ToSet(fg') = {}
      BY <1>0, <2>1, <3>1
    <3>3. GateInv'
      BY <2>1, <2>2, <3>1, <3>2, GateHolds
    <3> QED BY <1>0, <2>1, <3>1, <3>3 DEF AtTheGate
  <2>4. CASE t \notin Foreground
    <3>1. t \in Task \ Foreground
      BY <2>4
    <3>2. /\ bg' \in Seq(Task \ Foreground) /\ IsInjective(bg') /\ ToSet(bg') = ToSet(bg) \cup {t}
          /\ fg' = fg
      BY <1>0, <2>1, <3>1, JoinsQueue
    <3>3. held' \cap ToSet(bg') = {}
      BY <1>0, <2>1, <3>2
    <3>4. GateInv'
      BY <2>1, <2>2, <3>2, <3>3, GateHolds
    <3> QED BY <1>0, <2>1, <3>2, <3>4 DEF AtTheGate
  <2> QED BY <2>3, <2>4
<1> QED BY <1>1, <1>2

(* What a release hands out: as many foreground tickets as fit, then       *)
(* background tickets if no foreground ticket is left behind.              *)
LEMMA ReleaseFacts ==
    ASSUME GateInv, NEW t \in held, Release(t)
    PROVE  \E nfg \in 0..Len(fg), nbg \in 0..Len(bg) :
              /\ active' = active - 1 + nfg + nbg /\ active' <= Cap
              /\ fgActive' = (fgActive - Cardinality({t} \cap Foreground)) + nfg
              /\ fgActive >= Cardinality({t} \cap Foreground)
              /\ Cardinality({t} \cap Foreground) = IF t \in Foreground THEN 1 ELSE 0
              /\ fg' = Behind(fg, nfg) /\ bg' = Behind(bg, nbg)
              /\ held' = (held \ {t}) \cup Woken(fg, nfg) \cup Woken(bg, nbg)
              /\ nfg < Len(fg) => active' = Cap /\ nbg = 0
              /\ nbg < Len(bg) => active' = Cap
<1> USE GateFacts, CapAssumption
<1>1. active >= 1
  <2>1. active # 0
    BY FS_EmptySet
  <2> QED BY <2>1
<1>2. PICK c \in 0..Cap - 1 : c = active - 1
  BY <1>1
<1>3. Max({active - 1, 0}) = c
  <2>1. 0 \in Int /\ c \in Int /\ c >= 0
    BY <1>2
  <2>2. PICK m : m = Max({c, 0})
    OBVIOUS
  <2>3. m = IF c >= 0 THEN c ELSE 0
    BY <2>1, <2>2, OfTwo
  <2> QED BY <1>2, <2>1, <2>2, <2>3
<1>4. PICK nfg : nfg = Admitted(fg, c, Cap)
  OBVIOUS
<1>5. Len(fg) \in Nat /\ Len(bg) \in Nat
  OBVIOUS
<1>6. nfg = IF Len(fg) <= Cap - c THEN Len(fg) ELSE Cap - c
  <2>1. c \in Int /\ Cap \in Int /\ ~ (Cap <= c)
    BY <1>2
  <2>2. Admitted(fg, c, Cap) = IF Cap <= c THEN 0
                               ELSE IF Len(fg) <= Cap - c THEN Len(fg) ELSE Cap - c
    BY <2>1, HowMany
  <2> QED BY <1>4, <2>1, <2>2
<1>7. nfg \in 0..Len(fg) /\ (nfg < Len(fg) => c + nfg = Cap) /\ c + nfg <= Cap /\ c + nfg \in Int
  <2>1. Cap \in Int /\ c \in Int /\ c <= Cap - 1 /\ Len(fg) \in Int /\ Len(fg) >= 0
    BY <1>2, <1>5
  <2>2. PICK l \in Int : l = Len(fg) /\ l >= 0
    BY <2>1
  <2>3. nfg \in 0..l /\ (nfg < l => c + nfg = Cap) /\ c + nfg <= Cap /\ c + nfg \in Int
    BY <1>6, <2>1, <2>2
  <2> QED BY <2>2, <2>3
<1>8. Behind(fg, nfg) = <<>> <=> nfg = Len(fg)
  BY <1>7, WokenAndBehind
<1>9. PICK nbg : nbg = Admitted(bg, c + nfg, BgLimit(Behind(fg, nfg)))
  OBVIOUS
<1>10. /\ nbg \in 0..Len(bg) /\ c + nfg + nbg <= Cap
       /\ nfg < Len(fg) => nbg = 0
       /\ nbg < Len(bg) => c + nfg + nbg = Cap
  <2>1. BgLimit(Behind(fg, nfg)) \in Int /\ BgLimit(Behind(fg, nfg)) <= Cap
    BY DEF BgLimit, reserveForForeground
  <2>2. PICK lim \in Int : lim = BgLimit(Behind(fg, nfg)) /\ lim <= Cap
    BY <2>1
  <2>3. nbg = IF lim <= c + nfg THEN 0
              ELSE IF Len(bg) <= lim - (c + nfg) THEN Len(bg) ELSE lim - (c + nfg)
    BY <1>7, <1>9, <2>2, HowMany
  <2>4. PICK l \in Nat : l = Len(fg)
    BY <1>5
  <2>5. PICK k \in Nat : k = Len(bg)
    BY <1>5
  <2>6. PICK d \in Int : d = c + nfg /\ d <= Cap
    BY <1>7
  <2>7. nfg = l => lim = Cap
    BY <1>8, <2>2, <2>4 DEF BgLimit
  <2>8. nfg \in 0..l /\ (nfg < l => d = Cap)
    BY <1>7, <2>4, <2>6
  <2>9. nbg = IF lim <= d THEN 0 ELSE IF k <= lim - d THEN k ELSE lim - d
    BY <2>3, <2>5, <2>6
  <2>10. /\ nbg \in 0..k /\ d + nbg <= Cap
         /\ nfg < l => nbg = 0
         /\ nbg < k => d + nbg = Cap
    BY <2>2, <2>6, <2>7, <2>8, <2>9
  <2> QED BY <2>4, <2>5, <2>6, <2>10
<1>11. PICK one : one = Cardinality({t} \cap Foreground)
  OBVIOUS
<1>12. one = (IF t \in Foreground THEN 1 ELSE 0) /\ fgActive >= one
  <2>1. CASE t \in Foreground
    <3>1. {t} \cap Foreground = {t} /\ t \in held \cap Foreground /\ IsFiniteSet(held \cap Foreground)
      BY <2>1, FS_Subset
    <3>2. fgActive # 0
      BY <3>1, FS_EmptySet
    <3>3. one = 1
      BY <1>11, <3>1, FS_Singleton
    <3> QED BY <2>1, <3>2, <3>3
  <2>2. CASE t \notin Foreground
    <3>1. {t} \cap Foreground = {}
      BY <2>2
    <3>2. one = 0
      BY <1>11, <3>1, FS_EmptySet
    <3> QED BY <2>2, <3>2
  <2> QED BY <2>1, <2>2
<1>13. Max({fgActive - one, 0}) = fgActive - one
  <2>1. PICK d \in Int : d = fgActive - one
    BY <1>12
  <2>2. 0 \in Int /\ d >= 0
    BY <1>12, <2>1
  <2>3. PICK m : m = Max({d, 0})
    OBVIOUS
  <2>4. m = IF d >= 0 THEN d ELSE 0
    BY <2>1, <2>2, <2>3, OfTwo
  <2> QED BY <2>1, <2>2, <2>3, <2>4
<1>14. /\ active' = c + nfg + nbg
       /\ fgActive' = Max({fgActive - one, 0}) + nfg
       /\ fg' = Behind(fg, nfg) /\ bg' = Behind(bg, nbg)
       /\ held' = (held \ {t}) \cup Woken(fg, nfg) \cup Woken(bg, nbg)
  BY <1>3, <1>4, <1>9, <1>11 DEF Release
<1>15. /\ active' = active - 1 + nfg + nbg /\ active' <= Cap
       /\ nfg < Len(fg) => active' = Cap /\ nbg = 0
       /\ nbg < Len(bg) => active' = Cap
  BY <1>2, <1>7, <1>10, <1>14
<1>16. nfg \in 0..Len(fg) /\ nbg \in 0..Len(bg)
  BY <1>7, <1>10
<1> HIDE GateFacts, CapAssumption
<1> QED BY <1>16, <1>11, <1>12, <1>13, <1>14, <1>15

(* A release keeps the gate's books, and lets nobody in ahead of a ticket  *)
(* that stays behind.                                                      *)
LEMMA ReleaseKeeps ==
    ASSUME GateInv, NEW t \in held, Release(t)
    PROVE  /\ GateInv' /\ AtTheGate' = AtTheGate \ {t} /\ held \ {t} \subseteq held'
           /\ t \notin held'
<1> USE GateFacts, CapAssumption
<1>1. PICK nfg \in 0..Len(fg), nbg \in 0..Len(bg) :
         /\ active' = active - 1 + nfg + nbg /\ active' <= Cap
         /\ fgActive' = (fgActive - Cardinality({t} \cap Foreground)) + nfg
         /\ fgActive >= Cardinality({t} \cap Foreground)
         /\ Cardinality({t} \cap Foreground) = IF t \in Foreground THEN 1 ELSE 0
         /\ fg' = Behind(fg, nfg) /\ bg' = Behind(bg, nbg)
         /\ held' = (held \ {t}) \cup Woken(fg, nfg) \cup Woken(bg, nbg)
         /\ nfg < Len(fg) => active' = Cap /\ nbg = 0
         /\ nbg < Len(bg) => active' = Cap
  BY ReleaseFacts, Zenon
<1>2. Len(fg) \in Nat /\ Len(bg) \in Nat
  OBVIOUS
<1>3. PICK wf : wf = Woken(fg, nfg)
  OBVIOUS
<1>4. PICK wb : wb = Woken(bg, nbg)
  OBVIOUS
<1>5. /\ fg' \in Seq(Foreground) /\ IsInjective(fg') /\ (fg' # <<>> => nfg < Len(fg))
      /\ IsFiniteSet(wf) /\ Cardinality(wf) = nfg
      /\ wf = {fg[i] : i \in 1..nfg} /\ ToSet(fg') = {fg[i] : i \in nfg + 1..Len(fg)}
  <2>1. nfg < Len(fg) <=> nfg # Len(fg)
    BY <1>2
  <2>2. /\ Behind(fg, nfg) \in Seq(Foreground) /\ IsInjective(Behind(fg, nfg))
        /\ Behind(fg, nfg) = <<>> <=> nfg = Len(fg)
        /\ Woken(fg, nfg) = {fg[i] : i \in 1..nfg}
        /\ ToSet(Behind(fg, nfg)) = {fg[i] : i \in nfg+1..Len(fg)}
        /\ IsFiniteSet(Woken(fg, nfg)) /\ Cardinality(Woken(fg, nfg)) = nfg
    BY WokenAndBehind
  <2> QED BY <1>1, <1>3, <2>1, <2>2
<1>6. /\ bg' \in Seq(Task \ Foreground) /\ IsInjective(bg') /\ (bg' # <<>> => nbg < Len(bg))
      /\ IsFiniteSet(wb) /\ Cardinality(wb) = nbg
      /\ wb = {bg[i] : i \in 1..nbg} /\ ToSet(bg') = {bg[i] : i \in nbg + 1..Len(bg)}
  <2>1. nbg < Len(bg) <=> nbg # Len(bg)
    BY <1>2
  <2>2. /\ Behind(bg, nbg) \in Seq(Task \ Foreground) /\ IsInjective(Behind(bg, nbg))
        /\ Behind(bg, nbg) = <<>> <=> nbg = Len(bg)
        /\ Woken(bg, nbg) = {bg[i] : i \in 1..nbg}
        /\ ToSet(Behind(bg, nbg)) = {bg[i] : i \in nbg+1..Len(bg)}
        /\ IsFiniteSet(Woken(bg, nbg)) /\ Cardinality(Woken(bg, nbg)) = nbg
    BY WokenAndBehind
  <2> QED BY <1>1, <1>4, <2>1, <2>2
<1>7. wf \cup ToSet(fg') = ToSet(fg) /\ wf \cap ToSet(fg') = {}
  <2>1. DOMAIN fg = 1..Len(fg)
    OBVIOUS
  <2>2. \A i \in 1..Len(fg) : i \in 1..nfg \/ i \in nfg + 1..Len(fg)
    BY <1>2
  <2>3. \A i \in 1..nfg : i \in 1..Len(fg) /\ i \notin nfg + 1..Len(fg)
    BY <1>2
  <2>4. \A i \in nfg + 1..Len(fg) : i \in 1..Len(fg)
    BY <1>2
  <2>5. ToSet(fg) = {fg[i] : i \in 1..Len(fg)}
    BY <2>1 DEF ToSet
  <2>6. wf \cup ToSet(fg') = ToSet(fg)
    BY <1>5, <2>2, <2>3, <2>4, <2>5
  <2>7. \A i, j \in 1..Len(fg) : fg[i] = fg[j] => i = j
    BY <2>1 DEF IsInjective
  <2>8. wf \cap ToSet(fg') = {}
    BY <1>5, <2>3, <2>4, <2>7
  <2> QED BY <2>6, <2>8
<1>8. wb \cup ToSet(bg') = ToSet(bg) /\ wb \cap ToSet(bg') = {}
  <2>1. DOMAIN bg = 1..Len(bg)
    OBVIOUS
  <2>2. \A i \in 1..Len(bg) : i \in 1..nbg \/ i \in nbg + 1..Len(bg)
    BY <1>2
  <2>3. \A i \in 1..nbg : i \in 1..Len(bg) /\ i \notin nbg + 1..Len(bg)
    BY <1>2
  <2>4. \A i \in nbg + 1..Len(bg) : i \in 1..Len(bg)
    BY <1>2
  <2>5. ToSet(bg) = {bg[i] : i \in 1..Len(bg)}
    BY <2>1 DEF ToSet
  <2>6. wb \cup ToSet(bg') = ToSet(bg)
    BY <1>6, <2>2, <2>3, <2>4, <2>5
  <2>7. \A i, j \in 1..Len(bg) : bg[i] = bg[j] => i = j
    BY <2>1 DEF IsInjective
  <2>8. wb \cap ToSet(bg') = {}
    BY <1>6, <2>3, <2>4, <2>7
  <2> QED BY <2>6, <2>8
<1>9. held' = (held \ {t}) \cup wf \cup wb
  BY <1>1, <1>3, <1>4
<1>10. wf \subseteq Foreground /\ wb \subseteq Task \ Foreground
  BY <1>7, <1>8
<1>11. IsFiniteSet(held') /\ Cardinality(held') = active'
  <2>1. IsFiniteSet(held \ {t}) /\ Cardinality(held \ {t}) = active - 1
    BY FS_RemoveElement
  <2>2. (held \ {t}) \cap wf = {} /\ ((held \ {t}) \cup wf) \cap wb = {}
    BY <1>7, <1>8, <1>10
  <2>3. /\ IsFiniteSet((held \ {t}) \cup wf)
        /\ Cardinality((held \ {t}) \cup wf) = active - 1 + nfg
    BY <1>2, <1>5, <2>1, <2>2, DisjointUnion
  <2>4. IsFiniteSet(held') /\ Cardinality(held') = active - 1 + nfg + nbg
    BY <1>2, <1>6, <1>9, <2>2, <2>3, DisjointUnion
  <2> QED BY <1>1, <2>4
<1>12. Cardinality(held' \cap Foreground) = fgActive' /\ fgActive' \in Nat
  <2>1. PICK old : old = held \cap Foreground
    OBVIOUS
  <2>2. IsFiniteSet(old) /\ Cardinality(old) = fgActive
    BY <2>1, FS_Subset
  <2>3. IsFiniteSet(old \ {t}) /\ Cardinality(old \ {t}) = fgActive - Cardinality({t} \cap Foreground)
    <3>1. t \in old <=> t \in Foreground
      BY <2>1
    <3>2. /\ IsFiniteSet(old \ {t})
          /\ Cardinality(old \ {t}) = IF t \in old THEN fgActive - 1 ELSE fgActive
      BY <2>2, FS_RemoveElement
    <3> QED BY <1>1, <3>1, <3>2
  <2>4. held' \cap Foreground = (old \ {t}) \cup wf /\ (old \ {t}) \cap wf = {}
    BY <1>7, <1>9, <1>10, <2>1
  <2>5. Cardinality((old \ {t}) \cup wf) = (fgActive - Cardinality({t} \cap Foreground)) + nfg
    BY <1>5, <2>3, <2>4, DisjointUnion
  <2>6. Cardinality(held' \cap Foreground) = fgActive'
    BY <1>1, <2>4, <2>5
  <2>7. IsFiniteSet(held' \cap Foreground)
    BY <1>11, FS_Subset
  <2> QED BY <2>6, <2>7, FS_CardinalityType
<1>13. active' \in 0..Cap
  BY <1>1, <1>11, FS_CardinalityType
<1>14. held' \cap ToSet(fg') = {} /\ held' \cap ToSet(bg') = {}
  BY <1>7, <1>8, <1>9, <1>10
<1>15. fg' # <<>> \/ bg' # <<>> => active' = Cap
  BY <1>1, <1>5, <1>6
<1>16. held' \subseteq Task
  BY <1>9, <1>10, TaskAssumption
<1>17. GateInv'
  BY <1>5, <1>6, <1>11, <1>12, <1>13, <1>14, <1>15, <1>16, GateHolds
<1>18. t \notin wf \cup wb \cup ToSet(fg) \cup ToSet(bg)
  BY <1>7, <1>8
<1> QED BY <1>7, <1>8, <1>9, <1>17, <1>18 DEF AtTheGate

(* A release wakes tickets from the front, background tickets only when    *)
(* no foreground ticket stays.                                             *)
LEMMA ReleaseInOrder ==
    ASSUME GateInv, NEW t \in held, Release(t)
    PROVE  InTurn
<1> SUFFICES ASSUME NEW w \in held' \ held
             PROVE  \A u \in ToSet(Ahead(w)) \ held' :
                      \E i, j \in DOMAIN Ahead(w) : i < j /\ Ahead(w)[i] = w /\ Ahead(w)[j] = u
  BY DEF InTurn
<1> TAKE u \in ToSet(Ahead(w)) \ held'
<1>0. PICK ahead : ahead = Ahead(w)
  OBVIOUS
<1> USE GateFacts
<1>1. PICK nfg \in 0..Len(fg), nbg \in 0..Len(bg) :
         /\ held' = (held \ {t}) \cup Woken(fg, nfg) \cup Woken(bg, nbg)
         /\ nfg < Len(fg) => nbg = 0
  BY ReleaseFacts, Zenon
<1>2. /\ Len(fg) \in Nat /\ Len(bg) \in Nat
      /\ DOMAIN fg = 1..Len(fg) /\ DOMAIN bg = 1..Len(bg)
  OBVIOUS
<1>3. Woken(fg, nfg) = {fg[i] : i \in 1..nfg} /\ Woken(bg, nbg) = {bg[i] : i \in 1..nbg}
  <2>1. nfg \in 0..Len(fg) /\ nbg \in 0..Len(bg)
    OBVIOUS
  <2>2. Woken(fg, nfg) = {fg[i] : i \in 1..nfg}
    BY <2>1, WokenAndBehind
  <2>3. Woken(bg, nbg) = {bg[i] : i \in 1..nbg}
    BY <2>1, WokenAndBehind
  <2> QED BY <2>2, <2>3
<1>4. \A i \in 1..nfg : fg[i] \in held'
  BY <1>1, <1>3
<1>5. \A i \in 1..nbg : bg[i] \in held'
  BY <1>1, <1>3
<1>6. \A i \in 1..nfg : i \in 1..Len(fg) /\ fg[i] \in Foreground
  BY <1>2
<1>7. \A i \in 1..nbg : i \in 1..Len(bg) /\ bg[i] \notin Foreground
  BY <1>2
<1>8. CASE w \in Foreground
  <2>1. PICK i \in 1..nfg : w = fg[i]
    BY <1>1, <1>3, <1>7, <1>8
  <2>2. ahead = fg
    BY <1>0, <1>8 DEF Ahead
  <2>3. PICK j \in 1..Len(fg) : u = fg[j]
    BY <1>0, <1>2, <2>2 DEF ToSet
  <2>4. j \notin 1..nfg
    BY <1>4, <2>3
  <2>5. i < j
    BY <1>2, <2>4
  <2>6. i \in DOMAIN ahead /\ j \in DOMAIN ahead
    BY <1>2, <1>6, <2>2
  <2> QED BY <1>0, <2>1, <2>2, <2>3, <2>5, <2>6
<1>9. CASE w \notin Foreground
  <2>1. PICK i \in 1..nbg : w = bg[i]
    BY <1>1, <1>3, <1>6, <1>9
  <2>2. ahead = fg \o bg
    BY <1>0, <1>9 DEF Ahead
  <2>3. nfg = Len(fg)
    <3>1. nbg # 0
      BY <2>1
    <3>2. ~ nfg < Len(fg)
      BY <1>1, <3>1
    <3>3. PICK l \in Nat : l = Len(fg)
      BY <1>2
    <3>4. nfg \in 0..l /\ ~ nfg < l
      BY <3>2, <3>3
    <3> QED BY <3>3, <3>4
  <2>4. ToSet(fg) \subseteq held'
    BY <1>2, <1>4, <2>3 DEF ToSet
  <2>5. u \in ToSet(bg)
    <3>1. ToSet(ahead) = ToSet(fg) \cup ToSet(bg)
      BY <2>2, QueuesApart
    <3> QED BY <1>0, <2>4, <3>1
  <2>6. PICK j \in 1..Len(bg) : u = bg[j]
    BY <1>2, <2>5 DEF ToSet
  <2>7. j \notin 1..nbg
    BY <1>5, <2>6
  <2>8. /\ DOMAIN ahead = 1..Len(fg) + Len(bg)
        /\ \A k \in 1..Len(bg) : Len(fg) + k \in DOMAIN ahead /\ ahead[Len(fg) + k] = bg[k]
    BY <2>2, ConcatAt
  <2>9. i \in 1..Len(bg) /\ i < j /\ i \in Int /\ j \in Int
    BY <1>2, <1>7, <2>7
  <2>10. Len(fg) + i < Len(fg) + j
    BY <1>2, <2>9
  <2> QED BY <1>0, <2>1, <2>6, <2>8, <2>9, <2>10
<1> QED BY <1>8, <1>9
-----------------------------------------------------------------------------
(* A task that is past the pool's queue is the gate's, from the ticket to  *)
(* the release: a slot belongs to a task whose worker is there to free it. *)
SlotInv ==
    /\ GateInv
    /\ \A t \in Task :
         /\ t \in AtTheGate => outer[t] \in {"gate", "running"}
         /\ outer[t] = "running" => t \in held

(* The types that the other parts do not need. *)
OtherTypes ==
    /\ groups \subseteq Group /\ deleting \subseteq Group
    /\ deletes \in 0..MaxDeletes
    /\ outcome \in [Task -> {"none", "ok", "err"}]
    /\ want \in [Repo -> SUBSET Task]

WholeInv == RInv /\ SlotInv /\ OtherTypes

(* At first the gate is empty. *)
LEMMA InitWhole == Init => WholeInv
<1> SUFFICES ASSUME Init PROVE WholeInv
  OBVIOUS
<1>1. /\ held = {} /\ active = 0 /\ fgActive = 0 /\ fg = <<>> /\ bg = <<>>
  BY DEF Init, GateInit
<1>2. ToSet(fg) = {} /\ ToSet(bg) = {} /\ fg \o bg = <<>> /\ IsInjective(fg \o bg)
  BY <1>1 DEF ToSet, IsInjective
<1>3. GateInv
  BY <1>1, <1>2, CapAssumption, FS_EmptySet DEF GateInv, GateTypeOK, GateExact, NoIdleSlot, ToSet
<1>4. SlotInv
  BY <1>1, <1>2, <1>3 DEF SlotInv, AtTheGate, Init
<1>5. OtherTypes
  BY RebuildAssumption DEF OtherTypes, Init, Claim!Init
<1> QED BY <1>4, <1>5, InitRInv DEF WholeInv

(* A step that leaves the gate alone and takes no worker to or from it     *)
(* keeps the slots in step.                                                *)
LEMMA GateAside ==
    ASSUME SlotInv, UNCHANGED gateVars,
           \A t \in Task : /\ outer[t] \in {"gate", "running"} => outer'[t] = outer[t]
                           /\ outer'[t] = "running" => outer[t] = "running"
    PROVE  SlotInv'
<1>1. GateInv' /\ AtTheGate' = AtTheGate /\ held' = held
  BY DEF SlotInv, gateVars, GateInv, GateTypeOK, GateExact, NoIdleSlot, AtTheGate
<1> QED BY <1>1 DEF SlotInv

(* Steps of a rebuild do not touch the gate: the workers that they start   *)
(* are new.                                                                *)
LEMMA RunStepKeepsSlots ==
    ASSUME WholeInv, NEW r \in Run, RunStep(r)
    PROVE  SlotInv'
<1> USE DEF WholeInv, RInv
<1>1. UNCHANGED gateVars
  BY DEF RunStep, TakeSem, RpcTimeout, Answer, ReleaseGuard, Register, StartRepos, ReposDone,
         LinksDone
<1>2. CASE StartRepos(r)
  <2>1. /\ pc[r] = "registered"
        /\ \/ outer' = [t \in Task |-> IF RunOf[t] = r THEN "pool" ELSE outer[t]]
           \/ outer' = outer
    BY <1>2 DEF StartRepos
  <2>2. \A t \in Task : RunOf[t] = r => outer[t] = "none"
    BY <2>1 DEF PoolInv
  <2>3. \A t \in Task : /\ outer[t] \in {"gate", "running"} => outer'[t] = outer[t]
                        /\ outer'[t] = "running" => outer[t] = "running"
    BY <2>1, <2>2
  <2> QED BY <1>1, <2>3, GateAside
<1>3. CASE ~ StartRepos(r)
  <2>1. outer' = outer
    BY <1>3 DEF RunStep, TakeSem, RpcTimeout, Answer, ReleaseGuard, Register, ReposDone,
                LinksDone, taskVars
  <2> QED BY <1>1, <2>1, GateAside
<1> QED BY <1>2, <1>3

(* A worker that leaves gives its slot back. *)
LEMMA SettleKeepsSlots ==
    ASSUME WholeInv, NEW t \in Task, t \in held, NEW result, Settle(t, result)
    PROVE  SlotInv'
<1>1. Release(t) /\ outer' = [outer EXCEPT ![t] = "done"]
  BY DEF Settle
<1>2. /\ GateInv' /\ AtTheGate' = AtTheGate \ {t} /\ held \ {t} \subseteq held'
  BY <1>1, ReleaseKeeps DEF WholeInv, SlotInv
<1>3. outer \in [Task -> {"none", "pool", "gate", "running", "done"}]
  BY DEF WholeInv, RInv, PoolInv
<1>4. /\ outer'[t] = "done" /\ \A u \in Task : u # t => outer'[u] = outer[u]
  BY <1>1, <1>3
<1> QED BY <1>2, <1>4 DEF SlotInv, WholeInv

(* Steps of workers and indexes keep each slot with its worker; an index   *)
(* that was given up has none.                                             *)
LEMMA TaskStepKeepsSlots ==
    ASSUME WholeInv, NEW t \in Task, TaskStep(t)
    PROVE  SlotInv'
<1>0. /\ outer \in [Task -> {"none", "pool", "gate", "running", "done"}]
      /\ outer[t] = "running" => t \in held
  BY DEF WholeInv, RInv, PoolInv, SlotInv
<1>1. CASE ToGate(t)
  <2>1. outer[t] = "pool" /\ outer' = [outer EXCEPT ![t] = "gate"] /\ Acquire(t)
    BY <1>1 DEF ToGate
  <2>2. t \notin AtTheGate
    BY <2>1 DEF WholeInv, SlotInv
  <2>3. GateInv' /\ AtTheGate' = AtTheGate \cup {t} /\ held \subseteq held'
    BY <2>1, <2>2, AcquireKeeps DEF WholeInv, SlotInv
  <2>4. outer'[t] = "gate" /\ \A u \in Task : u # t => outer'[u] = outer[u]
    BY <1>0, <2>1
  <2> QED BY <2>3, <2>4 DEF WholeInv, SlotInv
<1>2. CASE StartIndex(t)
  <2>1. CASE Settle(t, "err")
    BY <1>2, <2>1, SettleKeepsSlots DEF StartIndex
  <2>2. CASE ~ Settle(t, "err")
    <3>1. /\ outer[t] = "gate" /\ t \in held /\ outer' = [outer EXCEPT ![t] = "running"]
          /\ UNCHANGED gateVars
      BY <1>2, <2>2 DEF StartIndex
    <3>2. outer'[t] = "running" /\ \A u \in Task : u # t => outer'[u] = outer[u]
      BY <1>0, <3>1
    <3>3. GateInv' /\ AtTheGate' = AtTheGate /\ held' = held
      BY <3>1 DEF WholeInv, SlotInv, gateVars, GateInv, GateTypeOK, GateExact, NoIdleSlot,
                  AtTheGate
    <3> QED BY <3>1, <3>2, <3>3 DEF WholeInv, SlotInv
  <2> QED BY <2>1, <2>2
<1>3. CASE RepoTimeout(t)
  BY <1>0, <1>3, SettleKeepsSlots DEF RepoTimeout
<1>4. ASSUME NEW result \in {"ok", "err"}, Collect(t, result) PROVE SlotInv'
  BY <1>0, <1>4, SettleKeepsSlots DEF Collect
<1>5. CASE AskClaim(t) \/ GetClaim(t) \/ IndexEnds(t)
  <2>1. outer' = outer /\ UNCHANGED gateVars
    BY <1>5 DEF AskClaim, GetClaim, IndexEnds
  <2> QED BY <2>1, GateAside DEF WholeInv
<1> QED BY <1>1, <1>2, <1>3, <1>4, <1>5 DEF TaskStep, WorkerStep

(* The rest has its type. *)
LEMMA OtherTypesKept ==
    ASSUME WholeInv, Next
    PROVE  OtherTypes'
<1> USE RebuildAssumption DEF WholeInv, OtherTypes
<1>1. ASSUME NEW r \in Run, RunStep(r) PROVE OtherTypes'
  <2>1. UNCHANGED <<groups, deleting, deletes, outcome, want>>
    BY <1>1 DEF RunStep, TakeSem, RpcTimeout, Answer, ReleaseGuard, Register, StartRepos,
                ReposDone, LinksDone, End, regVars, taskVars, claimVars
  <2> QED BY <2>1
<1>2. ASSUME NEW t \in Task, TaskStep(t) PROVE OtherTypes'
  <2>1. UNCHANGED <<groups, deleting, deletes>>
    BY <1>2 DEF TaskStep, WorkerStep, ToGate, StartIndex, RepoTimeout, Collect, AskClaim,
                GetClaim, IndexEnds, regVars
  <2>2. outcome' = outcome \/ \E result \in {"ok", "err"} : outcome' = [outcome EXCEPT ![t] = result]
    BY <1>2 DEF TaskStep, WorkerStep, ToGate, StartIndex, RepoTimeout, Collect, Settle,
                AskClaim, GetClaim, IndexEnds
  <2>3. outcome' \in [Task -> {"none", "ok", "err"}]
    BY <2>2
  <2>4. \/ want' = want \/ want' = [want EXCEPT ![RepoOf[t]] = @ \cup {t}]
        \/ want' = [want EXCEPT ![RepoOf[t]] = @ \ {t}]
    BY <1>2 DEF TaskStep, WorkerStep, ToGate, StartIndex, RepoTimeout, Collect, AskClaim,
                GetClaim, IndexEnds, claimVars, Claim!Ask, Claim!Get, Claim!GiveBack
  <2>5. want' \in [Repo -> SUBSET Task]
    BY <2>4
  <2> QED BY <2>1, <2>3, <2>5
<1>3. ASSUME NEW g \in Group, DeleteGroup(g) \/ RemoveGroup(g) \/ CreateGroup(g)
      PROVE  OtherTypes'
  <2>1. outcome' = outcome /\ want' = want
    BY <1>3 DEF DeleteGroup, RemoveGroup, CreateGroup, taskVars, claimVars
  <2>2. CASE DeleteGroup(g)
    <3>1. deletes < MaxDeletes /\ deletes' = deletes + 1
      BY <2>2 DEF DeleteGroup
    <3> QED BY <2>1, <2>2, <3>1 DEF DeleteGroup
  <2>3. CASE RemoveGroup(g)
    BY <2>1, <2>3 DEF RemoveGroup
  <2>4. CASE CreateGroup(g)
    BY <2>1, <2>4 DEF CreateGroup
  <2> QED BY <1>3, <2>2, <2>3, <2>4
<1>4. CASE Finished
  BY <1>4 DEF Finished, vars, regVars, taskVars, claimVars
<1> QED BY <1>1, <1>2, <1>3, <1>4 DEF Next

(* Every step keeps the whole invariant. *)
LEMMA NextWhole == WholeInv /\ [Next]_vars => WholeInv'
<1> SUFFICES ASSUME WholeInv, [Next]_vars PROVE WholeInv'
  OBVIOUS
<1>1. RInv'
  BY NextRInv DEF WholeInv
<1>2. CASE UNCHANGED vars
  <2>1. OtherTypes'
    BY <1>2 DEF vars, regVars, taskVars, claimVars, WholeInv, OtherTypes
  <2>2. outer' = outer /\ UNCHANGED gateVars
    BY <1>2 DEF vars, taskVars
  <2>3. SlotInv
    BY DEF WholeInv
  <2>4. SlotInv'
    BY <2>2, <2>3, GateAside
  <2> QED BY <1>1, <2>1, <2>4 DEF WholeInv
<1>3. CASE Next
  <2>1. OtherTypes'
    BY <1>3, OtherTypesKept
  <2>2. ASSUME NEW g \in Group, DeleteGroup(g) \/ RemoveGroup(g) \/ CreateGroup(g)
        PROVE  SlotInv'
    <3>1. outer' = outer /\ UNCHANGED gateVars
      BY <2>2 DEF DeleteGroup, RemoveGroup, CreateGroup, taskVars
    <3> QED BY <3>1, GateAside DEF WholeInv
  <2>3. ASSUME Finished PROVE SlotInv'
    <3>1. outer' = outer /\ UNCHANGED gateVars
      BY <2>3 DEF Finished, vars, taskVars
    <3> QED BY <3>1, GateAside DEF WholeInv
  <2>4. ASSUME NEW r \in Run, RunStep(r) PROVE SlotInv'
    BY <2>4, RunStepKeepsSlots
  <2>5. ASSUME NEW t \in Task, TaskStep(t) PROVE SlotInv'
    BY <2>5, TaskStepKeepsSlots
  <2>6. SlotInv'
    BY <1>3, <2>2, <2>3, <2>4, <2>5 DEF Next
  <2> QED BY <1>1, <2>1, <2>6 DEF WholeInv
<1> QED BY <1>2, <1>3

(* The invariant holds in every behaviour. *)
THEOREM SpecWhole == Spec => []WholeInv
BY InitWhole, NextWhole, PTL DEF Spec

(* The indexes of a rebuild that is alive are no more than the slots: each *)
(* has one, and the gate charges as many as it has.                        *)
THEOREM SlotsInStep == Spec => []SlotsExact
<1>1. ASSUME WholeInv PROVE SlotsExact
  <2>1. GateInv /\ RInv /\ OtherTypes
    BY <1>1 DEF WholeInv, SlotInv
  <2>2. TypeOK
    BY <2>1 DEF TypeOK, RInv, GroupInv, IndexInv, PoolInv, OtherTypes, GateInv
  <2>3. GateExact /\ NoIdleSlot
    BY <2>1 DEF GateInv
  <2>4. PICK running : running = {t \in Task : inner[t] # "over" /\ inner[t] # "none" /\ ~CtxDead(t)}
    OBVIOUS
  <2>5. running \subseteq held
    <3> SUFFICES ASSUME NEW t \in running PROVE t \in held
      OBVIOUS
    <3>1. t \in Task /\ inner[t] # "none" /\ outer[t] # "done"
      BY <2>4 DEF CtxDead
    <3>2. outer[t] = "running"
      BY <1>1, <3>1 DEF WholeInv, RInv, PoolInv
    <3> QED BY <1>1, <3>1, <3>2 DEF WholeInv, SlotInv
  <2>6. IsFiniteSet(held) /\ Cardinality(held) <= Cap
    BY <2>1 DEF GateInv, GateExact
  <2>7. Cardinality(running) <= Cap
    <3>1. IsFiniteSet(running) /\ Cardinality(running) <= Cardinality(held)
      BY <2>5, <2>6, FS_Subset
    <3>2. Cardinality(running) \in Nat /\ Cardinality(held) \in Nat
      BY <2>6, <3>1, FS_CardinalityType
    <3> QED BY <2>6, <3>1, <3>2, CapAssumption
  <2> QED BY <2>2, <2>3, <2>4, <2>7 DEF SlotsExact, IndexesBounded
<1> QED BY <1>1, SpecWhole, PTL

(* No step lets a task in ahead of one of its class that waits, nor a      *)
(* background task ahead of a foreground ticket.                           *)
THEOREM InTheirTurn == Spec => NoOvertaking
<1>1. ASSUME WholeInv, NEW t \in Task, t \notin AtTheGate, Acquire(t) PROVE InTurn
  <2>1. GateInv
    BY <1>1 DEF WholeInv, SlotInv
  <2>2. CASE t \in held'
    <3>1. fg = <<>> /\ bg = <<>>
      BY <1>1, <2>1, <2>2, AcquireKeeps
    <3>2. ToSet(fg) = {} /\ ToSet(fg \o bg) = {}
      BY <3>1 DEF ToSet
    <3>3. held' \ held = {t}
      BY <1>1, <2>1, <2>2, AcquireKeeps DEF AtTheGate
    <3>4. ToSet(Ahead(t)) = {}
      BY <3>2 DEF Ahead
    <3> QED BY <3>3, <3>4 DEF InTurn
  <2>3. CASE t \notin held'
    <3>1. held' = held
      BY <1>1, <2>1, <2>3, AcquireKeeps
    <3> QED BY <3>1 DEF InTurn
  <2> QED BY <2>2, <2>3
<1>2. ASSUME WholeInv, NEW t \in held, Release(t) PROVE InTurn
  <2>1. GateInv
    BY <1>2 DEF WholeInv, SlotInv
  <2> QED BY <1>2, <2>1, ReleaseInOrder
<1>3. ASSUME WholeInv, Next PROVE InTurn \/ UNCHANGED gateVars
  <2>1. ASSUME NEW t \in Task, TaskStep(t) PROVE InTurn \/ UNCHANGED gateVars
    <3>1. outer[t] = "pool" => t \notin AtTheGate
      BY <1>3 DEF WholeInv, SlotInv
    <3>2. outer[t] = "running" => t \in held
      BY <1>3 DEF WholeInv, SlotInv
    <3>3. \/ outer[t] = "pool" /\ Acquire(t)
          \/ t \in held /\ Release(t)
          \/ UNCHANGED gateVars
      BY <2>1, <3>2 DEF TaskStep, WorkerStep, ToGate, StartIndex, RepoTimeout, Collect, Settle,
                  AskClaim, GetClaim, IndexEnds
    <3> QED BY <1>1, <1>2, <1>3, <2>1, <3>1, <3>3
  <2>2. ASSUME NEW r \in Run, RunStep(r) PROVE UNCHANGED gateVars
    BY <2>2 DEF RunStep, TakeSem, RpcTimeout, Answer, ReleaseGuard, Register, StartRepos,
                ReposDone, LinksDone
  <2>3. ASSUME NEW g \in Group, DeleteGroup(g) \/ RemoveGroup(g) \/ CreateGroup(g)
        PROVE  UNCHANGED gateVars
    BY <2>3 DEF DeleteGroup, RemoveGroup, CreateGroup
  <2>4. CASE Finished
    BY <2>4 DEF Finished, vars
  <2> QED BY <1>3, <2>1, <2>2, <2>3, <2>4 DEF Next
<1>4. ASSUME WholeInv, [Next]_vars PROVE [InTurn]_gateVars
  <2>1. CASE UNCHANGED vars
    BY <2>1 DEF vars
  <2> QED BY <1>3, <1>4, <2>1
<1>5. Spec => [][InTurn]_gateVars
  <2> QED BY <1>4, SpecWhole, PTL DEF Spec
<1> QED BY <1>5 DEF NoOvertaking
=============================================================================
