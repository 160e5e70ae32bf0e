------------------------- MODULE IndexSchedulerProofs -------------------------
(***************************************************************************)
(* For every set of repos, workers and sizes and every budget: a repo in   *)
(* flight has one token and one place, the ledger is the sum of what was   *)
(* admitted and the budget is exceeded by a lone job only, no index runs   *)
(* beside a heavy stage, and no trigger is lost: the scheduler implements  *)
(* IndexPromise.  The invariant says where a repo's token is and that a    *)
(* pending repo is queued or not started yet, which is what dedupLoop's    *)
(* and runIndex's separate critical sections rely on.                      *)
(***************************************************************************)
EXTENDS IndexScheduler, FiniteSetTheorems, SequenceTheorems, TLAPS

-----------------------------------------------------------------------------
(* Sums over finite sets.  The library defines them by recursion over the  *)
(* subsets, one element after the other; what that computes is proved here *)
(* by a least counterexample, and does not depend on the order.            *)

Total(f, S) == MapThenSumSet(LAMBDA r : f[r], S)

Some(s) == CHOOSE x \in s : TRUE
AddsUp(g, f, S) ==
    \A s \in SUBSET S : g[s] = IF s = {} THEN 0 ELSE f[Some(s)] + g[s \ {Some(s)}]

AnyOrder(g, f, S) ==
    \A s \in SUBSET S : \A x \in s : g[s] = f[x] + g[s \ {x}]

(* A set of naturals that is not empty has a least element. *)
LEMMA LeastNatural ==
    ASSUME NEW T \in SUBSET Nat, T # {}
    PROVE  \E m \in T : \A n \in Nat : n < m => n \notin T
<1>1. PICK m \in T : \A n \in T : ~ (<<n, m>> \in OpToRel(<, Nat))
  BY WFMin, NatLessThanWellFounded
<1> QED BY <1>1 DEF OpToRel

(* One element less. *)
LEMMA SomeLess ==
    ASSUME NEW S, IsFiniteSet(S), NEW s \in SUBSET S, NEW x \in s
    PROVE  /\ s \ {x} \in SUBSET S /\ IsFiniteSet(s) /\ Cardinality(s) \in Nat
           /\ Cardinality(s \ {x}) \in Nat /\ Cardinality(s \ {x}) = Cardinality(s) - 1
<1>1. IsFiniteSet(s)
  BY FS_Subset
<1>2. Cardinality(s \ {x}) = Cardinality(s) - 1 /\ IsFiniteSet(s \ {x})
  BY <1>1, FS_RemoveElement
<1> QED BY <1>1, <1>2, FS_CardinalityType

(* There is a function that adds up. *)
LEMMA SumExists ==
    ASSUME NEW S, IsFiniteSet(S), NEW f, \A x \in S : f[x] \in Nat
    PROVE  \E g \in [SUBSET S -> Nat] : AddsUp(g, f, S)
<1> DEFINE D(n) == {s \in SUBSET S : Cardinality(s) <= n}
           P(n) == \E g \in [D(n) -> Nat] :
                     \A s \in D(n) : g[s] = IF s = {} THEN 0 ELSE f[Some(s)] + g[s \ {Some(s)}]
           T == {n \in Nat : ~ P(n)}
<1>1. \A s \in SUBSET S : s # {} => Some(s) \in s
  BY DEF Some
<1>2. \A s \in SUBSET S : Cardinality(s) \in Nat /\ (Cardinality(s) = 0 <=> s = {})
  BY FS_Subset, FS_CardinalityType, FS_EmptySet
<1>3. ASSUME NEW n \in Nat, NEW s \in D(n), s # {}
      PROVE  s \ {Some(s)} \in D(n - 1) /\ f[Some(s)] \in Nat /\ n # 0
  <2>1. Some(s) \in s /\ s \in SUBSET S
    BY <1>1, <1>3
  <2> QED BY <1>2, <1>3, <2>1, SomeLess
<1>4. P(0)
  <2>1. [s \in D(0) |-> 0] \in [D(0) -> Nat]
    OBVIOUS
  <2> QED BY <1>3, <2>1
<1>5. ASSUME NEW n \in Nat, n # 0, P(n - 1)
      PROVE  P(n)
  <2>1. PICK g \in [D(n - 1) -> Nat] :
          \A s \in D(n - 1) : g[s] = IF s = {} THEN 0 ELSE f[Some(s)] + g[s \ {Some(s)}]
    BY <1>5
  <2> DEFINE h == [s \in D(n) |-> IF s = {} THEN 0 ELSE f[Some(s)] + g[s \ {Some(s)}]]
  <2>2. h \in [D(n) -> Nat]
    BY <1>3, <2>1
  <2>3. \A s \in D(n - 1) : s \in D(n) /\ h[s] = g[s]
    BY <1>2, <2>1
  <2>4. \A s \in D(n) : h[s] = IF s = {} THEN 0 ELSE f[Some(s)] + h[s \ {Some(s)}]
    BY <1>3, <2>3
  <2> QED BY <2>2, <2>4
<1>6. T = {}
  <2>1. SUFFICES ASSUME T # {} PROVE FALSE
    OBVIOUS
  <2>2. PICK m \in T : \A n \in Nat : n < m => n \notin T
    BY <2>1, LeastNatural
  <2> HIDE DEF P
  <2>3. m # 0 /\ m \in Nat /\ ~ P(m)
    BY <1>4
  <2>4. m - 1 \in Nat /\ m - 1 < m
    BY <2>3
  <2>5. P(m - 1)
    BY <2>2, <2>4
  <2> QED BY <1>5, <2>3, <2>5
<1>7. Cardinality(S) \in Nat /\ P(Cardinality(S))
  BY <1>6, FS_CardinalityType
<1>8. D(Cardinality(S)) = SUBSET S
  BY FS_Subset
<1> QED BY <1>7, <1>8 DEF AddsUp

(* And only one, for the same addends. *)
LEMMA SumUnique ==
    ASSUME NEW S, IsFiniteSet(S), NEW f, NEW e, \A x \in S : f[x] = e[x],
           NEW g, NEW h, AddsUp(g, f, S), AddsUp(h, e, S)
    PROVE  \A s \in SUBSET S : g[s] = h[s]
<1> DEFINE T == {n \in Nat : \E s \in SUBSET S : Cardinality(s) = n /\ g[s] # h[s]}
<1>1. \A s \in SUBSET S : Cardinality(s) \in Nat
  BY FS_Subset, FS_CardinalityType
<1>2. T = {}
  <2>1. SUFFICES ASSUME T # {} PROVE FALSE
    OBVIOUS
  <2>2. PICK m \in T : \A n \in Nat : n < m => n \notin T
    BY <2>1, LeastNatural
  <2>3. PICK s \in SUBSET S : Cardinality(s) = m /\ g[s] # h[s]
    BY <2>2
  <2>4. CASE s = {}
    BY <2>3, <2>4 DEF AddsUp
  <2>5. CASE s # {}
    <3>1. Some(s) \in s
      BY <2>5 DEF Some
    <3> DEFINE z == s \ {Some(s)}
    <3>2. z \in SUBSET S /\ Cardinality(z) \in Nat /\ Cardinality(z) < m
      BY <2>3, <3>1, SomeLess
    <3>3. g[z] = h[z]
      BY <2>2, <3>2
    <3>4. f[Some(s)] = e[Some(s)]
      BY <3>1
    <3> QED BY <2>3, <2>5, <3>3, <3>4 DEF AddsUp
  <2> QED BY <2>4, <2>5
<1> QED BY <1>1, <1>2

(* The order does not matter. *)
LEMMA AnyAddend ==
    ASSUME NEW S, IsFiniteSet(S), NEW f, \A x \in S : f[x] \in Nat,
           NEW g \in [SUBSET S -> Nat], AddsUp(g, f, S)
    PROVE  AnyOrder(g, f, S)
<1> DEFINE T == {n \in Nat : \E s \in SUBSET S : /\ Cardinality(s) = n
                                                 /\ \E x \in s : g[s] # f[x] + g[s \ {x}]}
<1>1. \A s \in SUBSET S : Cardinality(s) \in Nat
  BY FS_Subset, FS_CardinalityType
<1>2. T = {}
  <2>1. SUFFICES ASSUME T # {} PROVE FALSE
    OBVIOUS
  <2>2. PICK m \in T : \A n \in Nat : n < m => n \notin T
    BY <2>1, LeastNatural
  <2>3. PICK s \in SUBSET S : Cardinality(s) = m /\ \E x \in s : g[s] # f[x] + g[s \ {x}]
    BY <2>2
  <2>4. PICK x \in s : g[s] # f[x] + g[s \ {x}]
    BY <2>3
  <2> DEFINE p == Some(s)
  <2>5. p \in s /\ g[s] = f[p] + g[s \ {p}]
    BY DEF Some, AddsUp
  <2> HIDE DEF p
  <2>6. x # p /\ x \in s \ {p} /\ p \in s \ {x}
    BY <2>4, <2>5
  <2>7. /\ s \ {p} \in SUBSET S /\ Cardinality(s \ {p}) \in Nat /\ Cardinality(s \ {p}) < m
        /\ s \ {x} \in SUBSET S /\ Cardinality(s \ {x}) \in Nat /\ Cardinality(s \ {x}) < m
    BY <2>3, <2>5, <2>6, SomeLess
  <2>8. g[s \ {p}] = f[x] + g[(s \ {p}) \ {x}]
    BY <2>2, <2>6, <2>7
  <2>9. g[s \ {x}] = f[p] + g[(s \ {x}) \ {p}]
    BY <2>2, <2>6, <2>7
  <2>10. (s \ {p}) \ {x} = (s \ {x}) \ {p}
    OBVIOUS
  <2>11. f[x] \in Nat /\ f[p] \in Nat /\ g[(s \ {x}) \ {p}] \in Nat
    BY <2>5, <2>6, <2>7
  <2>12. g[s] = f[p] + (f[x] + g[(s \ {x}) \ {p}])
    BY <2>5, <2>8, <2>10
  <2>13. f[x] + g[s \ {x}] = f[x] + (f[p] + g[(s \ {x}) \ {p}])
    BY <2>9
  <2>14. f[p] + (f[x] + g[(s \ {x}) \ {p}]) = f[x] + (f[p] + g[(s \ {x}) \ {p}])
    BY <2>11
  <2> QED BY <2>4, <2>12, <2>13, <2>14
<1> QED BY <1>1, <1>2 DEF AnyOrder

(* What the library's sum is. *)
LEMMA TotalAddsUp ==
    ASSUME NEW S, IsFiniteSet(S), NEW f, \A x \in S : f[x] \in Nat
    PROVE  \E g \in [SUBSET S -> Nat] : AddsUp(g, f, S) /\ Total(f, S) = g[S]
<1> DEFINE E(h) == [s \in SUBSET S |-> IF s = {} THEN 0 ELSE f[CHOOSE x \in s : TRUE]
                                                            + h[s \ {CHOOSE x \in s : TRUE}]]
           iter == CHOOSE h : h = E(h)
<1>1. Total(f, S) = iter[S]
  BY DEF Total, MapThenSumSet, MapThenFoldSet
<1>2. PICK g \in [SUBSET S -> Nat] : AddsUp(g, f, S)
  BY SumExists
<1>3. g = E(g)
  BY <1>2 DEF AddsUp, Some
<1>4. iter = E(iter)
  BY <1>3
<1> HIDE DEF iter
<1>5. AddsUp(iter, f, S)
  BY <1>4 DEF AddsUp, Some
<1>6. iter[S] = g[S]
  BY <1>2, <1>5, SumUnique
<1> QED BY <1>1, <1>2, <1>6

(* The sum of nothing. *)
LEMMA TotalOfNone == ASSUME NEW f PROVE Total(f, {}) = 0
<1>1. PICK g \in [SUBSET {} -> Nat] : AddsUp(g, f, {}) /\ Total(f, {}) = g[{}]
  BY TotalAddsUp, FS_EmptySet
<1> QED BY <1>1 DEF AddsUp

(* The sum with one addend more, and so with one less. *)
OneMore(f, S, e, x) ==
    Total(e, S \cup {x}) = Total(f, S) + e[x] /\ Total(f, S) \in Nat

(* Every sum has one addend more than another, in whatever order they are  *)
(* added up.                                                               *)
LEMMA TotalWith ==
    ASSUME NEW S, IsFiniteSet(S), NEW x, x \notin S, NEW f, NEW e,
           \A y \in S : f[y] \in Nat /\ e[y] = f[y], e[x] \in Nat
    PROVE  OneMore(f, S, e, x)
<1> DEFINE U == S \cup {x}
<1>1. IsFiniteSet(U) /\ \A y \in U : e[y] \in Nat
  BY FS_AddElement
<1>2. PICK g \in [SUBSET U -> Nat] : AddsUp(g, e, U) /\ Total(e, U) = g[U]
  BY <1>1, TotalAddsUp
<1>3. PICK h \in [SUBSET S -> Nat] : AddsUp(h, f, S) /\ Total(f, S) = h[S]
  BY TotalAddsUp
<1>4. AddsUp(g, e, S)
  BY <1>2 DEF AddsUp
<1>5. g[S] = h[S]
  BY <1>3, <1>4, SumUnique
<1>6. U \in SUBSET U /\ x \in U /\ U \ {x} = S /\ S \in SUBSET S
  OBVIOUS
<1> HIDE DEF U
<1>7. g[U] = e[x] + g[U \ {x}]
  <2>1. AnyOrder(g, e, U)
    BY <1>1, <1>2, AnyAddend
  <2> QED BY <1>6, <2>1 DEF AnyOrder
<1>8. Total(e, U) = e[x] + h[S] /\ h[S] \in Nat
  BY <1>2, <1>3, <1>5, <1>6, <1>7
<1> QED BY <1>3, <1>8 DEF U, OneMore

-----------------------------------------------------------------------------
(* The invariant, in parts by the variables they are about.                *)

JobRec  == [phase : Phase, tok : Token \cup {NoTok}, send : Request \cup {NoTok}]
StatRec == [failRev : Revision, backoff : BOOLEAN, lastRev : Revision]

ChannelTypes ==
    /\ enq \in Seq(Request) /\ Len(enq) <= EnqCap
    /\ pendingQ \in Seq(Repo)
    /\ sending \in Token \cup {NoTok}
    /\ forced \subseteq Token
    /\ jobs \in Seq(Token) /\ Len(jobs) <= Cardinality(Worker)
RepoTypes ==
    /\ pendingIndex \subseteq Repo
    /\ pendingRev \in [Repo -> Revision]
    /\ dirty \subseteq Repo
    /\ inflight \in [Repo -> Size \cup {0}]
    /\ predict \in [Repo -> Size]
    /\ stats \in [Repo -> StatRec]
WorkerTypes ==
    /\ job \in [Worker -> JobRec]
    /\ \A w \in Worker : job[w].phase # "idle" => job[w].tok \in Token
    /\ \A w \in Worker : job[w].send # NoTok => job[w].phase \in {"settling", "settlingOk"}
    /\ retry \in [Request -> Nat]
OtherTypes ==
    /\ deadMan \in {"off", "running", "expired"}
    /\ stage \subseteq {"held", "drain"}
    /\ want \in [Repo -> BOOLEAN]
    /\ claim \in [Repo -> {"free", "foreground", "background"}]
    /\ budget \in [{"triggers", "stages", "rebuilds"} -> Nat]

(* A repo is queued once, and it is pending because it is queued, or       *)
(* because it was admitted and no worker has started it.                   *)
QueueInv ==
    /\ \A i, j \in DOMAIN pendingQ : pendingQ[i] = pendingQ[j] => i = j
    /\ \A i \in DOMAIN pendingQ : pendingQ[i] \in pendingIndex /\ inflight[pendingQ[i]] = 0
    /\ \A r \in pendingIndex : Waiting(r) \/ r \in InFlight
    /\ IsFiniteSet(pendingIndex) /\ queueLen = Cardinality(pendingIndex)

(* A token that no worker has yet is for a repo that is still pending, one *)
(* that a worker has for a repo that is not, and each is in the ledger     *)
(* with the prediction it was admitted under.                              *)
Admitted(t) == t.repo \in pendingIndex /\ inflight[t.repo] = t.mb
Started(t)  == t.repo \notin pendingIndex /\ inflight[t.repo] = t.mb

TokenInv ==
    /\ \A i \in DOMAIN jobs : Admitted(jobs[i])
    /\ \A t \in forced : Admitted(t)
    /\ sending # NoTok => Admitted(sending)
    /\ \A w \in Worker : InHand(w) => Started(job[w].tok)

(* No two tokens are for one repo, *)
TokensApart ==
    /\ \A i, j \in DOMAIN jobs : jobs[i].repo = jobs[j].repo => i = j
    /\ \A t, u \in forced : t.repo = u.repo => t = u
    /\ \A i \in DOMAIN jobs, t \in forced : jobs[i].repo # t.repo
    /\ sending # NoTok => /\ \A i \in DOMAIN jobs : jobs[i].repo # sending.repo
                          /\ \A t \in forced : t.repo # sending.repo
    /\ \A v, w \in Worker : InHand(v) /\ InHand(w) /\ job[v].tok.repo = job[w].tok.repo => v = w

(* and what is in flight has one. *)
HasToken(r) ==
    \/ \E i \in DOMAIN jobs : jobs[i].repo = r
    \/ \E t \in forced : t.repo = r
    \/ sending # NoTok /\ sending.repo = r
    \/ \E w \in Worker : InHand(w) /\ job[w].tok.repo = r
FlightInv == \A r \in InFlight : HasToken(r)

LedgerInv == /\ IsFiniteSet(InFlight) /\ usedMB = Total(inflight, InFlight)
             /\ BudgetRespected /\ NoIndexBesideStage

Types == ChannelTypes /\ RepoTypes /\ WorkerTypes /\ OtherTypes
IInv  == Types /\ QueueInv /\ TokenInv /\ TokensApart /\ FlightInv /\ LedgerInv

-----------------------------------------------------------------------------
(* What is left of a queue when its i-th element is taken out. *)
Shortened(z, s, i) ==
    /\ Len(z) = Len(s) - 1 /\ DOMAIN z = 1..(Len(s) - 1)
    /\ \A k \in DOMAIN z : z[k] = IF k < i THEN s[k] ELSE s[k + 1]

(* Every queue, with any element taken out, is shortened by that element. *)
LEMMA TakenOut ==
    ASSUME NEW S, NEW s \in Seq(S), NEW i \in 1..Len(s), NEW z,
           z = SubSeq(s, 1, i - 1) \o SubSeq(s, i + 1, Len(s))
    PROVE  z \in Seq(S) /\ Shortened(z, s, i)
<1> DEFINE a == SubSeq(s, 1, i - 1)
           b == SubSeq(s, i + 1, Len(s))
<1>1. a \in Seq(S) /\ Len(a) = i - 1 /\ \A k \in 1..(i - 1) : a[k] = s[k]
  OBVIOUS
<1>2. b \in Seq(S) /\ Len(b) = Len(s) - i /\ \A k \in 1..(Len(s) - i) : b[k] = s[k + i]
  OBVIOUS
<1> HIDE DEF a, b
<1>3. /\ a \o b \in Seq(S) /\ Len(a \o b) = Len(a) + Len(b)
      /\ \A k \in 1..(Len(a) + Len(b)) :
            (a \o b)[k] = IF k <= Len(a) THEN a[k] ELSE b[k - Len(a)]
  BY <1>1, <1>2, ConcatProperties
<1>4. z = a \o b
  BY DEF a, b
<1>5. Len(a) + Len(b) = Len(s) - 1 /\ Len(a) = i - 1 /\ Len(s) \in Nat
  BY <1>1, <1>2
<1>6. z \in Seq(S) /\ Len(z) = Len(s) - 1 /\ DOMAIN z = 1..(Len(s) - 1)
  <2>1. z \in Seq(S) /\ Len(z) = Len(a) + Len(b)
    BY <1>3, <1>4, Zenon
  <2>2. DOMAIN z = 1..Len(z)
    BY <2>1
  <2> QED BY <1>5, <2>1, <2>2
<1>7. ASSUME NEW k \in 1..(Len(s) - 1)
      PROVE  z[k] = IF k < i THEN s[k] ELSE s[k + 1]
  <2>1. z[k] = IF k <= i - 1 THEN a[k] ELSE b[k - (i - 1)]
    BY <1>3, <1>4, <1>5
  <2>2. CASE k < i
    BY <1>1, <2>1, <2>2
  <2>3. CASE ~ (k < i)
    <3> DEFINE j == k - (i - 1)
    <3>1. j \in 1..(Len(s) - i) /\ j + i = k + 1
      BY <1>5, <2>3
    <3>2. ~ (k <= i - 1)
      BY <1>5, <2>3
    <3>3. z[k] = b[j]
      BY <2>1, <3>2
    <3> HIDE DEF j
    <3>4. b[j] = s[j + i]
      BY <1>2, <3>1
    <3> QED BY <2>3, <3>1, <3>3, <3>4
  <2> QED BY <2>2, <2>3
<1> QED BY <1>6, <1>7 DEF Shortened

(* The larger of two numbers. *)
LEMMA LargerOfTwo ==
    ASSUME NEW a \in Nat, NEW b \in Nat, a >= b
    PROVE  Max({a, b}) = a
BY DEF Max

(* Nothing is queued, admitted or running at the start. *)
LEMMA InitIInv == Init => IInv
<1> SUFFICES ASSUME Init PROVE IInv
  OBVIOUS
<1> USE CapAssumption, WorkerAssumption, BoundAssumption, SizeAssumption
<1>1. InFlight = {} /\ \A r \in Repo : inflight[r] = 0
  BY DEF Init, InFlight
<1>2. Cardinality(Worker) \in Nat
  BY FS_CardinalityType
<1>3. ChannelTypes
  BY <1>2 DEF Init, ChannelTypes
<1>4. RepoTypes
  BY DEF Init, RepoTypes, StatRec, Revision
<1>5. /\ Idle \in JobRec /\ Idle.phase = "idle" /\ Idle.send = NoTok
  BY DEF Idle, JobRec, Phase
<1>6. WorkerTypes
  BY <1>5 DEF Init, WorkerTypes
<1>7. OtherTypes
  BY DEF Init, OtherTypes
<1>8. QueueInv
  BY FS_EmptySet DEF Init, QueueInv
<1>9. TokenInv /\ TokensApart /\ FlightInv
  BY <1>1, <1>5 DEF Init, TokenInv, TokensApart, FlightInv, InHand
<1>10. LedgerInv
  <2>1. usedMB = 0 /\ Total(inflight, {}) = 0
    BY TotalOfNone DEF Init
  <2> QED BY <1>1, <2>1, FS_EmptySet, BudgetAssumption
          DEF LedgerInv, BudgetRespected, NoIndexBesideStage
<1> QED BY <1>3, <1>4, <1>6, <1>7, <1>8, <1>9, <1>10 DEF IInv, Types

-----------------------------------------------------------------------------
(* The steps, the types apart.                                             *)
Exact == QueueInv /\ TokenInv /\ TokensApart /\ FlightInv /\ LedgerInv

(* What is in flight, by the ledger's zeros. *)
LEMMA FlightIs ==
    ASSUME IInv
    PROVE  /\ \A r \in Repo : r \in InFlight <=> inflight[r] # 0
           /\ \A mb \in Size : mb \in Nat /\ mb > 0
<1>1. \A mb \in Size : mb \in Nat /\ mb > 0
  BY SizeAssumption
<1>2. \A r \in Repo : inflight[r] \in Size \/ inflight[r] = 0
  BY DEF IInv, Types, RepoTypes
<1> QED BY <1>1, <1>2 DEF InFlight

(* A step that leaves the queue, the ledger and the tokens alone. *)
LEMMA Untouched ==
    ASSUME IInv,
           UNCHANGED <<pendingQ, pendingIndex, queueLen, inflight, usedMB, sending, forced, jobs>>,
           \A w \in Worker : /\ InHand(w)' <=> InHand(w)
                             /\ InHand(w) => job'[w].tok = job[w].tok,
           "held" \in stage' => InFlight = {}
    PROVE  Exact'
<1>1. InFlight' = InFlight
  BY DEF InFlight
<1>2. QueueInv'
  BY <1>1 DEF IInv, QueueInv, Waiting
<1>3. TokenInv'
  BY DEF IInv, TokenInv, Admitted, Started
<1>4. TokensApart'
  BY DEF IInv, TokensApart
<1>5. FlightInv'
  BY <1>1 DEF IInv, FlightInv, HasToken
<1>6. Total(inflight, InFlight)' = Total(inflight, InFlight)
  BY <1>1
<1>7. LedgerInv'
  BY <1>1, <1>6 DEF IInv, LedgerInv, BudgetRespected, NoIndexBesideStage
<1> QED BY <1>2, <1>3, <1>4, <1>5, <1>7 DEF Exact

(* A repo that is neither queued nor in flight is queued. *)
LEMMA NewKeeps ==
    ASSUME IInv, NEW q \in Request, DedupNew(q)
    PROVE  Exact'
<1> DEFINE r == q.repo
<1>1. /\ pendingQ' = Append(pendingQ, r) /\ pendingIndex' = pendingIndex \cup {r}
      /\ queueLen' = queueLen + 1 /\ r \in Repo /\ r \notin pendingIndex \cup InFlight
      /\ UNCHANGED <<inflight, usedMB, sending, forced, jobs, job, stage>>
  BY DEF DedupNew, Receive, IsNew, Request, envVars
<1>2. inflight[r] = 0 /\ InFlight' = InFlight /\ \A w \in Worker : InHand(w)' <=> InHand(w)
  BY <1>1, FlightIs DEF InFlight, InHand
<1>3. /\ pendingQ \in Seq(Repo) /\ jobs \in Seq(Token) /\ forced \subseteq Token
      /\ sending \in Token \cup {NoTok}
      /\ \A w \in Worker : InHand(w) => job[w].tok \in Token
  BY DEF IInv, Types, ChannelTypes, WorkerTypes, InHand
<1> HIDE DEF r
<1>4. /\ DOMAIN pendingQ = 1..Len(pendingQ) /\ DOMAIN pendingQ' = 1..(Len(pendingQ) + 1)
      /\ \A k \in 1..Len(pendingQ) : pendingQ'[k] = pendingQ[k]
      /\ pendingQ'[Len(pendingQ) + 1] = r /\ Len(pendingQ) \in Nat
  BY <1>1, <1>3
<1>5. QueueInv'
  <2>1. \A k \in DOMAIN pendingQ : pendingQ[k] # r
    BY <1>1 DEF IInv, QueueInv
  <2>2. \A j, k \in DOMAIN pendingQ' : pendingQ'[j] = pendingQ'[k] => j = k
    BY <1>4, <2>1 DEF IInv, QueueInv
  <2>3. \A k \in DOMAIN pendingQ' : pendingQ'[k] \in pendingIndex' /\ inflight'[pendingQ'[k]] = 0
    BY <1>1, <1>2, <1>4 DEF IInv, QueueInv
  <2>4. \A x : Waiting(x) => Waiting(x)'
    BY <1>4 DEF Waiting
  <2>5. Waiting(r)'
    BY <1>4 DEF Waiting
  <2>6. IsFiniteSet(pendingIndex') /\ queueLen' = Cardinality(pendingIndex')
    BY <1>1, FS_AddElement DEF IInv, QueueInv
  <2> QED BY <1>1, <1>2, <2>2, <2>3, <2>4, <2>5, <2>6 DEF IInv, QueueInv
<1>6. TokenInv'
  <2>1. \A t \in Token : Admitted(t) => Admitted(t)'
    BY <1>1 DEF Admitted
  <2>2. \A t \in Token : Started(t) => Started(t)'
    BY <1>1, <1>2, FlightIs DEF Started, Token
  <2> QED BY <1>1, <1>2, <1>3, <2>1, <2>2 DEF IInv, TokenInv
<1>7. TokensApart'
  BY <1>1, <1>2 DEF IInv, TokensApart
<1>8. FlightInv'
  BY <1>1, <1>2 DEF IInv, FlightInv, HasToken
<1>9. LedgerInv'
  <2>1. Total(inflight, InFlight)' = Total(inflight, InFlight)
    BY <1>1, <1>2
  <2> QED BY <1>1, <1>2, <2>1 DEF IInv, LedgerInv, BudgetRespected, NoIndexBesideStage
<1> QED BY <1>5, <1>6, <1>7, <1>8, <1>9 DEF Exact

(* A token is in flight as long as something has it. *)
LEMMA HoldersFly ==
    ASSUME IInv
    PROVE  /\ \A i \in DOMAIN jobs : jobs[i] \in Token /\ inflight[jobs[i].repo] # 0
           /\ \A t \in forced : t \in Token /\ inflight[t.repo] # 0
           /\ sending # NoTok => sending \in Token /\ inflight[sending.repo] # 0
           /\ \A w \in Worker : InHand(w) => job[w].tok \in Token /\ inflight[job[w].tok.repo] # 0
<1>1. /\ \A i \in DOMAIN jobs : jobs[i] \in Token
      /\ forced \subseteq Token /\ sending \in Token \cup {NoTok}
      /\ \A w \in Worker : InHand(w) => job[w].tok \in Token
  BY DEF IInv, Types, ChannelTypes, WorkerTypes, InHand
<1>2. \A t \in Token : (Admitted(t) \/ Started(t)) => inflight[t.repo] # 0
  BY FlightIs DEF Admitted, Started, Token
<1> QED BY <1>1, <1>2 DEF IInv, TokenInv

(* The i-th of the queue is admitted, by budget or by the dead-man. *)
LEMMA TakeKeeps ==
    ASSUME IInv, NEW i \in DOMAIN pendingQ, TakeFromQueue(i), stage = {},
           NEW r, r = pendingQ[i], NEW t, t = TokenOf(r),
           MayAdmit(predict[r]) \/ InFlight = {},
           \/ sending = NoTok /\ sending' = t /\ forced' = forced
           \/ sending' = sending /\ forced' = forced \cup {t}
    PROVE  Exact'
<1>1. /\ pendingQ \in Seq(Repo) /\ i \in 1..Len(pendingQ) /\ r \in Repo
      /\ pendingIndex \subseteq Repo /\ inflight \in [Repo -> Size \cup {0}]
      /\ predict[r] \in Size /\ pendingRev[r] \in Revision
  BY DEF IInv, Types, ChannelTypes, RepoTypes
<1>2. /\ pendingQ' = SubSeq(pendingQ, 1, i - 1) \o SubSeq(pendingQ, i + 1, Len(pendingQ))
      /\ inflight' = [inflight EXCEPT ![r] = predict[r]] /\ usedMB' = usedMB + predict[r]
      /\ UNCHANGED <<pendingIndex, queueLen, jobs, job, stage>>
  BY DEF TakeFromQueue, envVars
<1>3. t \in Token /\ t.repo = r /\ t.mb = predict[r] /\ t # NoTok
  BY <1>1, TokAssumption DEF TokenOf, Token
<1>4. r \in pendingIndex /\ inflight[r] = 0 /\ r \notin InFlight
  BY <1>1, FlightIs DEF IInv, QueueInv
<1>5. /\ inflight'[r] = predict[r] /\ predict[r] \in Nat /\ predict[r] # 0
      /\ \A x \in Repo : x # r => inflight'[x] = inflight[x]
      /\ InFlight' = InFlight \cup {r}
  BY <1>1, <1>2, FlightIs DEF InFlight
<1>6. \/ sending = NoTok /\ sending' = t /\ forced' = forced
      \/ sending' = sending /\ forced' = forced \cup {t}
  OBVIOUS
<1>7. \A w \in Worker : InHand(w)' <=> InHand(w)
  BY <1>2 DEF InHand
<1>8. /\ DOMAIN pendingQ' = 1..(Len(pendingQ) - 1) /\ DOMAIN pendingQ = 1..Len(pendingQ)
      /\ \A k \in DOMAIN pendingQ' :
            pendingQ'[k] = IF k < i THEN pendingQ[k] ELSE pendingQ[k + 1]
      /\ Len(pendingQ) \in Nat
  <2>1. Shortened(pendingQ', pendingQ, i)
    BY <1>1, <1>2, TakenOut
  <2> QED BY <1>1, <2>1 DEF Shortened
<1>9. QueueInv'
  <2>1. \A j, k \in DOMAIN pendingQ : pendingQ[j] = pendingQ[k] => j = k
    BY DEF IInv, QueueInv
  <2>2. ASSUME NEW k \in DOMAIN pendingQ'
        PROVE  \E m \in DOMAIN pendingQ : /\ m = (IF k < i THEN k ELSE k + 1) /\ m # i
                                          /\ pendingQ'[k] = pendingQ[m]
    BY <1>1, <1>8
  <2>3. ASSUME NEW j \in DOMAIN pendingQ', NEW k \in DOMAIN pendingQ', pendingQ'[j] = pendingQ'[k]
        PROVE  j = k
    <3>1. PICK m \in DOMAIN pendingQ : m = (IF j < i THEN j ELSE j + 1) /\ pendingQ'[j] = pendingQ[m]
      BY <2>2
    <3>2. PICK n \in DOMAIN pendingQ : n = (IF k < i THEN k ELSE k + 1) /\ pendingQ'[k] = pendingQ[n]
      BY <2>2
    <3>3. m = n
      BY <2>1, <2>3, <3>1, <3>2
    <3> QED BY <1>1, <1>8, <3>1, <3>2, <3>3
  <2>4. ASSUME NEW k \in DOMAIN pendingQ'
        PROVE  pendingQ'[k] \in pendingIndex' /\ inflight'[pendingQ'[k]] = 0
    <3>1. PICK m \in DOMAIN pendingQ : m # i /\ pendingQ'[k] = pendingQ[m]
      BY <2>2
    <3>2. pendingQ[m] # r /\ pendingQ[m] \in Repo
      BY <1>1, <2>1, <3>1
    <3> QED BY <1>2, <1>5, <3>1, <3>2 DEF IInv, QueueInv
  <2>5. ASSUME NEW x, Waiting(x), x # r
        PROVE  Waiting(x)'
    <3>1. PICK m \in DOMAIN pendingQ : pendingQ[m] = x /\ m # i
      BY <2>5 DEF Waiting
    <3>2. CASE m < i
      <4>1. m \in DOMAIN pendingQ' /\ pendingQ'[m] = x
        BY <1>1, <1>8, <3>1, <3>2
      <4> QED BY <4>1 DEF Waiting
    <3>3. CASE ~ (m < i)
      <4>1. m - 1 \in DOMAIN pendingQ' /\ ~ (m - 1 < i) /\ (m - 1) + 1 = m
        BY <1>1, <1>8, <3>1, <3>3
      <4>2. pendingQ'[m - 1] = x
        BY <1>8, <3>1, <4>1
      <4> QED BY <4>1, <4>2 DEF Waiting
    <3> QED BY <3>2, <3>3
  <2>6. \A x \in pendingIndex' : Waiting(x)' \/ x \in InFlight'
    BY <1>2, <1>5, <2>5 DEF IInv, QueueInv
  <2> QED BY <1>2, <2>3, <2>4, <2>6 DEF IInv, QueueInv
<1>10. ASSUME NEW u \in Token, inflight[u.repo] # 0
       PROVE  /\ u.repo # r
              /\ Admitted(u) => Admitted(u)'
              /\ Started(u) => Started(u)'
  BY <1>2, <1>4, <1>5, <1>10 DEF Admitted, Started, Token
<1>11. Admitted(t)'
  BY <1>2, <1>3, <1>4, <1>5 DEF Admitted
<1>12. TokenInv'
  BY <1>2, <1>6, <1>7, <1>10, <1>11, HoldersFly DEF IInv, TokenInv
<1>13. TokensApart'
  <2>1. /\ \A k \in DOMAIN jobs : jobs[k].repo # r
        /\ \A u \in forced : u.repo # r
        /\ \A w \in Worker : InHand(w) => job[w].tok.repo # r
    BY <1>10, HoldersFly
  <2>2. \A v, w \in Worker : InHand(v)' /\ InHand(w)' /\ job'[v].tok.repo = job'[w].tok.repo => v = w
    BY <1>2, <1>7 DEF IInv, TokensApart
  <2>7. sending # NoTok => sending.repo # r
    BY <1>4, HoldersFly
  <2>3. sending' # NoTok => /\ \A k \in DOMAIN jobs' : jobs'[k].repo # sending'.repo
                            /\ \A u \in forced' : u.repo # sending'.repo
    <3>1. CASE sending' = t /\ forced' = forced
      BY <1>2, <1>3, <2>1, <3>1
    <3>2. CASE sending' = sending /\ forced' = forced \cup {t}
      BY <1>2, <1>3, <2>7, <3>2 DEF IInv, TokensApart
    <3> QED BY <1>6, <3>1, <3>2
  <2>4. \A u, v \in forced' : u.repo = v.repo => u = v
    BY <1>2, <1>3, <1>6, <2>1 DEF IInv, TokensApart
  <2>5. \A k \in DOMAIN jobs', u \in forced' : jobs'[k].repo # u.repo
    BY <1>2, <1>3, <1>6, <2>1 DEF IInv, TokensApart
  <2>6. \A k, l \in DOMAIN jobs' : jobs'[k].repo = jobs'[l].repo => k = l
    BY <1>2, <1>6 DEF IInv, TokensApart
  <2> QED BY <2>2, <2>3, <2>4, <2>5, <2>6 DEF TokensApart
<1>14. FlightInv'
  <2>1. \A x : HasToken(x) => HasToken(x)'
    BY <1>2, <1>6, <1>7 DEF HasToken
  <2>2. HasToken(r)'
    BY <1>3, <1>6 DEF HasToken
  <2> QED BY <1>5, <2>1, <2>2 DEF IInv, FlightInv
<1>15. LedgerInv'
  <2>1. IsFiniteSet(InFlight) /\ usedMB = Total(inflight, InFlight)
    BY DEF IInv, LedgerInv
  <2>2. \A x \in InFlight : inflight[x] \in Nat /\ inflight'[x] = inflight[x]
    BY <1>1, <1>4, <1>5, FlightIs DEF InFlight
  <2>3. /\ Total(inflight', InFlight \cup {r}) = Total(inflight, InFlight) + inflight'[r]
        /\ usedMB \in Nat
    <3>1. inflight'[r] \in Nat
      BY <1>5
    <3>2. OneMore(inflight, InFlight, inflight', r)
      BY <1>4, <2>1, <2>2, <3>1, TotalWith
    <3> QED BY <2>1, <3>2 DEF OneMore
  <2>4. usedMB' = Total(inflight', InFlight') /\ IsFiniteSet(InFlight')
    BY <1>2, <1>5, <2>1, <2>3, FS_AddElement
  <2>5. InFlight = {} => Cardinality(InFlight') = 1
    <3>1. InFlight = {} => InFlight' = {r}
      BY <1>5
    <3> QED BY <3>1, FS_Singleton, Zenon
  <2>6. BudgetRespected'
    BY <1>2, <1>5, <2>3, <2>5 DEF BudgetRespected, MayAdmit
  <2>7. NoIndexBesideStage'
    BY <1>2 DEF NoIndexBesideStage
  <2> QED BY <2>4, <2>6, <2>7 DEF LedgerInv
<1> QED BY <1>9, <1>12, <1>13, <1>14, <1>15 DEF Exact

(* The queue and the ledger do not look at the channels. *)
LEMMA QueueAndLedgerStay ==
    ASSUME IInv, UNCHANGED <<pendingQ, pendingIndex, queueLen, inflight, usedMB, stage>>
    PROVE  QueueInv' /\ LedgerInv' /\ InFlight' = InFlight
<1>1. InFlight' = InFlight
  BY DEF InFlight
<1>2. Total(inflight, InFlight)' = Total(inflight, InFlight)
  BY <1>1
<1>3. QueueInv'
  BY <1>1 DEF IInv, QueueInv, Waiting
<1>4. LedgerInv'
  BY <1>1, <1>2 DEF IInv, LedgerInv, BudgetRespected, NoIndexBesideStage
<1> QED BY <1>1, <1>3, <1>4

(* A token goes from the hand that sends it into the jobs channel. *)
LEMMA DeliverKeeps ==
    ASSUME IInv, NEW t, Deliver(t),
           \/ t = sending /\ t # NoTok /\ sending' = NoTok /\ forced' = forced
           \/ t \in forced /\ sending' = sending /\ forced' = forced \ {t}
    PROVE  Exact'
<1>1. /\ jobs' = Append(jobs, t)
      /\ UNCHANGED <<pendingQ, pendingIndex, queueLen, inflight, usedMB, job, stage>>
  BY DEF Deliver, queueVars, envVars
<1>2. QueueInv' /\ LedgerInv' /\ InFlight' = InFlight
  BY <1>1, QueueAndLedgerStay
<1>3. /\ jobs \in Seq(Token) /\ t \in Token /\ Admitted(t)
  BY DEF IInv, Types, ChannelTypes, TokenInv
<1>4. /\ DOMAIN jobs = 1..Len(jobs) /\ DOMAIN jobs' = 1..(Len(jobs) + 1) /\ Len(jobs) \in Nat
      /\ \A k \in DOMAIN jobs : jobs'[k] = jobs[k]
      /\ jobs'[Len(jobs) + 1] = t
  BY <1>1, <1>3
<1>5. \A w \in Worker : InHand(w)' <=> InHand(w)
  BY <1>1 DEF InHand
<1>6. TokenInv'
  <2>1. \A u : (Admitted(u)' <=> Admitted(u)) /\ (Started(u)' <=> Started(u))
    BY <1>1 DEF Admitted, Started
  <2> QED BY <1>1, <1>3, <1>4, <1>5, <2>1 DEF IInv, TokenInv
<1>7. TokensApart'
  <2>1. \A k \in DOMAIN jobs : jobs[k].repo # t.repo
    BY DEF IInv, TokensApart
  <2>2. \A k, m \in DOMAIN jobs' : jobs'[k].repo = jobs'[m].repo => k = m
    BY <1>4, <2>1 DEF IInv, TokensApart
  <2>3. \A u \in forced' : u.repo # t.repo
    BY DEF IInv, TokensApart
  <2>4. sending' # NoTok => sending'.repo # t.repo
    BY DEF IInv, TokensApart
  <2> QED BY <1>1, <1>4, <1>5, <2>2, <2>3, <2>4 DEF IInv, TokensApart
<1>8. FlightInv'
  <2>1. ASSUME NEW x, HasToken(x)
        PROVE  HasToken(x)'
    <3>1. CASE \E k \in DOMAIN jobs : jobs[k].repo = x
      BY <1>4, <3>1 DEF HasToken
    <3>2. CASE t.repo = x
      BY <1>4, <3>2 DEF HasToken
    <3>3. CASE \E u \in forced : u # t /\ u.repo = x
      BY <3>3 DEF HasToken
    <3>4. CASE sending # t /\ sending # NoTok /\ sending.repo = x
      BY <3>4 DEF HasToken
    <3>5. CASE \E w \in Worker : InHand(w) /\ job[w].tok.repo = x
      BY <1>1, <1>5, <3>5 DEF HasToken
    <3> QED BY <2>1, <3>1, <3>2, <3>3, <3>4, <3>5 DEF HasToken
  <2> QED BY <1>2, <2>1 DEF IInv, FlightInv
<1> QED BY <1>2, <1>6, <1>7, <1>8 DEF Exact

(* A worker starts the job at the head of the channel. *)
LEMMA StartKeeps ==
    ASSUME IInv, NEW w \in Worker, StartJob(w), NEW t, t = Head(jobs)
    PROVE  Exact'
<1>1. /\ jobs # <<>> /\ jobs' = Tail(jobs) /\ job[w].phase = "idle"
      /\ pendingIndex' = pendingIndex \ {t.repo} /\ queueLen' = queueLen - 1
      /\ job' = [job EXCEPT ![w] = [phase |-> IF CircuitOpen(t) THEN "skipped" ELSE "claiming",
                                    tok |-> t, send |-> NoTok]]
      /\ UNCHANGED <<pendingQ, inflight, usedMB, sending, forced, stage>>
  BY DEF StartJob, envVars
<1>2. jobs \in Seq(Token) /\ job \in [Worker -> JobRec]
  BY DEF IInv, Types, ChannelTypes, WorkerTypes
<1>3. /\ DOMAIN jobs = 1..Len(jobs) /\ DOMAIN jobs' = 1..(Len(jobs) - 1) /\ Len(jobs) \in Nat
      /\ 1 \in DOMAIN jobs /\ jobs[1] = t
      /\ \A k \in DOMAIN jobs' : k + 1 \in DOMAIN jobs /\ jobs'[k] = jobs[k + 1]
  BY <1>1, <1>2
<1>4. t \in Token /\ Admitted(t) /\ inflight[t.repo] # 0
  BY <1>2, <1>3, HoldersFly DEF IInv, TokenInv
<1>5. /\ InHand(w)' /\ job'[w].tok = t /\ ~ InHand(w)
      /\ \A v \in Worker : v # w => job'[v] = job[v] /\ (InHand(v)' <=> InHand(v))
  BY <1>1, <1>2 DEF InHand, Phase
<1>6. InFlight' = InFlight
  BY <1>1 DEF InFlight
<1>7. QueueInv'
  <2>1. \A k \in DOMAIN pendingQ : pendingQ[k] # t.repo
    BY <1>4 DEF IInv, QueueInv
  <2>2. \A x : Waiting(x)' <=> Waiting(x)
    BY <1>1 DEF Waiting
  <2>3. IsFiniteSet(pendingIndex') /\ queueLen' = Cardinality(pendingIndex')
    BY <1>1, <1>4, FS_RemoveElement DEF IInv, QueueInv, Admitted
  <2> QED BY <1>1, <1>6, <2>1, <2>2, <2>3 DEF IInv, QueueInv
<1>8. \A u : /\ Admitted(u) /\ u.repo # t.repo => Admitted(u)'
             /\ Started(u) => Started(u)' /\ u.repo # t.repo
  BY <1>1, <1>4 DEF Admitted, Started
<1>9. Started(t)'
  BY <1>1, <1>4 DEF Admitted, Started
<1>10. /\ \A k \in DOMAIN jobs' : jobs'[k].repo # t.repo
       /\ \A u \in forced : u.repo # t.repo
       /\ sending # NoTok => sending.repo # t.repo
  <2>1. \A k \in DOMAIN jobs : k # 1 => jobs[k].repo # t.repo
    BY <1>3 DEF IInv, TokensApart
  <2>2. \A k \in DOMAIN jobs' : k + 1 # 1
    BY <1>3
  <2> QED BY <1>3, <2>1, <2>2 DEF IInv, TokensApart
<1>11. TokenInv'
  <2>1. \A k \in DOMAIN jobs' : jobs'[k].repo \in pendingIndex' /\ inflight'[jobs'[k].repo] = jobs'[k].mb
    BY <1>1, <1>3, <1>10 DEF IInv, TokenInv, Admitted
  <2>2. (\A u \in forced' : Admitted(u)') /\ (sending' # NoTok => Admitted(sending)')
    BY <1>1, <1>8, <1>10 DEF IInv, TokenInv
  <2>3. \A v \in Worker : InHand(v)' => Started(job[v].tok)'
    BY <1>5, <1>8, <1>9 DEF IInv, TokenInv
  <2> QED BY <2>1, <2>2, <2>3 DEF TokenInv, Admitted
<1>12. TokensApart'
  <2>1. ASSUME NEW k \in DOMAIN jobs', NEW m \in DOMAIN jobs', jobs'[k].repo = jobs'[m].repo
        PROVE  k = m
    <3>1. k + 1 = m + 1
      BY <1>3, <2>1 DEF IInv, TokensApart
    <3> QED BY <1>3, <3>1
  <2>2. /\ \A k \in DOMAIN jobs', u \in forced' : jobs'[k].repo # u.repo
        /\ sending' # NoTok => \A k \in DOMAIN jobs' : jobs'[k].repo # sending'.repo
    BY <1>1, <1>3 DEF IInv, TokensApart
  <2>3. \A v \in Worker : InHand(v) => job[v].tok.repo # t.repo
    BY <1>8 DEF IInv, TokenInv
  <2>4. \A u, v \in Worker : InHand(u)' /\ InHand(v)' /\ job'[u].tok.repo = job'[v].tok.repo => u = v
    BY <1>5, <2>3 DEF IInv, TokensApart
  <2> QED BY <1>1, <2>1, <2>2, <2>4 DEF IInv, TokensApart
<1>13. FlightInv'
  <2>1. ASSUME NEW x, HasToken(x)
        PROVE  HasToken(x)'
    <3>1. CASE x = t.repo
      BY <1>5, <3>1 DEF HasToken
    <3>2. CASE x # t.repo /\ \E k \in DOMAIN jobs : jobs[k].repo = x
      <4>1. PICK k \in DOMAIN jobs : jobs[k].repo = x /\ k # 1
        BY <1>3, <3>2
      <4>2. k - 1 \in DOMAIN jobs' /\ (k - 1) + 1 = k
        BY <1>3, <4>1
      <4>3. jobs'[k - 1] = jobs[k]
        BY <1>3, <4>2
      <4> QED BY <4>1, <4>2, <4>3 DEF HasToken
    <3>3. CASE (\E u \in forced : u.repo = x) \/ (sending # NoTok /\ sending.repo = x)
      BY <1>1, <3>3 DEF HasToken
    <3>4. CASE \E v \in Worker : InHand(v) /\ job[v].tok.repo = x
      BY <1>5, <3>4 DEF HasToken
    <3> QED BY <2>1, <3>1, <3>2, <3>3, <3>4 DEF HasToken
  <2> QED BY <1>6, <2>1 DEF IInv, FlightInv
<1>14. LedgerInv'
  <2>1. Total(inflight, InFlight)' = Total(inflight, InFlight)
    BY <1>1, <1>6
  <2> QED BY <1>1, <1>6, <2>1 DEF IInv, LedgerInv, BudgetRespected, NoIndexBesideStage
<1> QED BY <1>7, <1>11, <1>12, <1>13, <1>14 DEF Exact

(* A worker retires its token. *)
LEMMA RetireKeeps ==
    ASSUME IInv, NEW w \in Worker, Retire(w), NEW t, t = job[w].tok
    PROVE  Exact'
<1>1. /\ job[w].phase \in {"skipped", "yielded", "ok", "failed"}
      /\ inflight' = [inflight EXCEPT ![t.repo] = 0] /\ usedMB' = Max({usedMB - t.mb, 0})
      /\ job' = [job EXCEPT ![w] =
                   [phase |-> IF job[w].phase = "ok" THEN "settlingOk" ELSE "settling", tok |-> t,
                    send |-> IF Owed(job[w].phase, t.repo) THEN FollowUp(t) ELSE NoTok]]
      /\ UNCHANGED <<pendingQ, pendingIndex, queueLen, sending, forced, jobs, stage>>
  BY DEF Retire, LedgerWithout, envVars
<1>2. job \in [Worker -> JobRec] /\ inflight \in [Repo -> Size \cup {0}]
  BY DEF IInv, Types, WorkerTypes, RepoTypes
<1>3. InHand(w)
  BY <1>1 DEF InHand, Phase
<1>4. t \in Token /\ Started(t) /\ inflight[t.repo] # 0 /\ t.repo \in Repo /\ t.mb \in Size
  BY <1>3, HoldersFly DEF IInv, TokenInv, Token
<1>5. /\ ~ InHand(w)'
      /\ \A v \in Worker : v # w => job'[v] = job[v] /\ (InHand(v)' <=> InHand(v))
  BY <1>1, <1>2 DEF InHand
<1>6. /\ inflight'[t.repo] = 0 /\ \A x \in Repo : x # t.repo => inflight'[x] = inflight[x]
      /\ InFlight' = InFlight \ {t.repo} /\ t.repo \in InFlight
  BY <1>1, <1>2, <1>4, FlightIs DEF InFlight
<1>7. /\ \A u \in Token : Admitted(u) => u.repo # t.repo /\ Admitted(u)'
      /\ \A u \in Token : Started(u) /\ u.repo # t.repo => Started(u)'
  BY <1>1, <1>4, <1>6 DEF Admitted, Started, Token
<1>8. \A v \in Worker : InHand(v)' => InHand(v) /\ v # w /\ job[v].tok.repo # t.repo
  BY <1>3, <1>5 DEF IInv, TokensApart
<1>9. QueueInv'
  <2>1. \A x : Waiting(x)' <=> Waiting(x)
    BY <1>1 DEF Waiting
  <2>2. t.repo \notin pendingIndex /\ pendingIndex \subseteq Repo
    BY <1>4 DEF Started, IInv, Types, RepoTypes
  <2>3. \A k \in DOMAIN pendingQ : pendingQ[k] \in pendingIndex' /\ inflight'[pendingQ[k]] = 0
    BY <1>1, <1>6, <2>2 DEF IInv, QueueInv
  <2> QED BY <1>1, <1>6, <2>1, <2>2, <2>3 DEF IInv, QueueInv
<1>10. TokenInv'
  BY <1>1, <1>5, <1>7, <1>8, HoldersFly DEF IInv, TokenInv
<1>11. TokensApart'
  BY <1>1, <1>5, <1>8 DEF IInv, TokensApart
<1>12. FlightInv'
  <2>1. ASSUME NEW x, HasToken(x), x # t.repo
        PROVE  HasToken(x)'
    <3>1. CASE \E v \in Worker : InHand(v) /\ job[v].tok.repo = x
      <4>1. PICK v \in Worker : InHand(v) /\ job[v].tok.repo = x
        BY <3>1
      <4>2. v # w
        BY <2>1, <4>1
      <4> QED BY <1>5, <4>1, <4>2 DEF HasToken
    <3>2. CASE ~ \E v \in Worker : InHand(v) /\ job[v].tok.repo = x
      BY <1>1, <2>1, <3>2 DEF HasToken
    <3> QED BY <3>1, <3>2
  <2> QED BY <1>6, <2>1 DEF IInv, FlightInv
<1>13. LedgerInv'
  <2>1. IsFiniteSet(InFlight) /\ usedMB = Total(inflight, InFlight) /\ IsFiniteSet(InFlight')
    BY <1>6, FS_RemoveElement DEF IInv, LedgerInv
  <2>2. \A x \in InFlight' : inflight'[x] \in Nat /\ inflight[x] = inflight'[x]
    BY <1>2, <1>6, FlightIs DEF InFlight
  <2>3. inflight[t.repo] = t.mb /\ t.mb \in Nat
    BY <1>4, FlightIs DEF Started
  <2>4. t.repo \notin InFlight' /\ InFlight' \cup {t.repo} = InFlight
    BY <1>6
  <2>5. OneMore(inflight', InFlight', inflight, t.repo)
    BY <2>1, <2>2, <2>3, <2>4, TotalWith
  <2>6. usedMB = Total(inflight', InFlight') + t.mb /\ Total(inflight', InFlight') \in Nat
    BY <2>1, <2>3, <2>4, <2>5 DEF OneMore
  <2>7. usedMB' = Total(inflight', InFlight')
    <3>1. usedMB - t.mb = Total(inflight', InFlight') /\ usedMB - t.mb >= 0
      BY <2>3, <2>6
    <3> QED BY <1>1, <2>6, <3>1, LargerOfTwo
  <2>8. BudgetRespected'
    <3>1. CASE Cardinality(InFlight) = 1
      <4>1. InFlight' = {}
        BY <1>6, <2>1, <3>1, FS_Singleton
      <4>2. usedMB' = 0
        BY <2>7, <4>1, TotalOfNone
      <4> QED BY <4>2, BudgetAssumption DEF BudgetRespected
    <3>2. CASE BudgetMB = 0 \/ usedMB <= BudgetMB
      BY <2>3, <2>6, <2>7, <3>2, BudgetAssumption DEF BudgetRespected
    <3> QED BY <3>1, <3>2 DEF IInv, LedgerInv, BudgetRespected
  <2>9. NoIndexBesideStage'
    BY <1>1, <1>6 DEF IInv, LedgerInv, NoIndexBesideStage
  <2> QED BY <2>1, <2>7, <2>8, <2>9 DEF LedgerInv
<1> QED BY <1>9, <1>10, <1>11, <1>12, <1>13 DEF Exact

-----------------------------------------------------------------------------
(* The types. *)

(* The channels' and the ledger's types after a step: what is sent is a    *)
(* request or a token, and there is room for it.                           *)
LEMMA ChannelTypesKept == IInv /\ Next => ChannelTypes'
<1> SUFFICES ASSUME IInv, Next PROVE ChannelTypes'
  OBVIOUS
<1>1. /\ enq \in Seq(Request) /\ Len(enq) <= EnqCap /\ pendingQ \in Seq(Repo)
      /\ sending \in Token \cup {NoTok} /\ forced \subseteq Token
      /\ jobs \in Seq(Token) /\ Len(jobs) <= Cardinality(Worker)
      /\ EnqCap \in Nat /\ Cardinality(Worker) \in Nat
  BY CapAssumption, WorkerAssumption, FS_CardinalityType DEF IInv, Types, ChannelTypes
<1>2. \A q \in Request : Send(q) => enq' \in Seq(Request) /\ Len(enq') <= EnqCap
  BY <1>1 DEF Send
<1>3. \A r \in Repo : TokenOf(r) \in Token
  BY DEF TokenOf, Token, IInv, Types, RepoTypes
<1>4. ASSUME NEW i \in DOMAIN pendingQ, TakeFromQueue(i)
      PROVE  /\ pendingQ' \in Seq(Repo) /\ TokenOf(pendingQ[i]) \in Token
             /\ UNCHANGED <<enq, jobs>>
  <2>1. i \in 1..Len(pendingQ) /\ pendingQ[i] \in Repo
    BY <1>1
  <2>2. pendingQ' = SubSeq(pendingQ, 1, i - 1) \o SubSeq(pendingQ, i + 1, Len(pendingQ))
    BY <1>4 DEF TakeFromQueue
  <2>3. pendingQ' \in Seq(Repo)
    BY <1>1, <2>1, <2>2, TakenOut
  <2> QED BY <1>3, <1>4, <2>1, <2>3 DEF TakeFromQueue
<1>5. ASSUME NEW t \in Token, Deliver(t)
      PROVE  /\ jobs' \in Seq(Token) /\ Len(jobs') <= Cardinality(Worker)
             /\ UNCHANGED <<enq, pendingQ>>
  BY <1>1, <1>5 DEF Deliver, queueVars
<1>6. CASE \E q \in Request : Enqueue(q) \/ RetryFires(q)
  BY <1>1, <1>2, <1>6 DEF Enqueue, RetryFires, queueVars, admitVars, ChannelTypes
<1>7. CASE Dedup
  <2>1. PICK q \in Request : DedupInFlight(q) \/ DedupQueued(q) \/ DedupNew(q)
    BY <1>7 DEF Dedup
  <2>2. /\ enq # <<>> /\ enq' = Tail(enq) /\ UNCHANGED <<sending, forced, jobs>>
    BY <2>1 DEF DedupInFlight, DedupQueued, DedupNew, Receive
  <2>3. enq' \in Seq(Request) /\ Len(enq') <= EnqCap
    BY <1>1, <2>2
  <2>4. pendingQ' \in Seq(Repo)
    <3>1. pendingQ' = pendingQ \/ (q.repo \in Repo /\ pendingQ' = Append(pendingQ, q.repo))
      BY <2>1 DEF DedupInFlight, DedupQueued, DedupNew, Request
    <3> QED BY <1>1, <3>1
  <2> QED BY <1>1, <2>2, <2>3, <2>4 DEF ChannelTypes
<1>8. CASE Admit
  <2>1. 1 \in DOMAIN pendingQ /\ Head(pendingQ) = pendingQ[1]
    BY <1>1, <1>8 DEF Admit
  <2> QED BY <1>1, <1>4, <1>8, <2>1 DEF Admit, ChannelTypes
<1>9. CASE DeliverAdmitted
  BY <1>1, <1>5, <1>9 DEF DeliverAdmitted, ChannelTypes
<1>10. CASE ResetDeadMan \/ DeadManExpires
  BY <1>1, <1>10 DEF ResetDeadMan, DeadManExpires, queueVars, ChannelTypes
<1>11. CASE ForceAdmit
  BY <1>1, <1>4, <1>11 DEF ForceAdmit, ChannelTypes
<1>12. CASE \E t \in forced : DeliverForced(t)
  BY <1>1, <1>5, <1>12 DEF DeliverForced, ChannelTypes
<1>13. ASSUME NEW w \in Worker, WorkerStep(w)
       PROVE  ChannelTypes'
  <2>1. CASE StartJob(w)
    <3>1. jobs # <<>> /\ jobs' = Tail(jobs) /\ UNCHANGED <<enq, pendingQ, sending, forced>>
      BY <2>1 DEF StartJob
    <3>2. jobs' \in Seq(Token) /\ Len(jobs') <= Cardinality(Worker)
      BY <1>1, <3>1
    <3> QED BY <1>1, <3>1, <3>2 DEF ChannelTypes
  <2>2. CASE ClaimRepo(w) \/ IndexReturns(w) \/ Retire(w)
    BY <1>1, <2>2 DEF ClaimRepo, IndexReturns, Retire, queueVars, admitVars, ChannelTypes
  <2>3. CASE Settle(w)
    <3>1. job[w].send \in Request \cup {NoTok} /\ UNCHANGED <<pendingQ, sending, forced, jobs>>
      BY <2>3 DEF Settle, queueVars, admitVars, IInv, Types, WorkerTypes, JobRec
    <3>2. enq' = enq \/ (job[w].send # NoTok /\ Send(job[w].send))
      BY <2>3 DEF Settle
    <3> QED BY <1>1, <1>2, <3>1, <3>2 DEF ChannelTypes
  <2> QED BY <1>13, <2>1, <2>2, <2>3 DEF WorkerStep
<1>14. CASE Neighbour \/ \E r \in Repo : BackoffExpires(r) \/ MarkIndexed(r)
  BY <1>1, <1>14 DEF Neighbour, StageAcquires, StageDrains, StageReleases, StageChanges,
      RebuildWants, RebuildClaims, RebuildReleases, BackoffExpires, MarkIndexed,
      queueVars, admitVars, ChannelTypes
<1> QED BY <1>6, <1>7, <1>8, <1>9, <1>10, <1>11, <1>12, <1>13, <1>14 DEF Next

(* The per-repo state. *)
LEMMA RepoTypesKept == IInv /\ Next => RepoTypes'
<1> SUFFICES ASSUME IInv, Next PROVE RepoTypes'
  OBVIOUS
<1>1. /\ pendingIndex \subseteq Repo /\ pendingRev \in [Repo -> Revision] /\ dirty \subseteq Repo
      /\ inflight \in [Repo -> Size \cup {0}] /\ predict \in [Repo -> Size]
      /\ stats \in [Repo -> StatRec]
  BY DEF IInv, Types, RepoTypes
<1>2. NoRev \in Revision
  BY DEF Revision
<1>3. ASSUME NEW i \in DOMAIN pendingQ, TakeFromQueue(i)
      PROVE  RepoTypes'
  <2> DEFINE r == pendingQ[i]
  <2>1. r \in Repo
    BY DEF IInv, Types, ChannelTypes
  <2>2. /\ pendingRev' = [pendingRev EXCEPT ![r] = NoRev]
        /\ inflight' = [inflight EXCEPT ![r] = predict[r]]
        /\ UNCHANGED <<pendingIndex, dirty, predict, stats>>
    BY <1>3 DEF TakeFromQueue
  <2> QED BY <1>1, <1>2, <2>1, <2>2 DEF RepoTypes
<1>4. CASE \/ \E q \in Request : Enqueue(q) \/ RetryFires(q)
           \/ DeliverAdmitted \/ ResetDeadMan \/ DeadManExpires
           \/ \E t \in forced : DeliverForced(t)
           \/ Neighbour
  BY <1>1, <1>4 DEF Enqueue, RetryFires, DeliverAdmitted, DeliverForced, Deliver, ResetDeadMan,
      DeadManExpires, Neighbour, StageAcquires, StageDrains, StageReleases, StageChanges,
      RebuildWants, RebuildClaims, RebuildReleases, queueVars, admitVars, RepoTypes
<1>5. CASE Dedup
  <2>1. PICK q \in Request : DedupInFlight(q) \/ DedupQueued(q) \/ DedupNew(q)
    BY <1>5 DEF Dedup
  <2>2. /\ q.repo \in Repo /\ q.rev \in Revision /\ Newest(pendingRev[q.repo], q.rev) \in Revision
    BY <1>1 DEF Request, Newest
  <2>3. /\ pendingIndex' \subseteq Repo /\ dirty' \subseteq Repo
        /\ UNCHANGED <<inflight, predict, stats>>
        /\ \/ pendingRev' = [pendingRev EXCEPT ![q.repo] = Newest(pendingRev[q.repo], q.rev)]
           \/ pendingRev' = [pendingRev EXCEPT ![q.repo] = q.rev]
    BY <1>1, <2>1, <2>2 DEF DedupInFlight, DedupQueued, DedupNew, Receive
  <2> QED BY <1>1, <2>2, <2>3 DEF RepoTypes
<1>6. CASE Admit
  <2>1. 1 \in DOMAIN pendingQ
    BY <1>6 DEF Admit, IInv, Types, ChannelTypes
  <2> QED BY <1>3, <1>6, <2>1 DEF Admit
<1>7. CASE ForceAdmit
  BY <1>3, <1>7 DEF ForceAdmit
<1>8. ASSUME NEW w \in Worker, WorkerStep(w)
      PROVE  RepoTypes'
  <2>1. CASE StartJob(w) \/ ClaimRepo(w) \/ IndexReturns(w)
    BY <1>1, <2>1 DEF StartJob, ClaimRepo, IndexReturns, queueVars, admitVars, RepoTypes
  <2>2. CASE Retire(w)
    <3>1. job[w].tok \in Token
      BY <2>2 DEF Retire, IInv, Types, WorkerTypes
    <3>2. PICK t \in Token : t = job[w].tok
      BY <3>1
    <3>3. /\ stats' = [stats EXCEPT ![t.repo] = StatsAfter(job[w].phase, t)]
          /\ inflight' = [inflight EXCEPT ![t.repo] = 0]
          /\ dirty' = dirty \ {t.repo} /\ UNCHANGED <<pendingIndex, pendingRev, predict>>
      BY <2>2, <3>2 DEF Retire
    <3>4. /\ t.repo \in Repo /\ t.rev \in Revision /\ stats[t.repo] \in StatRec
          /\ TRUE \in BOOLEAN /\ FALSE \in BOOLEAN
      BY <1>1 DEF Token
    <3>5. StatsAfter(job[w].phase, t) \in StatRec
      BY <1>2, <3>4 DEF StatsAfter, StatRec
    <3> QED BY <1>1, <3>3, <3>4, <3>5 DEF RepoTypes
  <2>3. CASE Settle(w)
    <3>1. UNCHANGED <<pendingIndex, pendingRev, dirty, inflight, stats>>
      BY <2>3 DEF Settle, queueVars, admitVars
    <3>2. predict' = predict \/ \E mb \in Size : predict' = [predict EXCEPT ![job[w].tok.repo] = mb]
      BY <2>3 DEF Settle
    <3>3. predict' \in [Repo -> Size]
      BY <1>1, <3>2
    <3> QED BY <1>1, <3>1, <3>3 DEF RepoTypes
  <2> QED BY <1>8, <2>1, <2>2, <2>3 DEF WorkerStep
<1>9. ASSUME NEW r \in Repo, BackoffExpires(r) \/ MarkIndexed(r)
      PROVE  RepoTypes'
  <2>1. UNCHANGED <<pendingIndex, pendingRev, dirty, inflight, predict>>
    BY <1>9 DEF BackoffExpires, MarkIndexed, queueVars, admitVars
  <2>2. stats[r] \in StatRec
    BY <1>1
  <2>3. CASE BackoffExpires(r)
    <3>1. [stats[r] EXCEPT !.backoff = FALSE] \in StatRec
      BY <2>2 DEF StatRec
    <3>2. stats' = [stats EXCEPT ![r] = [stats[r] EXCEPT !.backoff = FALSE]]
      BY <1>1, <2>3 DEF BackoffExpires
    <3> QED BY <1>1, <2>1, <3>1, <3>2 DEF RepoTypes
  <2>4. CASE MarkIndexed(r)
    <3>1. [[stats[r] EXCEPT !.failRev = NoRev] EXCEPT !.backoff = FALSE] \in StatRec
      BY <1>2, <2>2 DEF StatRec
    <3>2. stats' = [stats EXCEPT ![r] = [[stats[r] EXCEPT !.failRev = NoRev] EXCEPT !.backoff = FALSE]]
      BY <1>1, <2>4 DEF MarkIndexed
    <3> QED BY <1>1, <2>1, <3>1, <3>2 DEF RepoTypes
  <2> QED BY <1>9, <2>3, <2>4
<1> QED BY <1>4, <1>5, <1>6, <1>7, <1>8, <1>9 DEF Next
(* The workers' state. *)
LEMMA WorkerTypesKept == IInv /\ Next => WorkerTypes'
<1> SUFFICES ASSUME IInv, Next PROVE WorkerTypes'
  OBVIOUS
<1>1. /\ job \in [Worker -> JobRec] /\ retry \in [Request -> Nat]
      /\ \A w \in Worker : job[w].phase # "idle" => job[w].tok \in Token
      /\ \A w \in Worker : job[w].send # NoTok => job[w].phase \in {"settling", "settlingOk"}
  BY DEF IInv, Types, WorkerTypes
<1>2. ASSUME NEW w \in Worker, NEW rec \in JobRec, rec.phase # "idle" => rec.tok \in Token,
             rec.send # NoTok => rec.phase \in {"settling", "settlingOk"},
             job' = [job EXCEPT ![w] = rec], retry' \in [Request -> Nat]
      PROVE  WorkerTypes'
  BY <1>1, <1>2 DEF WorkerTypes
<1>3. CASE UNCHANGED <<job, retry>>
  BY <1>1, <1>3 DEF WorkerTypes
<1>4. ASSUME NEW q \in Request, Enqueue(q) \/ RetryFires(q)
      PROVE  WorkerTypes'
  <2>1. CASE Enqueue(q)
    BY <1>3, <2>1 DEF Enqueue
  <2>2. CASE RetryFires(q)
    BY <1>1, <2>2 DEF RetryFires, WorkerTypes
  <2> QED BY <1>4, <2>1, <2>2
<1>5. ASSUME Dedup \/ Admit \/ DeliverAdmitted \/ ResetDeadMan \/ DeadManExpires \/ ForceAdmit
             \/ (\E t \in forced : DeliverForced(t)) \/ Neighbour
             \/ \E r \in Repo : BackoffExpires(r) \/ MarkIndexed(r)
      PROVE  UNCHANGED <<job, retry>>
  BY <1>5 DEF Dedup, DedupInFlight, DedupQueued, DedupNew, Receive, Admit, TakeFromQueue, ForceAdmit,
      DeliverAdmitted, DeliverForced, Deliver, ResetDeadMan, DeadManExpires, Neighbour, StageAcquires,
      StageDrains, StageReleases, StageChanges, RebuildWants, RebuildClaims, RebuildReleases,
      BackoffExpires, MarkIndexed
<1>6. ASSUME NEW w \in Worker, WorkerStep(w)
      PROVE  WorkerTypes'
  <2>1. job[w] \in JobRec
    BY <1>1
  <2>2. CASE StartJob(w)
    <3>1. Head(jobs) \in Token
      BY <2>2 DEF StartJob, IInv, Types, ChannelTypes
    <3>2. PICK t \in Token : t = Head(jobs)
      BY <3>1
    <3>3. /\ job' = [job EXCEPT ![w] =
                       [phase |-> IF CircuitOpen(t) THEN "skipped" ELSE "claiming",
                        tok |-> t, send |-> NoTok]]
          /\ retry' = retry
      BY <2>2, <3>2 DEF StartJob
    <3>4. [phase |-> IF CircuitOpen(t) THEN "skipped" ELSE "claiming", tok |-> t, send |-> NoTok]
             \in JobRec
      BY DEF JobRec, Phase
    <3> QED BY <1>1, <1>2, <3>3, <3>4
  <2>3. CASE ClaimRepo(w) \/ IndexReturns(w)
    <3>1. job[w].phase # "idle" /\ job[w].tok \in Token /\ retry' = retry
      BY <1>1, <2>3 DEF ClaimRepo, IndexReturns
    <3>2. \E ph \in {"running", "yielded", "ok", "failed"} : job' = [job EXCEPT ![w].phase = ph]
      BY <2>3 DEF ClaimRepo, IndexReturns
    <3>3. PICK ph \in {"running", "yielded", "ok", "failed"} : job' = [job EXCEPT ![w].phase = ph]
      BY <3>2
    <3>4. /\ [job[w] EXCEPT !.phase = ph] \in JobRec
          /\ [job[w] EXCEPT !.phase = ph].tok = job[w].tok
          /\ [job[w] EXCEPT !.phase = ph].send = job[w].send
      BY <2>1 DEF JobRec, Phase
    <3>6. job[w].send = NoTok
      BY <1>1, <2>3 DEF ClaimRepo, IndexReturns
    <3>5. job' = [job EXCEPT ![w] = [job[w] EXCEPT !.phase = ph]]
      BY <1>1, <3>3
    <3> QED BY <1>1, <1>2, <3>1, <3>4, <3>5, <3>6
  <2>4. CASE Retire(w)
    <3>1. job[w].tok \in Token
      BY <1>1, <2>4 DEF Retire
    <3>2. PICK t \in Token : t = job[w].tok
      BY <3>1
    <3>3. FollowUp(t) \in Request
      BY DEF FollowUp, Newest, Request, Token, IInv, Types, RepoTypes
    <3> DEFINE rec == [phase |-> IF job[w].phase = "ok" THEN "settlingOk" ELSE "settling", tok |-> t,
                       send |-> IF Owed(job[w].phase, t.repo) THEN FollowUp(t) ELSE NoTok]
    <3>4. rec \in JobRec /\ rec.tok \in Token /\ rec.phase \in {"settling", "settlingOk"}
      BY <3>3 DEF JobRec, Phase
    <3>5. /\ job' = [job EXCEPT ![w] = rec]
          /\ retry' = IF job[w].phase = "yielded" THEN [retry EXCEPT ![FollowUp(t)] = @ + 1] ELSE retry
      BY <2>4, <3>2 DEF Retire
    <3> HIDE DEF rec
    <3>6. retry' \in [Request -> Nat]
      BY <1>1, <3>3, <3>5
    <3> QED BY <1>2, <3>4, <3>5, <3>6
  <2>5. CASE Settle(w)
    <3>1. job' = [job EXCEPT ![w] = Idle] /\ retry' = retry
      BY <2>5 DEF Settle
    <3>2. Idle \in JobRec /\ Idle.phase = "idle" /\ Idle.send = NoTok
      BY DEF Idle, JobRec, Phase
    <3> QED BY <1>1, <1>2, <3>1, <3>2
  <2> QED BY <1>6, <2>2, <2>3, <2>4, <2>5 DEF WorkerStep
<1> QED BY <1>3, <1>4, <1>5, <1>6 DEF Next

(* The rest. *)
LEMMA OtherTypesKept == IInv /\ Next => OtherTypes'
<1> SUFFICES ASSUME IInv, Next PROVE OtherTypes'
  OBVIOUS
<1>1. /\ deadMan \in {"off", "running", "expired"} /\ stage \subseteq {"held", "drain"}
      /\ want \in [Repo -> BOOLEAN] /\ claim \in [Repo -> {"free", "foreground", "background"}]
      /\ budget \in [{"triggers", "stages", "rebuilds"} -> Nat]
  BY DEF IInv, Types, OtherTypes
<1>2. deadMan' \in {"off", "running", "expired"}
  BY <1>1 DEF Next, Enqueue, RetryFires, Dedup, DedupInFlight, DedupQueued, DedupNew, Receive, Admit,
      TakeFromQueue, ForceAdmit, DeliverAdmitted, DeliverForced, Deliver, ResetDeadMan,
      DeadManExpires, WorkerStep, StartJob, ClaimRepo, IndexReturns, Retire, Settle,
      BackoffExpires, MarkIndexed, Neighbour, StageAcquires, StageDrains, StageReleases,
      StageChanges, RebuildWants, RebuildClaims, RebuildReleases, admitVars
<1>3. CASE UNCHANGED <<stage, want, claim, budget>>
  BY <1>1, <1>2, <1>3 DEF OtherTypes
<1>4. ASSUME (\E q \in Request : RetryFires(q)) \/ Dedup \/ Admit \/ DeliverAdmitted \/ ResetDeadMan
             \/ DeadManExpires \/ ForceAdmit \/ (\E t \in forced : DeliverForced(t))
             \/ (\E w \in Worker : StartJob(w) \/ Retire(w) \/ Settle(w))
             \/ \E r \in Repo : BackoffExpires(r) \/ MarkIndexed(r)
      PROVE  UNCHANGED <<stage, want, claim, budget>>
  BY <1>4 DEF RetryFires, Dedup, DedupInFlight, DedupQueued, DedupNew, Receive, Admit, TakeFromQueue,
      ForceAdmit, DeliverAdmitted, DeliverForced, Deliver, ResetDeadMan, DeadManExpires,
      StartJob, Retire, Settle, BackoffExpires, MarkIndexed, envVars
<1>5. ASSUME NEW q \in Request, Enqueue(q)
      PROVE  OtherTypes'
  BY <1>1, <1>2, <1>5 DEF Enqueue, envVars, OtherTypes
<1>6. ASSUME NEW w \in Worker, ClaimRepo(w) \/ IndexReturns(w)
      PROVE  OtherTypes'
  <2>1. UNCHANGED <<stage, want, budget>>
    BY <1>6 DEF ClaimRepo, IndexReturns
  <2>2. claim' \in [Repo -> {"free", "foreground", "background"}]
    BY <1>1, <1>6 DEF ClaimRepo, IndexReturns
  <2> QED BY <1>1, <1>2, <2>1, <2>2 DEF OtherTypes
<1>7. CASE StageAcquires \/ StageDrains \/ StageReleases
  <2>1. UNCHANGED <<want, claim>> /\ stage' \subseteq {"held", "drain"}
    BY <1>1, <1>7 DEF StageAcquires, StageDrains, StageReleases, StageChanges
  <2>2. budget' \in [{"triggers", "stages", "rebuilds"} -> Nat]
    <3>1. PICK n \in {0, 1} : budget.stages >= n /\ budget' = [budget EXCEPT !.stages = @ - n]
      BY <1>7 DEF StageAcquires, StageDrains, StageReleases, StageChanges
    <3> QED BY <1>1, <3>1
  <2> QED BY <1>1, <1>2, <2>1, <2>2 DEF OtherTypes
<1>8. ASSUME NEW r \in Repo, RebuildWants(r) \/ RebuildClaims(r) \/ RebuildReleases(r)
      PROVE  OtherTypes'
  <2>1. want' \in [Repo -> BOOLEAN] /\ claim' \in [Repo -> {"free", "foreground", "background"}]
    BY <1>1, <1>8 DEF RebuildWants, RebuildClaims, RebuildReleases
  <2>2. CASE RebuildWants(r)
    <3>1. budget.rebuilds > 0 /\ budget' = [budget EXCEPT !.rebuilds = @ - 1] /\ stage' = stage
      BY <2>2 DEF RebuildWants
    <3>2. budget' \in [{"triggers", "stages", "rebuilds"} -> Nat]
      BY <1>1, <3>1
    <3> QED BY <1>1, <1>2, <2>1, <3>1, <3>2 DEF OtherTypes
  <2>3. CASE ~ RebuildWants(r)
    <3>1. UNCHANGED <<stage, budget>>
      BY <1>8, <2>3 DEF RebuildClaims, RebuildReleases
    <3> QED BY <1>1, <1>2, <2>1, <3>1 DEF OtherTypes
  <2> QED BY <2>2, <2>3
<1> QED BY <1>3, <1>4, <1>5, <1>6, <1>7, <1>8 DEF Next, WorkerStep, Neighbour
-----------------------------------------------------------------------------
(* Every step keeps the invariant. *)
LEMMA NextIInv == IInv /\ [Next]_vars => IInv'
<1> SUFFICES ASSUME IInv, [Next]_vars PROVE IInv'
  OBVIOUS
<1>1. CASE UNCHANGED vars
  <2>1. Exact'
    BY <1>1, Untouched DEF vars, queueVars, admitVars, envVars, InHand, IInv, LedgerInv, NoIndexBesideStage
  <2>2. Types'
    BY <1>1 DEF vars, queueVars, admitVars, envVars, IInv, Types, ChannelTypes, RepoTypes, WorkerTypes, OtherTypes
  <2> QED BY <2>1, <2>2 DEF IInv, Exact
<1>2. CASE Next
  <2>1. Types'
    BY <1>2, ChannelTypesKept, RepoTypesKept, WorkerTypesKept, OtherTypesKept DEF Types
  <2>2. "held" \in stage => InFlight = {}
    BY DEF IInv, LedgerInv, NoIndexBesideStage
  <2> SUFFICES Exact'
    BY <2>1 DEF IInv, Exact
  <2>3. ASSUME UNCHANGED <<pendingQ, pendingIndex, queueLen, inflight, usedMB, sending, forced, jobs, job, stage>>
        PROVE  Exact'
    BY <2>2, <2>3, Untouched DEF InHand
  <2>4. ASSUME NEW q \in Request, Enqueue(q) \/ RetryFires(q) \/ DedupInFlight(q) \/ DedupQueued(q)
        PROVE  Exact'
    <3>1. UNCHANGED <<pendingQ, pendingIndex, queueLen, inflight, usedMB, sending, forced, jobs, job, stage>>
      BY <2>4 DEF Enqueue, RetryFires, DedupInFlight, DedupQueued, Receive, queueVars, admitVars, envVars
    <3> QED BY <2>3, <3>1
  <2>5. CASE ResetDeadMan \/ DeadManExpires
    <3>1. UNCHANGED <<pendingQ, pendingIndex, queueLen, inflight, usedMB, sending, forced, jobs, job, stage>>
      BY <2>5 DEF ResetDeadMan, DeadManExpires, queueVars, envVars
    <3> QED BY <2>3, <3>1
  <2>6. ASSUME NEW r \in Repo, \/ BackoffExpires(r) \/ MarkIndexed(r)
                                \/ RebuildWants(r) \/ RebuildClaims(r) \/ RebuildReleases(r)
         PROVE  Exact'
    <3>1. UNCHANGED <<pendingQ, pendingIndex, queueLen, inflight, usedMB, sending, forced, jobs, job, stage>>
      BY <2>6 DEF BackoffExpires, MarkIndexed, RebuildWants, RebuildClaims, RebuildReleases,
          queueVars, admitVars, envVars
    <3> QED BY <2>3, <3>1
  <2>7. ASSUME NEW q \in Request, DedupNew(q)
        PROVE  Exact'
    BY <2>7, NewKeeps
  <2>8. CASE Admit
    <3>1. /\ sending = NoTok /\ pendingQ # <<>> /\ stage = {} /\ MayAdmit(predict[Head(pendingQ)])
          /\ sending' = TokenOf(Head(pendingQ)) /\ TakeFromQueue(1) /\ forced' = forced
      BY <2>8 DEF Admit
    <3>2. 1 \in DOMAIN pendingQ /\ Head(pendingQ) = pendingQ[1]
      BY <3>1 DEF IInv, Types, ChannelTypes
    <3>3. PICK r : r = pendingQ[1]
      OBVIOUS
    <3>4. PICK t : t = TokenOf(r)
      OBVIOUS
    <3> QED BY <3>1, <3>2, <3>3, <3>4, TakeKeeps
  <2>9. CASE ForceAdmit
    <3>1. InFlight = {} /\ stage = {} /\ sending' = sending
      BY <2>9 DEF ForceAdmit, Stuck
    <3>2. PICK i \in DOMAIN pendingQ : /\ forced' = forced \cup {TokenOf(pendingQ[i])}
                                       /\ TakeFromQueue(i)
      BY <2>9 DEF ForceAdmit
    <3>3. PICK r : r = pendingQ[i]
      OBVIOUS
    <3>4. PICK t : t = TokenOf(r)
      OBVIOUS
    <3> QED BY <3>1, <3>2, <3>3, <3>4, TakeKeeps
  <2>10. CASE DeliverAdmitted
    BY <2>10, DeliverKeeps DEF DeliverAdmitted
  <2>11. ASSUME NEW t \in forced, DeliverForced(t)
        PROVE  Exact'
    BY <2>11, DeliverKeeps DEF DeliverForced
  <2>12. ASSUME NEW w \in Worker, WorkerStep(w)
         PROVE  Exact'
    <3>1. CASE StartJob(w)
      <4>1. PICK t : t = Head(jobs)
        OBVIOUS
      <4> QED BY <3>1, <4>1, StartKeeps
    <3>2. CASE Retire(w)
      <4>1. PICK t : t = job[w].tok
        OBVIOUS
      <4> QED BY <3>2, <4>1, RetireKeeps
    <3>3. CASE ClaimRepo(w) \/ IndexReturns(w) \/ Settle(w)
      <4>1. job \in [Worker -> JobRec] /\ job[w] \in JobRec
        BY DEF IInv, Types, WorkerTypes
      <4>2. UNCHANGED <<pendingQ, pendingIndex, queueLen, inflight, usedMB, sending, forced, jobs, stage>>
        BY <3>3 DEF ClaimRepo, IndexReturns, Settle, queueVars, admitVars, envVars
      <4>3. \A v \in Worker : /\ InHand(v)' <=> InHand(v)
                              /\ InHand(v) => job'[v].tok = job[v].tok
        <5>1. CASE ClaimRepo(w) \/ IndexReturns(w)
          <6>1. PICK ph \in {"running", "yielded", "ok", "failed"} : job' = [job EXCEPT ![w].phase = ph]
            BY <5>1 DEF ClaimRepo, IndexReturns
          <6>2. job[w].phase \in {"claiming", "running"}
            BY <5>1 DEF ClaimRepo, IndexReturns
          <6>3. \A v \in Worker : v # w => job'[v] = job[v]
            BY <4>1, <6>1
          <6>4. job'[w].phase = ph /\ job'[w].tok = job[w].tok
            BY <4>1, <6>1 DEF JobRec
          <6> QED BY <6>2, <6>3, <6>4 DEF InHand, Phase
        <5>2. CASE Settle(w)
          <6>1. job' = [job EXCEPT ![w] = Idle] /\ job[w].phase \in {"settling", "settlingOk"}
            BY <5>2 DEF Settle
          <6> QED BY <4>1, <6>1 DEF InHand, Idle
        <5> QED BY <3>3, <5>1, <5>2
      <4> QED BY <2>2, <4>2, <4>3, Untouched
    <3> QED BY <2>12, <3>1, <3>2, <3>3 DEF WorkerStep
  <2>13. CASE StageAcquires \/ StageDrains \/ StageReleases
    <3>1. UNCHANGED <<pendingQ, pendingIndex, queueLen, inflight, usedMB, sending, forced, jobs, job>>
      BY <2>13 DEF StageAcquires, StageDrains, StageReleases, StageChanges, queueVars, admitVars
    <3>2. "held" \in stage' => InFlight = {}
      BY <2>2, <2>13 DEF StageAcquires, StageDrains, StageReleases
    <3> QED BY <3>1, <3>2, Untouched DEF InHand
  <2> QED BY <1>2, <2>4, <2>7, <2>8, <2>9, <2>10, <2>11, <2>12, <2>13, <2>5, <2>6
          DEF Next, Dedup, Neighbour
<1> QED BY <1>1, <1>2

(* The invariant holds in every state: there is one token per repo in      *)
(* flight, and the ledger is the sum of what the tokens were admitted for. *)
THEOREM SpecIInv == Spec => []IInv
  BY InitIInv, NextIInv, PTL DEF Spec

(* The state has its types, and the jobs channel its room. *)
THEOREM SchedulerTypes == Spec => []TypeOK
<1>1. IInv => TypeOK
  <2> SUFFICES ASSUME IInv PROVE TypeOK
    OBVIOUS
  <2>1. queueLen \in Nat
    BY FS_CardinalityType DEF IInv, QueueInv
  <2>2. usedMB \in Nat
    <3>1. IsFiniteSet(InFlight) /\ usedMB = Total(inflight, InFlight)
      BY DEF IInv, LedgerInv
    <3>2. \A x \in InFlight : inflight[x] \in Nat
      BY FlightIs DEF InFlight, IInv, Types, RepoTypes
    <3>3. PICK g \in [SUBSET InFlight -> Nat] : Total(inflight, InFlight) = g[InFlight]
      BY <3>1, <3>2, TotalAddsUp
    <3> QED BY <3>1, <3>3
  <2> QED BY <2>1, <2>2 DEF IInv, Types, ChannelTypes, RepoTypes, WorkerTypes, OtherTypes,
          TypeOK, JobRec, StatRec
<1> QED BY <1>1, SpecIInv, PTL

(* The ledger is the sum of what is in flight, the published length counts *)
(* the pending repos, the budget is exceeded only by a job that is alone,  *)
(* and no index is in flight beside a heavy stage.                         *)
THEOREM AdmissionKeepsBooks == Spec => []AdmissionExact
<1>1. IInv => AdmissionExact
  BY DEF IInv, QueueInv, LedgerInv, AdmissionExact, QueueLenExact, LedgerExact, Total
<1> QED BY <1>1, SpecIInv, PTL

(* A set whose elements are equal has one at most. *)
LEMMA AtMostOne ==
    ASSUME NEW T, \A x, y \in T : x = y
    PROVE  /\ Cardinality(T) \in 0..1
           /\ T = {} => Cardinality(T) = 0
           /\ T # {} => Cardinality(T) = 1
<1>1. CASE T = {}
  BY <1>1, FS_EmptySet
<1>2. CASE T # {}
  <2>1. PICK x : T = {x}
    BY <1>2
  <2> QED BY <2>1, FS_Singleton
<1> QED BY <1>1, <1>2

(* No two workers ever index one repo: one token for it is in one place,   *)
(* and the repo is queued at most once and not beside its token.           *)
THEOREM RepoHasOneToken == Spec => []OneTokenPerRepo
<1>1. IInv => OneTokenPerRepo
  <2> SUFFICES ASSUME IInv, NEW r \in Repo
               PROVE  /\ Cardinality({i \in DOMAIN pendingQ : pendingQ[i] = r}) <= 1
                      /\ Waiting(r) => r \in pendingIndex \ InFlight
                      /\ Cardinality(Holders(r)) = (IF r \in InFlight THEN 1 ELSE 0)
    BY DEF OneTokenPerRepo
  <2>1. Cardinality({i \in DOMAIN pendingQ : pendingQ[i] = r}) <= 1
    <3> DEFINE T == {i \in DOMAIN pendingQ : pendingQ[i] = r}
    <3>1. \A i, j \in T : i = j
      BY DEF IInv, QueueInv
    <3> HIDE DEF T
    <3>2. Cardinality(T) \in 0..1
      BY <3>1, AtMostOne
    <3> QED BY <3>2 DEF T
  <2>2. Waiting(r) => r \in pendingIndex \ InFlight
    BY FlightIs DEF IInv, QueueInv, Waiting
  <2>3. /\ \A i \in DOMAIN jobs : jobs[i].repo = r => r \in pendingIndex
        /\ \A t \in forced : t.repo = r => r \in pendingIndex
        /\ sending # NoTok /\ sending.repo = r => r \in pendingIndex
        /\ \A w \in Worker : InHand(w) /\ job[w].tok.repo = r => r \notin pendingIndex
    BY DEF IInv, TokenInv, Admitted, Started
  <2>4. \A x, y \in Holders(r) : x = y
    BY <2>3 DEF Holders, IInv, TokensApart
  <2>5. Holders(r) # {} <=> HasToken(r)
    BY DEF Holders, HasToken
  <2>6. HasToken(r) <=> r \in InFlight
    BY FlightIs, HoldersFly DEF HasToken, IInv, FlightInv
  <2>7. Cardinality(Holders(r)) = (IF r \in InFlight THEN 1 ELSE 0)
    BY <2>4, <2>5, <2>6, AtMostOne
  <2> QED BY <2>1, <2>2, <2>7
<1> QED BY <1>1, SpecIInv, PTL

-----------------------------------------------------------------------------
(* The promise.  A repo is due by one of the places its trigger can be in. *)
Has(s, x)    == \E i \in DOMAIN s : s[i].repo = x
HasForced(x) == \E t \in forced : t.repo = x
IsSent(x)    == sending # NoTok /\ sending.repo = x
Retried(x)   == \E q \in Request : retry[q] > 0 /\ q.repo = x
Asks(j, x)   == \/ j.phase \in {"claiming", "yielded"} /\ j.tok.repo = x
                \/ j.send # NoTok /\ j.send.repo = x
Asked(x)     == \E w \in Worker : Asks(job[w], x)
IsDue(x)     == \/ Has(enq, x) \/ Waiting(x) \/ Has(jobs, x) \/ HasForced(x) \/ IsSent(x)
                \/ x \in dirty \/ Retried(x) \/ Asked(x)
Runs(j, x)   == j.phase = "running" /\ j.tok.repo = x

(* The abstract state, repo by repo. *)
LEMMA DueIs ==
    /\ \A x : x \in Due <=> IsDue(x)
    /\ \A x : x \in Running <=> \E w \in Worker : Runs(job[w], x)
    /\ \A x : x \in Due' <=> IsDue(x)'
    /\ \A x : x \in Running' <=> \E w \in Worker : Runs(job[w], x)'
BY DEF Due, IsDue, Has, Waiting, HasForced, IsSent, Retried, Asked, Asks, Running, Runs

(* A repo in a queue after something was appended. *)
LEMMA HasMore ==
    ASSUME NEW S, NEW s \in Seq(S), NEW e
    PROVE  \A x : Has(Append(s, e), x) <=> Has(s, x) \/ e.repo = x
<1> DEFINE z == Append(s, e)
<1>1. /\ DOMAIN s = 1..Len(s) /\ DOMAIN z = 1..(Len(s) + 1) /\ Len(s) \in Nat
      /\ \A i \in 1..Len(s) : z[i] = s[i]
      /\ z[Len(s) + 1] = e
  OBVIOUS
<1> HIDE DEF z
<1>2. \A x : Has(z, x) <=> Has(s, x) \/ e.repo = x
  BY <1>1 DEF Has
<1> QED BY <1>2 DEF z

(* And before its head was taken. *)
LEMMA HasLess ==
    ASSUME NEW S, NEW s \in Seq(S), s # <<>>
    PROVE  \A x : Has(s, x) <=> Has(Tail(s), x) \/ Head(s).repo = x
<1> DEFINE z == Tail(s)
<1>1. /\ DOMAIN s = 1..Len(s) /\ DOMAIN z = 1..(Len(s) - 1) /\ Len(s) \in Nat /\ Len(s) # 0
      /\ \A i \in 1..(Len(s) - 1) : z[i] = s[i + 1]
      /\ Head(s) = s[1]
  OBVIOUS
<1> HIDE DEF z
<1>2. ASSUME NEW x, Has(s, x), s[1].repo # x
      PROVE  Has(z, x)
  <2>1. PICK i \in 1..Len(s) : s[i].repo = x
    BY <1>1, <1>2 DEF Has
  <2>2. i - 1 \in 1..(Len(s) - 1) /\ (i - 1) + 1 = i
    BY <1>1, <1>2, <2>1
  <2> QED BY <1>1, <2>1, <2>2 DEF Has
<1>3. ASSUME NEW x, Has(z, x)
      PROVE  Has(s, x)
  <2>1. PICK i \in 1..(Len(s) - 1) : s[i + 1].repo = x
    BY <1>1, <1>3 DEF Has
  <2>2. i + 1 \in 1..Len(s)
    BY <1>1
  <2> QED BY <1>1, <2>1, <2>2 DEF Has
<1>4. 1 \in 1..Len(s)
  BY <1>1
<1> QED BY <1>1, <1>2, <1>3, <1>4 DEF z, Has

(* A repo in the admission queue before its i-th element was taken. *)
LEMMA WaitsOrTaken ==
    ASSUME IInv, NEW i \in DOMAIN pendingQ, TakeFromQueue(i)
    PROVE  \A x : Waiting(x) <=> Waiting(x)' \/ pendingQ[i] = x
<1>1. pendingQ \in Seq(Repo) /\ DOMAIN pendingQ = 1..Len(pendingQ) /\ i \in 1..Len(pendingQ)
  BY DEF IInv, Types, ChannelTypes
<1>2. Shortened(pendingQ', pendingQ, i)
  BY <1>1, TakenOut DEF TakeFromQueue
<1>3. /\ DOMAIN pendingQ' = 1..(Len(pendingQ) - 1) /\ Len(pendingQ) \in Nat
      /\ \A k \in DOMAIN pendingQ' : pendingQ'[k] = IF k < i THEN pendingQ[k] ELSE pendingQ[k + 1]
  BY <1>1, <1>2 DEF Shortened
<1>4. ASSUME NEW k \in DOMAIN pendingQ, k # i
      PROVE  \E m \in DOMAIN pendingQ' : pendingQ'[m] = pendingQ[k]
  <2>1. CASE k < i
    <3>1. k \in DOMAIN pendingQ' /\ pendingQ'[k] = pendingQ[k]
      BY <1>1, <1>3, <2>1
    <3> QED BY <3>1
  <2>2. CASE ~ (k < i)
    <3>1. k - 1 \in DOMAIN pendingQ' /\ ~ (k - 1 < i) /\ (k - 1) + 1 = k
      BY <1>1, <1>3, <1>4, <2>2
    <3>2. pendingQ'[k - 1] = pendingQ[k]
      BY <1>3, <3>1
    <3> QED BY <3>1, <3>2
  <2> QED BY <2>1, <2>2
<1>5. ASSUME NEW k \in DOMAIN pendingQ'
      PROVE  \E m \in DOMAIN pendingQ : pendingQ'[k] = pendingQ[m]
  <2>1. k \in DOMAIN pendingQ /\ k + 1 \in DOMAIN pendingQ
    BY <1>1, <1>3
  <2> QED BY <1>3, <2>1
<1> QED BY <1>4, <1>5 DEF Waiting

(* The open circuits, and steps that leave due and running alone. *)
Open == {r \in Repo : stats[r].backoff}

SameWork == Due' = Due /\ Running' = Running

(* A step that no worker takes keeps what is running. *)
LEMMA WorkStays ==
    ASSUME \A x : IsDue(x)' <=> IsDue(x), UNCHANGED job
    PROVE  SameWork
<1>1. \A x : (\E w \in Worker : Runs(job[w], x)') <=> \E w \in Worker : Runs(job[w], x)
  BY DEF Runs
<1> QED BY <1>1, DueIs DEF SameWork

(* A trigger goes from one queue into the next. *)
LEMMA QueuesKeepDue ==
    ASSUME IInv,
           \/ \E q \in Request : RetryFires(q)
           \/ Dedup \/ Admit \/ DeliverAdmitted \/ ForceAdmit
           \/ \E t \in forced : DeliverForced(t)
    PROVE  SameWork /\ stats' = stats
<1>1. /\ enq \in Seq(Request) /\ pendingQ \in Seq(Repo) /\ jobs \in Seq(Token)
      /\ sending \in Token \cup {NoTok} /\ retry \in [Request -> Nat]
  BY DEF IInv, Types, ChannelTypes, WorkerTypes
<1>2. ASSUME UNCHANGED <<enq, job, retry, dirty>>
      PROVE  \A x : /\ Has(enq, x)' <=> Has(enq, x)
                    /\ Asked(x)' <=> Asked(x)
                    /\ Retried(x)' <=> Retried(x)
                    /\ x \in dirty' <=> x \in dirty
  BY <1>2 DEF Has, Asked, Asks, Retried
<1>3. ASSUME NEW q \in Request, RetryFires(q)
      PROVE  SameWork /\ stats' = stats
  <2>1. /\ enq' = Append(enq, q) /\ retry[q] > 0 /\ retry' = [retry EXCEPT ![q] = @ - 1]
        /\ UNCHANGED <<pendingQ, dirty, sending, forced, jobs, job, stats>>
    BY <1>3 DEF RetryFires, Send, queueVars, admitVars
  <2>2. \A x : Has(enq', x) <=> Has(enq, x) \/ q.repo = x
    BY <1>1, <2>1, HasMore
  <2>3. \A x : Retried(x) <=> Retried(x)' \/ (q.repo = x /\ Retried(x))
    BY <1>1, <2>1 DEF Retried
  <2>4. Retried(q.repo)
    BY <2>1 DEF Retried
  <2>5. \A x : /\ Waiting(x)' <=> Waiting(x)
               /\ Has(jobs, x)' <=> Has(jobs, x)
               /\ HasForced(x)' <=> HasForced(x)
               /\ IsSent(x)' <=> IsSent(x)
               /\ Asked(x)' <=> Asked(x)
    BY <2>1 DEF Waiting, Has, HasForced, IsSent, Asked, Asks
  <2>6. \A x : Has(enq, x)' <=> Has(enq', x)
    BY DEF Has
  <2>7. \A x : IsDue(x)' <=> IsDue(x)
    BY <2>1, <2>2, <2>3, <2>4, <2>5, <2>6 DEF IsDue
  <2> QED BY <2>1, <2>7, WorkStays
<1>4. ASSUME NEW q \in Request, DedupInFlight(q) \/ DedupQueued(q) \/ DedupNew(q)
      PROVE  SameWork /\ stats' = stats
  <2>1. /\ enq # <<>> /\ q = Head(enq) /\ enq' = Tail(enq)
        /\ UNCHANGED <<sending, forced, jobs, job, retry, stats>>
    BY <1>4 DEF DedupInFlight, DedupQueued, DedupNew, Receive
  <2>2. \A x : Has(enq, x) <=> Has(enq', x) \/ q.repo = x
    BY <1>1, <2>1, HasLess
  <2>3. \A x : /\ Has(jobs, x)' <=> Has(jobs, x)
               /\ HasForced(x)' <=> HasForced(x)
               /\ IsSent(x)' <=> IsSent(x)
               /\ Asked(x)' <=> Asked(x)
               /\ Retried(x)' <=> Retried(x)
               /\ Has(enq, x)' <=> Has(enq', x)
    BY <2>1 DEF Has, HasForced, IsSent, Asked, Asks, Retried
  <2>4. \A x : Waiting(x) \/ x \in dirty \/ q.repo = x <=> Waiting(x)' \/ x \in dirty' \/ q.repo = x
    <3>1. CASE DedupNew(q)
      <4>1. pendingQ' = Append(pendingQ, q.repo) /\ dirty' = dirty
        BY <3>1 DEF DedupNew
      <4>2. /\ DOMAIN pendingQ' = DOMAIN pendingQ \cup {Len(pendingQ) + 1}
            /\ \A k \in DOMAIN pendingQ : pendingQ'[k] = pendingQ[k]
            /\ pendingQ'[Len(pendingQ) + 1] = q.repo
        BY <1>1, <4>1 DEF Request
      <4> QED BY <4>1, <4>2 DEF Waiting
    <3>2. CASE ~ DedupNew(q)
      BY <1>4, <3>2 DEF DedupInFlight, DedupQueued, Waiting
    <3> QED BY <3>1, <3>2
  <2>5. Waiting(q.repo)' \/ q.repo \in dirty'
    <3>1. CASE DedupNew(q)
      <4>1. pendingQ' = Append(pendingQ, q.repo)
        BY <3>1 DEF DedupNew
      <4>2. Len(pendingQ) + 1 \in DOMAIN pendingQ' /\ pendingQ'[Len(pendingQ) + 1] = q.repo
        BY <1>1, <4>1 DEF Request
      <4> QED BY <4>2 DEF Waiting
    <3>2. CASE DedupInFlight(q)
      BY <3>2 DEF DedupInFlight
    <3>3. CASE DedupQueued(q)
      BY <3>3 DEF DedupQueued, IInv, QueueInv, Waiting
    <3> QED BY <1>4, <3>1, <3>2, <3>3
  <2>6. \A x : IsDue(x)' <=> IsDue(x)
    BY <2>2, <2>3, <2>4, <2>5 DEF IsDue
  <2> QED BY <2>1, <2>6, WorkStays
<1>5. ASSUME NEW i \in DOMAIN pendingQ, TakeFromQueue(i), NEW t, t = TokenOf(pendingQ[i]),
             \/ sending = NoTok /\ sending' = t /\ forced' = forced
             \/ sending' = sending /\ forced' = forced \cup {t}
      PROVE  SameWork /\ stats' = stats
  <2>1. UNCHANGED <<enq, jobs, job, retry, dirty, stats>>
    BY <1>5 DEF TakeFromQueue
  <2>2. \A x : Waiting(x) <=> Waiting(x)' \/ pendingQ[i] = x
    BY <1>5, WaitsOrTaken
  <2>3. t.repo = pendingQ[i] /\ t # NoTok
    <3>1. t \in Token
      BY <1>1, <1>5 DEF TokenOf, Token, IInv, Types, RepoTypes
    <3> QED BY <1>5, <3>1, TokAssumption DEF TokenOf
  <2>4. \A x : HasForced(x)' \/ IsSent(x)' <=> HasForced(x) \/ IsSent(x) \/ pendingQ[i] = x
    BY <1>5, <2>3 DEF HasForced, IsSent
  <2>5. \A x : Has(jobs, x)' <=> Has(jobs, x)
    BY <2>1 DEF Has
  <2>6. \A x : IsDue(x)' <=> IsDue(x)
    BY <1>2, <2>1, <2>2, <2>4, <2>5 DEF IsDue
  <2> QED BY <2>1, <2>6, WorkStays
<1>6. ASSUME NEW t \in Token, Deliver(t),
             \/ t = sending /\ sending' = NoTok /\ forced' = forced
             \/ t \in forced /\ sending' = sending /\ forced' = forced \ {t}
      PROVE  SameWork /\ stats' = stats
  <2>1. jobs' = Append(jobs, t) /\ UNCHANGED <<enq, pendingQ, job, retry, dirty, stats>>
    BY <1>6 DEF Deliver, queueVars
  <2>2. \A x : Has(jobs', x) <=> Has(jobs, x) \/ t.repo = x
    BY <1>1, <2>1, HasMore
  <2>3. t # NoTok
    BY TokAssumption
  <2>4. \A x : HasForced(x) \/ IsSent(x) <=> HasForced(x)' \/ IsSent(x)' \/ (t.repo = x)
    BY <1>6, <2>3 DEF HasForced, IsSent
  <2>5. \A x : (Has(jobs, x)' <=> Has(jobs', x)) /\ (Waiting(x)' <=> Waiting(x))
    BY <2>1 DEF Has, Waiting
  <2>6. \A x : IsDue(x)' <=> IsDue(x)
    BY <1>2, <2>1, <2>2, <2>4, <2>5 DEF IsDue
  <2> QED BY <2>1, <2>6, WorkStays
<1>7. CASE Admit
  <2>1. /\ sending = NoTok /\ pendingQ # <<>> /\ sending' = TokenOf(Head(pendingQ))
        /\ TakeFromQueue(1) /\ forced' = forced
    BY <1>7 DEF Admit
  <2>2. 1 \in DOMAIN pendingQ /\ Head(pendingQ) = pendingQ[1]
    BY <1>1, <2>1
  <2> QED BY <1>5, <2>1, <2>2
<1>8. CASE ForceAdmit
  <2>1. PICK i \in DOMAIN pendingQ : /\ forced' = forced \cup {TokenOf(pendingQ[i])}
                                     /\ TakeFromQueue(i) /\ sending' = sending
    BY <1>8 DEF ForceAdmit
  <2> QED BY <1>5, <2>1
<1>9. CASE DeliverAdmitted
  BY <1>1, <1>6, <1>9 DEF DeliverAdmitted
<1>10. ASSUME NEW t \in forced, DeliverForced(t)
       PROVE  SameWork /\ stats' = stats
  <2>1. t \in Token
    BY DEF IInv, Types, ChannelTypes
  <2> QED BY <1>6, <1>10, <2>1 DEF DeliverForced
<1> QED BY <1>3, <1>4, <1>7, <1>8, <1>9, <1>10 DEF Dedup

(* One worker moves, the others do not. *)
OtherAsks(w, x) == \E v \in Worker : v # w /\ Asks(job[v], x)
OtherRuns(w, x) == \E v \in Worker : v # w /\ Runs(job[v], x)

(* What is asked and what runs is what the others do and what it does. *)
LEMMA OneWorkerMoves ==
    ASSUME IInv, NEW w \in Worker, NEW j, job' = [job EXCEPT ![w] = j]
    PROVE  /\ \A x : Asked(x) <=> OtherAsks(w, x) \/ Asks(job[w], x)
           /\ \A x : Asked(x)' <=> OtherAsks(w, x) \/ Asks(j, x)
           /\ \A x : x \in Running <=> OtherRuns(w, x) \/ Runs(job[w], x)
           /\ \A x : x \in Running' <=> OtherRuns(w, x) \/ Runs(j, x)
<1>1. job'[w] = j /\ \A v \in Worker : v # w => job'[v] = job[v]
  BY DEF IInv, Types, WorkerTypes
<1>2. \A x : Asked(x)' <=> \E v \in Worker : Asks(job'[v], x)
  BY DEF Asked, Asks
<1>3. \A x : x \in Running' <=> \E v \in Worker : Runs(job'[v], x)
  BY DueIs DEF Runs
<1>4. /\ \A x : Asked(x) <=> OtherAsks(w, x) \/ Asks(job[w], x)
      /\ \A x : Asked(x)' <=> OtherAsks(w, x) \/ Asks(j, x)
  BY <1>1, <1>2 DEF Asked, OtherAsks
<1>5. /\ \A x : x \in Running <=> OtherRuns(w, x) \/ Runs(job[w], x)
      /\ \A x : x \in Running' <=> OtherRuns(w, x) \/ Runs(j, x)
  BY <1>1, <1>3, DueIs DEF OtherRuns
<1> QED BY <1>4, <1>5

(* A token that a worker has is nobody else's. *)
LEMMA NobodyElseRuns ==
    ASSUME IInv, NEW w \in Worker, InHand(w)
    PROVE  ~ OtherRuns(w, job[w].tok.repo)
<1>1. \A v \in Worker : \A x : Runs(job[v], x) => InHand(v) /\ job[v].tok.repo = x
  BY DEF Runs, InHand, Phase
<1>2. \A v \in Worker : InHand(v) /\ job[v].tok.repo = job[w].tok.repo => v = w
  BY DEF IInv, TokensApart
<1> QED BY <1>1, <1>2 DEF OtherRuns

(* A job starts: its repo stays due unless its circuit is open. *)
LEMMA StartPromised ==
    ASSUME IInv, NEW w \in Worker, StartJob(w)
    PROVE  \E r \in Repo : /\ r \in Due /\ Running' = Running /\ stats' = stats
                           /\ Due' = Due \/ (r \in Open /\ Due' = Due \ {r})
<1>1. Head(jobs) \in Token /\ jobs \in Seq(Token) /\ jobs # <<>>
  BY DEF StartJob, IInv, Types, ChannelTypes
<1>2. PICK t \in Token : t = Head(jobs)
  BY <1>1
<1>3. t.repo \in Repo
  BY DEF Token
<1>4. PICK j : j = [phase |-> IF CircuitOpen(t) THEN "skipped" ELSE "claiming", tok |-> t, send |-> NoTok]
  OBVIOUS
<1>5. /\ job' = [job EXCEPT ![w] = j] /\ jobs' = Tail(jobs) /\ dirty' = dirty \ {t.repo}
      /\ job[w].phase = "idle"
      /\ UNCHANGED <<enq, pendingQ, sending, forced, retry, stats>>
  BY <1>2, <1>4 DEF StartJob
<1>6. \A x : /\ Has(enq, x)' <=> Has(enq, x)
             /\ Waiting(x)' <=> Waiting(x)
             /\ HasForced(x)' <=> HasForced(x)
             /\ IsSent(x)' <=> IsSent(x)
             /\ Retried(x)' <=> Retried(x)
             /\ Has(jobs, x)' <=> Has(jobs', x)
  BY <1>5 DEF Has, Waiting, HasForced, IsSent, Retried
<1>7. \A x : Has(jobs, x) <=> Has(jobs', x) \/ t.repo = x
  BY <1>1, <1>2, <1>5, HasLess
<1>8. /\ \A x : Asked(x) <=> OtherAsks(w, x) \/ Asks(job[w], x)
      /\ \A x : Asked(x)' <=> OtherAsks(w, x) \/ Asks(j, x)
      /\ \A x : x \in Running <=> OtherRuns(w, x) \/ Runs(job[w], x)
      /\ \A x : x \in Running' <=> OtherRuns(w, x) \/ Runs(j, x)
  BY <1>5, OneWorkerMoves
<1>9. \A x : ~ Asks(job[w], x) /\ ~ Runs(job[w], x) /\ ~ Runs(j, x)
  BY <1>4, <1>5 DEF Asks, Runs, IInv, Types, WorkerTypes
<1>10. /\ \A x : Asks(j, x) => x = t.repo
       /\ ~ CircuitOpen(t) => Asks(j, t.repo)
  BY <1>4 DEF Asks
<1>11. /\ \A x : x # t.repo => (IsDue(x)' <=> IsDue(x))
       /\ IsDue(t.repo) /\ (~ CircuitOpen(t) => IsDue(t.repo)')
  BY <1>5, <1>6, <1>7, <1>8, <1>9, <1>10 DEF IsDue
<1>12. Running' = Running
  BY <1>8, <1>9
<1>13. CircuitOpen(t) => t.repo \in Open
  BY <1>3 DEF CircuitOpen, Open
<1>14. t.repo \in Due /\ (Due' = Due \/ (t.repo \in Open /\ Due' = Due \ {t.repo}))
  BY <1>11, <1>13, DueIs
<1> QED BY <1>3, <1>5, <1>12, <1>14

(* An index starts under the claim, or the job yields and stays due. *)
LEMMA ClaimPromised ==
    ASSUME IInv, NEW w \in Worker, ClaimRepo(w)
    PROVE  \E r \in Repo : \/ SameWork
                           \/ /\ r \in Due \ Running /\ Running' = Running \cup {r}
                              /\ Due' \in {Due, Due \ {r}}
<1>1. job[w] \in JobRec /\ job[w].tok \in Token /\ job[w].send = NoTok /\ InHand(w)
  BY DEF ClaimRepo, IInv, Types, WorkerTypes, InHand, Phase
<1>2. PICK r \in Repo : r = job[w].tok.repo
  BY <1>1 DEF Token
<1>3. PICK ph \in {"running", "yielded"} : job' = [job EXCEPT ![w].phase = ph]
  BY DEF ClaimRepo
<1>4. PICK j : j = [job[w] EXCEPT !.phase = ph]
  OBVIOUS
<1>5. /\ job' = [job EXCEPT ![w] = j] /\ job[w].phase = "claiming"
      /\ j.phase = ph /\ j.tok = job[w].tok /\ j.send = NoTok
      /\ UNCHANGED <<enq, pendingQ, jobs, sending, forced, retry, dirty>>
  BY <1>1, <1>3, <1>4 DEF ClaimRepo, queueVars, admitVars, JobRec, IInv, Types, WorkerTypes
<1>6. \A x : /\ Has(enq, x)' <=> Has(enq, x)
             /\ Waiting(x)' <=> Waiting(x)
             /\ HasForced(x)' <=> HasForced(x)
             /\ IsSent(x)' <=> IsSent(x)
             /\ Retried(x)' <=> Retried(x)
             /\ Has(jobs, x)' <=> Has(jobs, x)
  BY <1>5 DEF Has, Waiting, HasForced, IsSent, Retried
<1>7. /\ \A x : Asked(x) <=> OtherAsks(w, x) \/ Asks(job[w], x)
      /\ \A x : Asked(x)' <=> OtherAsks(w, x) \/ Asks(j, x)
      /\ \A x : x \in Running <=> OtherRuns(w, x) \/ Runs(job[w], x)
      /\ \A x : x \in Running' <=> OtherRuns(w, x) \/ Runs(j, x)
  BY <1>5, OneWorkerMoves
<1>8. /\ \A x : Asks(job[w], x) <=> x = r
      /\ \A x : ~ Runs(job[w], x)
      /\ \A x : Asks(j, x) <=> (ph = "yielded" /\ x = r)
      /\ \A x : Runs(j, x) <=> (ph = "running" /\ x = r)
  BY <1>1, <1>2, <1>5 DEF Asks, Runs
<1>9. /\ \A x : x # r => (IsDue(x)' <=> IsDue(x))
      /\ IsDue(r) /\ (ph = "yielded" => IsDue(r)')
  BY <1>5, <1>6, <1>7, <1>8 DEF IsDue
<1>10. r \in Due /\ (Due' = Due \/ Due' = Due \ {r}) /\ (ph = "yielded" => Due' = Due)
  BY <1>9, DueIs
<1>11. r \notin Running
  BY <1>1, <1>2, <1>7, <1>8, NobodyElseRuns
<1>12. /\ ph = "yielded" => Running' = Running
       /\ ph = "running" => Running' = Running \cup {r}
  BY <1>7, <1>8
<1> QED BY <1>10, <1>11, <1>12 DEF SameWork

(* An index ends. *)
LEMMA ReturnPromised ==
    ASSUME IInv, NEW w \in Worker, IndexReturns(w)
    PROVE  \E r \in Repo : r \in Running /\ Running' = Running \ {r} /\ Due' = Due
<1>1. job[w] \in JobRec /\ job[w].tok \in Token /\ job[w].send = NoTok /\ InHand(w)
  BY DEF IndexReturns, IInv, Types, WorkerTypes, InHand, Phase
<1>2. PICK r \in Repo : r = job[w].tok.repo
  BY <1>1 DEF Token
<1>3. PICK ph \in {"ok", "failed"} : job' = [job EXCEPT ![w].phase = ph]
  BY DEF IndexReturns
<1>4. PICK j : j = [job[w] EXCEPT !.phase = ph]
  OBVIOUS
<1>5. /\ job' = [job EXCEPT ![w] = j] /\ job[w].phase = "running"
      /\ j.phase = ph /\ j.tok = job[w].tok /\ j.send = NoTok
      /\ UNCHANGED <<enq, pendingQ, jobs, sending, forced, retry, dirty>>
  BY <1>1, <1>3, <1>4 DEF IndexReturns, queueVars, admitVars, JobRec, IInv, Types, WorkerTypes
<1>6. \A x : /\ Has(enq, x)' <=> Has(enq, x)
             /\ Waiting(x)' <=> Waiting(x)
             /\ HasForced(x)' <=> HasForced(x)
             /\ IsSent(x)' <=> IsSent(x)
             /\ Retried(x)' <=> Retried(x)
             /\ Has(jobs, x)' <=> Has(jobs, x)
  BY <1>5 DEF Has, Waiting, HasForced, IsSent, Retried
<1>7. /\ \A x : Asked(x) <=> OtherAsks(w, x) \/ Asks(job[w], x)
      /\ \A x : Asked(x)' <=> OtherAsks(w, x) \/ Asks(j, x)
      /\ \A x : x \in Running <=> OtherRuns(w, x) \/ Runs(job[w], x)
      /\ \A x : x \in Running' <=> OtherRuns(w, x) \/ Runs(j, x)
  BY <1>5, OneWorkerMoves
<1>8. /\ \A x : ~ Asks(job[w], x) /\ ~ Asks(j, x)
      /\ \A x : Runs(job[w], x) <=> x = r
      /\ \A x : ~ Runs(j, x)
  BY <1>1, <1>2, <1>5 DEF Asks, Runs
<1>9. \A x : IsDue(x)' <=> IsDue(x)
  BY <1>5, <1>6, <1>7, <1>8 DEF IsDue
<1>10. ~ OtherRuns(w, r)
  BY <1>1, <1>2, NobodyElseRuns
<1>11. r \in Running /\ Running' = Running \ {r}
  BY <1>7, <1>8, <1>10
<1> QED BY <1>9, <1>11, DueIs

(* The bookkeeping after an index: what was owed is a follow-up or a retry. *)
LEMMA RetirePromised ==
    ASSUME IInv, NEW w \in Worker, Retire(w)
    PROVE  \E r \in Repo : SameWork /\ Open' \in {Open \cup {r}, Open \ {r}}
<1>1. /\ job[w] \in JobRec /\ job[w].tok \in Token /\ job[w].send = NoTok
      /\ retry \in [Request -> Nat] /\ stats \in [Repo -> StatRec]
  BY DEF Retire, IInv, Types, WorkerTypes, RepoTypes
<1>2. PICK t \in Token : t = job[w].tok
  BY <1>1
<1>3. t.repo \in Repo
  BY DEF Token
<1>4. PICK f \in Request : f = FollowUp(t) /\ f.repo = t.repo /\ f # NoTok
  <2>1. FollowUp(t) \in Request
    BY DEF FollowUp, Newest, Request, Token, IInv, Types, RepoTypes
  <2> QED BY <2>1, TokAssumption DEF FollowUp
<1>5. PICK ph : ph = job[w].phase
  OBVIOUS
<1>6. PICK j : j = [phase |-> IF ph = "ok" THEN "settlingOk" ELSE "settling", tok |-> t,
                    send |-> IF Owed(ph, t.repo) THEN f ELSE NoTok]
  OBVIOUS
<1>7. /\ job' = [job EXCEPT ![w] = j] /\ dirty' = dirty \ {t.repo}
      /\ ph \in {"skipped", "yielded", "ok", "failed"}
      /\ retry' = IF ph = "yielded" THEN [retry EXCEPT ![f] = @ + 1] ELSE retry
      /\ stats' = [stats EXCEPT ![t.repo] = StatsAfter(ph, t)]
      /\ UNCHANGED <<enq, pendingQ, jobs, sending, forced>>
  BY <1>2, <1>4, <1>5, <1>6 DEF Retire
<1>8. \A x : /\ Has(enq, x)' <=> Has(enq, x)
             /\ Waiting(x)' <=> Waiting(x)
             /\ HasForced(x)' <=> HasForced(x)
             /\ IsSent(x)' <=> IsSent(x)
             /\ Has(jobs, x)' <=> Has(jobs, x)
  BY <1>7 DEF Has, Waiting, HasForced, IsSent
<1>9. \A x : Retried(x)' <=> Retried(x) \/ (ph = "yielded" /\ x = t.repo)
  <2>1. CASE ph = "yielded"
    <3>1. \A q \in Request : retry'[q] = IF q = f THEN retry[q] + 1 ELSE retry[q]
      BY <1>1, <1>7, <2>1
    <3>2. \A q \in Request : retry'[q] > 0 <=> retry[q] > 0 \/ q = f
      BY <1>1, <3>1
    <3> QED BY <1>4, <2>1, <3>2 DEF Retried
  <2>2. CASE ph # "yielded"
    BY <1>7, <2>2 DEF Retried
  <2> QED BY <2>1, <2>2
<1>10. /\ \A x : Asked(x) <=> OtherAsks(w, x) \/ Asks(job[w], x)
       /\ \A x : Asked(x)' <=> OtherAsks(w, x) \/ Asks(j, x)
       /\ \A x : x \in Running <=> OtherRuns(w, x) \/ Runs(job[w], x)
       /\ \A x : x \in Running' <=> OtherRuns(w, x) \/ Runs(j, x)
  BY <1>7, OneWorkerMoves
<1>11. /\ \A x : Asks(job[w], x) <=> (ph = "yielded" /\ x = t.repo)
       /\ \A x : Asks(j, x) <=> (ph # "yielded" /\ t.repo \in dirty /\ x = t.repo)
       /\ \A x : ~ Runs(job[w], x) /\ ~ Runs(j, x)
  BY <1>1, <1>2, <1>4, <1>5, <1>6, <1>7 DEF Asks, Runs, Owed
<1>12. \A x : IsDue(x)' <=> IsDue(x)
  BY <1>7, <1>8, <1>9, <1>10, <1>11 DEF IsDue
<1>13. Running' = Running
  BY <1>10, <1>11
<1>14. \A x \in Repo : x # t.repo => stats'[x] = stats[x]
  BY <1>1, <1>7
<1>15. Open' \in {Open \cup {t.repo}, Open \ {t.repo}}
  <2>1. \A x : x # t.repo => (x \in Open' <=> x \in Open)
    BY <1>14 DEF Open
  <2> QED BY <2>1
<1> QED BY <1>3, <1>12, <1>13, <1>15, DueIs DEF SameWork

(* The follow-up goes into the channel like any trigger. *)
LEMMA SettlePromised ==
    ASSUME IInv, NEW w \in Worker, Settle(w)
    PROVE  SameWork /\ stats' = stats
<1>1. enq \in Seq(Request) /\ job[w].send \in Request \cup {NoTok}
  BY DEF IInv, Types, ChannelTypes, WorkerTypes, JobRec
<1>2. PICK j : j = Idle
  OBVIOUS
<1>3. /\ job' = [job EXCEPT ![w] = j] /\ job[w].phase \in {"settling", "settlingOk"}
      /\ \/ job[w].send = NoTok /\ enq' = enq
         \/ job[w].send # NoTok /\ enq' = Append(enq, job[w].send)
      /\ UNCHANGED <<pendingQ, jobs, sending, forced, retry, dirty, stats>>
  BY <1>2 DEF Settle, Send, queueVars, admitVars
<1>4. \A x : /\ Waiting(x)' <=> Waiting(x)
             /\ HasForced(x)' <=> HasForced(x)
             /\ IsSent(x)' <=> IsSent(x)
             /\ Retried(x)' <=> Retried(x)
             /\ Has(jobs, x)' <=> Has(jobs, x)
             /\ Has(enq, x)' <=> Has(enq', x)
  BY <1>3 DEF Has, Waiting, HasForced, IsSent, Retried
<1>5. /\ \A x : Asked(x) <=> OtherAsks(w, x) \/ Asks(job[w], x)
      /\ \A x : Asked(x)' <=> OtherAsks(w, x) \/ Asks(j, x)
      /\ \A x : x \in Running <=> OtherRuns(w, x) \/ Runs(job[w], x)
      /\ \A x : x \in Running' <=> OtherRuns(w, x) \/ Runs(j, x)
  BY <1>3, OneWorkerMoves
<1>6. /\ \A x : Asks(job[w], x) <=> (job[w].send # NoTok /\ job[w].send.repo = x)
      /\ \A x : ~ Asks(j, x) /\ ~ Runs(job[w], x) /\ ~ Runs(j, x)
  BY <1>2, <1>3 DEF Asks, Runs, Idle
<1>7. \A x : Has(enq', x) <=> Has(enq, x) \/ Asks(job[w], x)
  <2>1. CASE job[w].send = NoTok
    BY <1>3, <1>6, <2>1
  <2>2. CASE job[w].send # NoTok
    <3>1. PICK e : e = job[w].send
      OBVIOUS
    <3>2. \A x : Has(Append(enq, e), x) <=> Has(enq, x) \/ e.repo = x
      BY <1>1, HasMore
    <3> QED BY <1>3, <1>6, <2>2, <3>1, <3>2
  <2> QED BY <2>1, <2>2
<1>8. \A x : IsDue(x)' <=> IsDue(x)
  BY <1>3, <1>4, <1>5, <1>6, <1>7 DEF IsDue
<1>9. Running' = Running
  BY <1>5, <1>6
<1> QED BY <1>3, <1>8, <1>9, DueIs DEF SameWork

(* No trigger is lost on any path through the queues, the failure and the  *)
(* yield included: every step of the scheduler is a step of the promise,   *)
(* or none that the promise sees.                                          *)
THEOREM SchedulerKeepsPromise == Spec => KeepsPromise
<1>1. Init => Promise!Init
  <2> SUFFICES ASSUME Init PROVE Promise!Init
    OBVIOUS
  <2>1. \A w \in Worker : job[w] = Idle /\ Idle.phase = "idle" /\ Idle.send = NoTok
    BY DEF Init, Idle
  <2>2. \A x : ~ IsDue(x)
    BY <2>1 DEF Init, IsDue, Has, Waiting, HasForced, IsSent, Retried, Asked, Asks
  <2>3. Running = {}
    BY <2>1 DEF Running
  <2>4. Open = {}
    BY DEF Init, Open
  <2> QED BY <2>2, <2>3, <2>4, DueIs DEF Promise!Init, Open
<1>2. IInv /\ [Next]_vars => [Promise!Next]_Promise!vars
  <2> SUFFICES ASSUME IInv, [Next]_vars
               PROVE  [Promise!Next]_Promise!vars
    OBVIOUS
  <2>1. ASSUME SameWork, stats' = stats
        PROVE  [Promise!Next]_Promise!vars
    BY <2>1 DEF SameWork, Promise!vars
  <2>2. ASSUME NEW r \in Repo, SameWork, Open' \in {Open \cup {r}, Open \ {r}}
        PROVE  Promise!Next
    BY <2>2 DEF SameWork, Open, Promise!Next, Promise!Circuit
  <2>3. ASSUME UNCHANGED <<enq, pendingQ, jobs, sending, forced, dirty, retry, job>>
        PROVE  SameWork
    <3>1. \A x : IsDue(x)' <=> IsDue(x)
      BY <2>3 DEF IsDue, Has, Waiting, HasForced, IsSent, Retried, Asked, Asks
    <3> QED BY <2>3, <3>1, WorkStays
  <2>4. ASSUME NEW q \in Request, Enqueue(q)
        PROVE  Promise!Next
    <3>1. enq' = Append(enq, q) /\ UNCHANGED <<pendingQ, jobs, sending, forced, dirty, retry, job, stats>>
      BY <2>4 DEF Enqueue, Send, queueVars, admitVars
    <3>2. \A x : Has(enq', x) <=> Has(enq, x) \/ q.repo = x
      BY <3>1, HasMore DEF IInv, Types, ChannelTypes
    <3>3. \A x : /\ Has(enq, x)' <=> Has(enq', x)
                 /\ Waiting(x)' <=> Waiting(x)
                 /\ HasForced(x)' <=> HasForced(x)
                 /\ IsSent(x)' <=> IsSent(x)
                 /\ Retried(x)' <=> Retried(x)
                 /\ Has(jobs, x)' <=> Has(jobs, x)
                 /\ Asked(x)' <=> Asked(x)
      BY <3>1 DEF Has, Waiting, HasForced, IsSent, Retried, Asked, Asks
    <3>4. \A x : IsDue(x)' <=> IsDue(x) \/ x = q.repo
      BY <3>1, <3>2, <3>3 DEF IsDue
    <3>5. Due' = Due \cup {q.repo}
      BY <3>4, DueIs
    <3>6. Running' = Running /\ q.repo \in Repo
      BY <3>1 DEF Running, Request
    <3> QED BY <3>1, <3>5, <3>6 DEF Promise!Next, Promise!Trigger
  <2>5. ASSUME \/ \E q \in Request : RetryFires(q)
               \/ Dedup \/ Admit \/ DeliverAdmitted \/ ForceAdmit
               \/ \E t \in forced : DeliverForced(t)
        PROVE  [Promise!Next]_Promise!vars
    BY <2>1, <2>5, QueuesKeepDue
  <2>6. ASSUME ResetDeadMan \/ DeadManExpires \/ Neighbour \/ UNCHANGED vars
        PROVE  [Promise!Next]_Promise!vars
    <3>1. UNCHANGED <<enq, pendingQ, jobs, sending, forced, dirty, retry, job>> /\ stats' = stats
      BY <2>6 DEF ResetDeadMan, DeadManExpires, Neighbour, StageAcquires, StageDrains, StageReleases,
          StageChanges, RebuildWants, RebuildClaims, RebuildReleases, queueVars, admitVars, vars
    <3> QED BY <2>1, <2>3, <3>1
  <2>7. ASSUME NEW r \in Repo, BackoffExpires(r) \/ MarkIndexed(r)
        PROVE  Promise!Next
    <3>1. UNCHANGED <<enq, pendingQ, jobs, sending, forced, dirty, retry, job>>
      BY <2>7 DEF BackoffExpires, MarkIndexed, queueVars, admitVars
    <3>2. \A x \in Repo : x # r => stats'[x] = stats[x]
      BY <2>7 DEF BackoffExpires, MarkIndexed, IInv, Types, RepoTypes
    <3>3. \A x : x # r => (x \in Open' <=> x \in Open)
      BY <3>2 DEF Open
    <3> QED BY <2>2, <2>3, <3>1, <3>3
  <2>8. ASSUME NEW w \in Worker, WorkerStep(w)
        PROVE  [Promise!Next]_Promise!vars
    <3>1. CASE StartJob(w)
      <4>1. PICK r \in Repo : /\ r \in Due /\ Running' = Running /\ stats' = stats
                              /\ Due' = Due \/ (r \in Open /\ Due' = Due \ {r})
        BY <3>1, StartPromised
      <4> QED BY <4>1 DEF Open, Promise!Next, Promise!Drop, Promise!vars
    <3>2. CASE ClaimRepo(w)
      <4>1. stats' = stats
        BY <3>2 DEF ClaimRepo
      <4>2. PICK r \in Repo : \/ SameWork
                              \/ /\ r \in Due \ Running /\ Running' = Running \cup {r}
                                 /\ Due' \in {Due, Due \ {r}}
        BY <3>2, ClaimPromised
      <4> QED BY <2>1, <4>1, <4>2 DEF Promise!Next, Promise!Start
    <3>3. CASE IndexReturns(w)
      <4>1. stats' = stats
        BY <3>3 DEF IndexReturns
      <4>2. PICK r \in Repo : r \in Running /\ Running' = Running \ {r} /\ Due' = Due
        BY <3>3, ReturnPromised
      <4> QED BY <4>1, <4>2 DEF Promise!Next, Promise!Finish
    <3>4. CASE Retire(w)
      BY <2>2, <3>4, RetirePromised
    <3>5. CASE Settle(w)
      BY <2>1, <3>5, SettlePromised
    <3> QED BY <2>8, <3>1, <3>2, <3>3, <3>4, <3>5 DEF WorkerStep
  <2> QED BY <2>4, <2>5, <2>6, <2>7, <2>8 DEF Next
<1> QED BY <1>1, <1>2, SpecIInv, PTL DEF Spec, KeepsPromise, Promise!Spec
=============================================================================
