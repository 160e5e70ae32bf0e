---------------------------- MODULE GraphGenProofs ----------------------------
(***************************************************************************)
(* For every number of generations and of deaths, "current" names a whole  *)
(* generation and only moves forward, and what was finished is never       *)
(* written again.  The invariant says where the indexer's generation is    *)
(* with respect to the pointer at each of its steps.                       *)
(***************************************************************************)
EXTENDS GraphGen, WellFoundedInduction, TLAPS

(* What the indexer writes is ahead of the pointer and nobody's yet.       *)
WriterAhead ==
    /\ writer.pc \in Layout \cup {"flip"} => writer.gen \in Gen /\ pointer < writer.gen
    /\ writer.pc = "file" => entry[writer.gen] = Missing
    /\ writer.pc = "dir"  => entry[writer.gen] = Dir("building")
    /\ writer.pc = "flip" => Whole(writer.gen)

(* GC is two behind the pointer. *)
SweepsBehind ==
    writer.pc = "sweep" => writer.gen \in Gen /\ \A s \in writer.stale : s < pointer - 1

GInv == GenTypeOK /\ PointerWhole /\ WriterAhead /\ SweepsBehind

(* A set of naturals below a bound has a greatest member. *)
LEMMA MaxExists ==
    ASSUME NEW N \in Nat, NEW S, S \subseteq 0..N, S # {}
    PROVE  /\ Max(S) \in S
           /\ \A x \in S : x <= Max(S)
<1> DEFINE T == {N - x : x \in S}
<1>1. T \subseteq Nat /\ T # {}
  <2>1. \A x \in S : N - x \in Nat
    OBVIOUS
  <2>2. PICK x \in S : TRUE
    OBVIOUS
  <2>3. N - x \in T
    OBVIOUS
  <2> QED BY <2>1, <2>3
<1>2. PICK t \in T : \A u \in T : ~ (<<u, t>> \in OpToRel(<, Nat))
  <2> HIDE DEF T
  <2> QED BY <1>1, WFMin, NatLessThanWellFounded
<1>3. \A u \in T : ~ (u < t)
  BY <1>1, <1>2 DEF OpToRel
<1>4. PICK m \in S : t = N - m
  BY <1>2
<1>5. \A x \in S : x <= m
  <2> TAKE x \in S
  <2>1. N - x \in T
    OBVIOUS
  <2>2. ~ (N - x < N - m)
    BY <1>3, <1>4, <2>1
  <2> QED BY <2>2
<1>6. \E y \in S : \A x \in S : y >= x
  BY <1>5
<1>7. /\ Max(S) \in S
      /\ \A x \in S : Max(S) >= x
  BY <1>6 DEF Max
<1> QED BY <1>7

(* A fresh generation is past the pointer and its name is free. *)
LEMMA NextGenFresh ==
    ASSUME GenTypeOK
    PROVE  /\ NextGen \in Nat
           /\ pointer < NextGen
           /\ NextGen \in Gen => entry[NextGen] = Missing
<1> DEFINE S == {pointer} \cup {g \in Gen : entry[g] # Missing}
<1>1. S \subseteq 0..MaxGen /\ S # {}
  BY GenAssumption DEF GenTypeOK, Gen, Flat
<1>2. /\ Max(S) \in S
      /\ \A x \in S : x <= Max(S)
  <2> HIDE DEF S
  <2> QED BY <1>1, MaxExists, GenAssumption
<1>3. NextGen = 1 + Max(S)
  BY DEF NextGen
<1>4. pointer \in S /\ \A g \in Gen : entry[g] # Missing => g \in S
  OBVIOUS
<1> HIDE DEF S
<1>5. Max(S) \in Nat
  <2>1. \A x \in S : x \in 0..MaxGen
    BY <1>1
  <2>2. Max(S) \in 0..MaxGen
    BY <1>2, <2>1
  <2> QED BY <2>2, GenAssumption
<1>6. pointer <= Max(S) /\ pointer \in 0..MaxGen
  BY <1>1, <1>2, <1>4
<1>7. ASSUME NextGen \in Gen PROVE entry[NextGen] = Missing
  <2>1. NextGen \notin S
    BY <1>2, <1>3, <1>5
  <2> QED BY <1>4, <1>7, <2>1
<1> QED BY <1>3, <1>5, <1>6, <1>7

(* The directory is empty, or holds the legacy graph, when it all begins. *)
LEMMA GenInitInv == GenInit => GInv
BY GenAssumption, DeathAssumption
   DEF GenInit, GInv, GenTypeOK, PointerWhole, WriterAhead, SweepsBehind, Idle, Flat, Gen, Layout

(* A step of the indexer keeps the invariant, moves the pointer forward if *)
(* at all, and leaves finished generations alone or removes them.          *)
LEMMA GenNextInv ==
    ASSUME GInv, [WriterStep]_diskVars
    PROVE  GInv' /\ pointer' >= pointer
           /\ \A g \in Gen : Whole(g) => entry'[g] \in {entry[g], Missing, Dir("torn")}
<1> USE GenAssumption, DeathAssumption
<1> Gen \subseteq Nat /\ pointer \in Nat
  BY DEF Gen, GInv, GenTypeOK, Flat
<1>1. CASE BeginWrite
  <2>1. /\ NextGen \in Gen /\ pointer < NextGen
        /\ entry[NextGen] = Missing
    BY <1>1, NextGenFresh DEF BeginWrite, GInv
  <2>2. LayoutOf[NextGen] \in Layout
    BY <2>1, LayoutAssumption
  <2>3. ~ Whole(NextGen) /\ NextGen # pointer
    BY <2>1 DEF Whole, Missing, File, Dir
  <2>4. \A g \in Gen : g # NextGen => entry'[g] = entry[g]
    BY <1>1 DEF BeginWrite, GInv, GenTypeOK
  <2> HIDE DEF NextGen
  <2>5. GenTypeOK'
    BY <1>1, <2>1, <2>2 DEF BeginWrite, GInv, GenTypeOK, Layout, Part, Gen
  <2>6. PointerWhole'
    BY <1>1, <2>3, <2>4 DEF BeginWrite, GInv, PointerWhole, Whole
  <2>7. WriterAhead'
    BY <1>1, <2>1, <2>2 DEF BeginWrite, GInv, GenTypeOK, WriterAhead, Layout, Whole
  <2>8. SweepsBehind'
    BY <1>1, <2>2 DEF BeginWrite, SweepsBehind, Layout
  <2> QED BY <1>1, <2>3, <2>4, <2>5, <2>6, <2>7, <2>8 DEF GInv, BeginWrite
<1>2. CASE FinishWrite
  <2>1. /\ writer.gen \in Gen /\ pointer < writer.gen
        /\ ~ Whole(writer.gen)
    BY <1>2 DEF FinishWrite, GInv, WriterAhead, Layout, Whole, Missing, File, Dir
  <2>2. \A g \in Gen : g # writer.gen => entry'[g] = entry[g]
    BY <1>2 DEF FinishWrite, GInv, GenTypeOK
  <2>3. entry'[writer.gen] \in {File, Dir("whole")}
    BY <1>2, <2>1 DEF FinishWrite, GInv, GenTypeOK
  <2>4. /\ writer'.gen = writer.gen /\ writer'.stale = writer.stale
        /\ writer'.pc = "flip" /\ writer' \in [pc : {"flip"}, gen : 0..MaxGen, stale : SUBSET Gen]
    BY <1>2 DEF FinishWrite, GInv, GenTypeOK
  <2>5. GenTypeOK'
    BY <1>2, <2>1, <2>4 DEF FinishWrite, GInv, GenTypeOK, Part
  <2>6. PointerWhole'
    BY <1>2, <2>1, <2>2 DEF FinishWrite, GInv, PointerWhole, Whole
  <2>7. WriterAhead' /\ SweepsBehind'
    BY <1>2, <2>1, <2>3, <2>4 DEF FinishWrite, WriterAhead, SweepsBehind, Layout, Whole
  <2> QED BY <1>2, <2>1, <2>2, <2>5, <2>6, <2>7 DEF GInv, FinishWrite
<1>3. CASE FlipPointer
  <2>1. /\ writer.gen \in Gen /\ pointer < writer.gen /\ Whole(writer.gen)
    BY <1>3 DEF FlipPointer, GInv, WriterAhead
  <2>2. /\ writer' \in [pc : {"idle", "sweep"}, gen : 0..MaxGen, stale : SUBSET Gen]
        /\ writer'.pc = "sweep" =>
             /\ writer'.gen \in Gen
             /\ \A s \in writer'.stale : s < pointer' - 1
    BY <1>3, <2>1 DEF FlipPointer, Sweeping, Stale, Idle, Gen
  <2>3. GenTypeOK'
    BY <1>3, <2>1, <2>2 DEF FlipPointer, GInv, GenTypeOK
  <2>4. PointerWhole'
    BY <1>3, <2>1 DEF FlipPointer, PointerWhole, Whole
  <2>5. WriterAhead' /\ SweepsBehind'
    BY <2>2 DEF WriterAhead, SweepsBehind, Layout
  <2>6. entry' = entry /\ pointer' = writer.gen
    BY <1>3 DEF FlipPointer
  <2>7. pointer' >= pointer
    BY <2>1, <2>6 DEF Gen
  <2> QED BY <2>3, <2>4, <2>5, <2>6, <2>7 DEF GInv
<1>4. ASSUME NEW s \in Gen, RemoveStale(s) \/ KeepStale(s)
      PROVE  GInv' /\ pointer' = pointer
             /\ \A g \in Gen : entry'[g] \in {entry[g], Missing, Dir("torn")}
  <2>1. /\ s \in writer.stale /\ s < pointer - 1 /\ writer.pc = "sweep" /\ writer.gen \in Gen
    BY <1>4 DEF RemoveStale, KeepStale, GInv, SweepsBehind
  <2>2. /\ \A g \in Gen : g # s => entry'[g] = entry[g]
        /\ entry'[s] \in {entry[s], Missing, Dir("torn")}
        /\ entry' \in [Gen -> {Missing, File} \cup {Dir(part) : part \in Part}]
    BY <1>4 DEF RemoveStale, KeepStale, GInv, GenTypeOK, Part
  <2>3. /\ writer' \in [pc : {"idle", "sweep"}, gen : 0..MaxGen, stale : SUBSET Gen]
        /\ writer'.pc = "sweep" => writer'.gen \in Gen /\ writer'.stale \subseteq writer.stale
    BY <1>4, <2>1 DEF RemoveStale, KeepStale, GInv, GenTypeOK, Sweeping, Idle
  <2>4. pointer' = pointer /\ flat' = flat /\ deaths' = deaths
    BY <1>4 DEF RemoveStale, KeepStale
  <2>5. GenTypeOK'
    BY <2>2, <2>3, <2>4 DEF GInv, GenTypeOK
  <2>6. PointerWhole'
    BY <2>1, <2>2, <2>4 DEF GInv, PointerWhole, Whole
  <2>7. WriterAhead' /\ SweepsBehind'
    BY <2>1, <2>3, <2>4 DEF GInv, WriterAhead, SweepsBehind, Layout
  <2> QED BY <2>2, <2>4, <2>5, <2>6, <2>7 DEF GInv
<1>5. CASE DieWriting
  <2>1. writer' = Idle /\ deaths' \in 0..MaxDeaths
    BY <1>5 DEF DieWriting, GInv, GenTypeOK
  <2> QED BY <1>5, <2>1 DEF DieWriting, GInv, GenTypeOK, PointerWhole, WriterAhead,
                            SweepsBehind, Whole, Idle, Layout
<1>6. CASE UNCHANGED diskVars
  BY <1>6 DEF diskVars, GInv, GenTypeOK, PointerWhole, WriterAhead, SweepsBehind, Whole
<1> QED BY <1>1, <1>2, <1>3, <1>4, <1>5, <1>6 DEF WriterStep

(* A step removes nothing of the current generation nor of the one before. *)
LEMMA GenKeepsTwo ==
    ASSUME GInv, [WriterStep]_diskVars, NEW g \in Gen, Whole(g), pointer' <= g + 1
    PROVE  Whole(g)'
<1> Gen \subseteq Nat /\ pointer \in Nat
  BY GenAssumption DEF Gen, GInv, GenTypeOK, Flat
<1>1. CASE BeginWrite
  <2>1. NextGen \in Gen => entry[NextGen] = Missing
    BY NextGenFresh DEF GInv
  <2>2. g # NextGen
    BY <2>1 DEF Whole, Missing, File, Dir
  <2> HIDE DEF NextGen
  <2> QED BY <1>1, <2>2 DEF BeginWrite, Whole, GInv, GenTypeOK
<1>2. CASE FinishWrite
  BY <1>2 DEF FinishWrite, Whole, GInv, GenTypeOK
<1>3. CASE FlipPointer \/ DieWriting
  BY <1>3 DEF FlipPointer, DieWriting, Whole
<1>4. ASSUME NEW s \in Gen, RemoveStale(s) \/ KeepStale(s) PROVE Whole(g)'
  <2>1. s < pointer - 1 /\ pointer' = pointer
    BY <1>4 DEF RemoveStale, KeepStale, GInv, SweepsBehind
  <2>2. s # g
    BY <2>1
  <2> QED BY <1>4, <2>2 DEF RemoveStale, KeepStale, Whole, GInv, GenTypeOK
<1>5. CASE UNCHANGED diskVars
  BY <1>5 DEF diskVars, Whole
<1> QED BY <1>1, <1>2, <1>3, <1>4, <1>5 DEF WriterStep

(* The generations on disk satisfy the invariant at all times. *)
THEOREM GenInvariance == GenSpec => []GInv
<1>1. GInv /\ [WriterStep]_diskVars => GInv'
  BY GenNextInv
<1> QED BY GenInitInv, <1>1, PTL DEF GenSpec

(* "current" never names a generation that is missing, unfinished or       *)
(* partly removed, whatever the number of generations and of deaths.       *)
THEOREM PublishedWhole == GenSpec => []PointerWhole
<1>1. GInv => PointerWhole
  BY DEF GInv
<1> QED BY GenInvariance, <1>1, PTL

(* Published graphs stay as they are, under a pointer that goes forward.   *)
THEOREM Published == GenSpec => PublishedStay
<1>1. GInv /\ [WriterStep]_diskVars =>
        /\ [pointer' >= pointer]_pointer
        /\ [\A g \in Gen : Whole(g) => entry'[g] \in {entry[g], Missing, Dir("torn")}]_entry
  BY GenNextInv
<1> QED BY GenInvariance, <1>1, PTL DEF GenSpec, PublishedStay, PointerGrows, NeverRewritten
=============================================================================
