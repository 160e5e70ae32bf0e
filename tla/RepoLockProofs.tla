--------------------------- MODULE RepoLockProofs ---------------------------
(***************************************************************************)
(* The registry's claims are exclusive for every set of keys, goroutines   *)
(* and keyState addresses.  The invariant that carries the proofs, IInv,   *)
(* says of the pointers what the code relies on: who has a claim under way *)
(* works on the mapped object, and the object counts its claimants.        *)
(***************************************************************************)
EXTENDS RepoLock, FiniteSetTheorems, TLAPS

(* A call in its claim works on the object that its key is mapped to. *)
OnMapped ==
    \A p \in Proc : pc[p] \in Wanting => ks[p] # NoObj /\ ks[p] = st[key[p]]

(* No object serves two keys. *)
MappedApart ==
    \A k, l \in Key : st[k] = st[l] /\ st[k] # NoObj => k = l

(* A holder's object says so, and it has no other holder. *)
HeldOnce ==
    /\ \A p \in Proc : pc[p] = "holding" => heap[ks[p]].held
    /\ \A p, q \in Proc : /\ pc[p] = "holding" /\ pc[q] = "holding"
                          /\ ks[p] = ks[q]
                          => p = q

(* The scheduler never waits for a claim. *)
BgNeverWaits == \A p \in Bg : pc[p] \notin Waiting

(* fgWant counts the foreground claims under way. *)
WantCounts ==
    \A k \in Key : st[k] # NoObj => heap[st[k]].fgWant = Cardinality(Claimants(k))

IInv == TypeOK /\ OnMapped /\ MappedApart /\ HeldOnce /\ BgNeverWaits /\ WantCounts

(* There are finitely many claimants of a key. *)
LEMMA ClaimantsFinite ==
    ASSUME NEW k \in Key
    PROVE  IsFiniteSet(Claimants(k))
<1>1. Claimants(k) \in SUBSET Fg
  BY DEF Claimants
<1> QED BY <1>1, FgAssumption, FS_Subset

(* What a call finds in its key's keyState counts the key's claimants,     *)
(* mapped or not: an unmapped key has none.                                *)
LEMMA ContentsCount ==
    ASSUME IInv, NEW k \in Key
    PROVE  /\ Contents(k) \in KeyState
           /\ Contents(k).fgWant = Cardinality(Claimants(k))
<1>1. CASE st[k] # NoObj
  BY <1>1 DEF Contents, IInv, TypeOK, WantCounts
<1>2. CASE st[k] = NoObj
  <2>1. Claimants(k) = {}
    BY <1>2 DEF IInv, OnMapped, Claimants, Proc
  <2>2. FreshKeyState \in KeyState
    BY TimeAssumption DEF FreshKeyState, KeyState
  <2> QED BY <1>2, <2>1, <2>2, FS_EmptySet DEF Contents, FreshKeyState
<1> QED BY <1>1, <1>2

(* The initial states satisfy the invariant. *)
LEMMA InitInv == Init => IInv
<1> SUFFICES ASSUME Init PROVE IInv
  OBVIOUS
<1>1. TypeOK
  BY TimeAssumption DEF Init, TypeOK, FreshKeyState, KeyState, Time, Proc
<1>2. \A p \in Proc : pc[p] = "idle"
  BY DEF Init
<1>3. \A k \in Key : st[k] = NoObj
  BY DEF Init
<1> QED
  BY <1>1, <1>2, <1>3 DEF IInv, OnMapped, MappedApart, HeldOnce, BgNeverWaits,
                          WantCounts, Wanting, Waiting, Proc

(* Recording the intent of a foreground claim keeps the invariant. *)
LEMMA ClaimForegroundInv ==
    ASSUME IInv, NEW p \in Fg, NEW k \in Key, ClaimForeground(p, k)
    PROVE  IInv'
<1> DEFINE c == Intend(Contents(k))
           new == [c EXCEPT !.held = TRUE]
<1>1. PICK o \in Obj :
        /\ StateOf(k, o)
        /\ heap' = [heap EXCEPT ![o] = new]
        /\ pc' = [pc EXCEPT ![p] = IF c.held THEN "asleep" ELSE "holding"]
        /\ st' = [st EXCEPT ![k] = o]
        /\ ks' = [ks EXCEPT ![p] = o]
        /\ key' = [key EXCEPT ![p] = k]
  BY DEF ClaimForeground
<1>2. pc[p] = "idle" /\ UNCHANGED <<graph, now>>
  BY DEF ClaimForeground
<1>3. /\ Contents(k) \in KeyState
      /\ Contents(k).fgWant = Cardinality(Claimants(k))
  BY ContentsCount
<1>4. /\ c \in KeyState /\ new \in KeyState
      /\ new.held /\ c.held = Contents(k).held
      /\ new.fgWant = Cardinality(Claimants(k)) + 1
  <2> DEFINE d == Contents(k)
             start == IF d.fgWant = 0 THEN now ELSE d.fgStart
  <2>1. d \in KeyState /\ d.fgWant = Cardinality(Claimants(k))
    BY <1>3
  <2>2. now \in 0..MaxTime
    BY TimeAssumption DEF IInv, TypeOK, Time
  <2>3. \A x \in KeyState : LET y == [x EXCEPT !.held = TRUE]
                           IN y \in KeyState /\ y.held /\ y.fgWant = x.fgWant
    BY DEF KeyState
  <2>4. d.held \in BOOLEAN /\ d.fgWant \in Nat /\ start \in 0..MaxTime
    BY <2>1, <2>2 DEF KeyState
  <2>5. c = [held |-> d.held, fgWant |-> d.fgWant + 1, fgStart |-> start]
    BY DEF Intend
  <2>6. c \in KeyState /\ c.held = d.held /\ c.fgWant = d.fgWant + 1
    BY <2>4, <2>5 DEF KeyState
  <2>7. new \in KeyState /\ new.held /\ new.fgWant = c.fgWant
    BY <2>3, <2>6
  <2> QED BY <2>1, <2>6, <2>7
<1>5. TypeOK'
  BY <1>1, <1>2, <1>4 DEF IInv, TypeOK, Wanting, Waiting, Proc
<1>6. \A l \in Key : l # k => st[l] # o
  BY <1>1, ObjAssumption DEF StateOf, Unreferenced, IInv, MappedApart, TypeOK
<1>7. \A q \in Proc : q # p /\ pc[q] \in Wanting /\ ks[q] = o => key[q] = k
  BY <1>6 DEF IInv, OnMapped, TypeOK
<1>8. OnMapped'
  <2> SUFFICES ASSUME NEW q \in Proc, pc'[q] \in Wanting
               PROVE  ks'[q] # NoObj /\ ks'[q] = st'[key'[q]]
    BY DEF OnMapped
  <2>1. CASE q = p
    BY <2>1, <1>1, ObjAssumption DEF IInv, TypeOK, Proc
  <2>2. CASE q # p
    <3>1. pc[q] \in Wanting /\ ks'[q] = ks[q] /\ key'[q] = key[q]
      BY <2>2, <1>1 DEF IInv, TypeOK, Proc
    <3>2. ks[q] # NoObj /\ ks[q] = st[key[q]] /\ key[q] \in Key
      BY <3>1 DEF IInv, OnMapped, TypeOK
    <3>3. key[q] = k => st[key[q]] = o
      BY <3>2, <1>1 DEF StateOf
    <3> QED BY <3>1, <3>2, <3>3, <1>1 DEF IInv, TypeOK
  <2> QED BY <2>1, <2>2
<1>9. MappedApart'
  BY <1>1, <1>6 DEF IInv, MappedApart, TypeOK
<1>10. pc'[p] = "holding" => \A q \in Proc : q # p /\ pc[q] = "holding" => ks[q] # o
  <2> SUFFICES ASSUME pc'[p] = "holding", NEW q \in Proc, q # p,
                      pc[q] = "holding", ks[q] = o
               PROVE  FALSE
    OBVIOUS
  <2>1. ~Contents(k).held
    BY <1>1, <1>4 DEF IInv, TypeOK, Proc
  <2>2. ~Unreferenced(o)
    BY DEF Unreferenced
  <2>3. st[k] = o /\ st[k] # NoObj
    BY <1>1, <2>2, ObjAssumption DEF StateOf
  <2> QED BY <2>1, <2>3 DEF Contents, IInv, HeldOnce
<1>11. HeldOnce'
  <2>1. ASSUME NEW q \in Proc, pc'[q] = "holding" PROVE heap'[ks'[q]].held
    <3>1. CASE q = p
      BY <3>1, <1>1, <1>4 DEF IInv, TypeOK, Proc
    <3>2. CASE q # p
      <4>1. pc[q] = "holding" /\ ks'[q] = ks[q]
        BY <3>2, <2>1, <1>1 DEF IInv, TypeOK, Proc
      <4>2. ks[q] \in Obj /\ heap[ks[q]].held
        BY <4>1 DEF IInv, TypeOK, OnMapped, HeldOnce, Wanting
      <4> QED BY <4>1, <4>2, <1>1, <1>4 DEF IInv, TypeOK
    <3> QED BY <3>1, <3>2
  <2>2. ASSUME NEW q \in Proc, NEW r \in Proc,
               pc'[q] = "holding", pc'[r] = "holding", ks'[q] = ks'[r]
        PROVE  q = r
    BY <2>2, <1>1, <1>10 DEF IInv, TypeOK, HeldOnce, Proc
  <2> QED BY <2>1, <2>2 DEF HeldOnce
<1>12. BgNeverWaits'
  BY <1>1, ProcAssumption DEF IInv, BgNeverWaits, TypeOK, Proc
<1>13. Claimants(k)' = Claimants(k) \cup {p} /\ p \notin Claimants(k)
  BY <1>1, <1>2 DEF Claimants, Wanting, Waiting, IInv, TypeOK, Proc
<1>14. \A l \in Key : l # k => Claimants(l)' = Claimants(l)
  BY <1>1, <1>2 DEF Claimants, Wanting, Waiting, IInv, TypeOK, Proc
<1>15. WantCounts'
  <2> SUFFICES ASSUME NEW l \in Key, st'[l] # NoObj
               PROVE  heap'[st'[l]].fgWant = Cardinality(Claimants(l)')
    BY DEF WantCounts
  <2>1. CASE l = k
    <3>1. Cardinality(Claimants(k)') = Cardinality(Claimants(k)) + 1
      BY <1>13, ClaimantsFinite, FS_AddElement
    <3> QED BY <2>1, <3>1, <1>1, <1>4 DEF IInv, TypeOK
  <2>2. CASE l # k
    BY <2>2, <1>1, <1>6, <1>14 DEF IInv, TypeOK, WantCounts
  <2> QED BY <2>1, <2>2
<1> QED BY <1>5, <1>8, <1>9, <1>11, <1>12, <1>15 DEF IInv

(* So does a woken claimant's look at held. *)
LEMMA WakeForegroundInv ==
    ASSUME IInv, NEW p \in Fg, WakeForeground(p)
    PROVE  IInv'
<1> DEFINE o == ks[p]
<1>1. /\ pc[p] = "awake" /\ p \in Proc
      /\ pc' = [pc EXCEPT ![p] = IF heap[o].held THEN "asleep" ELSE "holding"]
      /\ heap' = [heap EXCEPT ![o].held = TRUE]
      /\ UNCHANGED <<st, key, ks, graph, now>>
  BY DEF WakeForeground, Proc
<1>2. o \in Obj /\ o = st[key[p]]
  BY <1>1 DEF IInv, TypeOK, OnMapped, Wanting, Waiting
<1>3. TypeOK'
  BY <1>1, <1>2 DEF IInv, TypeOK, KeyState, Wanting, Waiting
<1>4. \A q \in Proc : pc'[q] \in Wanting <=> pc[q] \in Wanting
  BY <1>1 DEF IInv, TypeOK, Wanting, Waiting
<1>5. OnMapped' /\ MappedApart'
  BY <1>1, <1>4 DEF IInv, OnMapped, MappedApart
<1>6. \A x \in Obj : heap'[x].fgWant = heap[x].fgWant /\ (heap[x].held => heap'[x].held)
  BY <1>1, <1>2 DEF IInv, TypeOK, KeyState
<1>7. HeldOnce'
  <2>1. heap'[o].held
    BY <1>1, <1>2 DEF IInv, TypeOK, KeyState
  <2>2. ASSUME NEW q \in Proc, pc'[q] = "holding" PROVE heap'[ks'[q]].held
    <3>1. CASE q = p
      BY <3>1, <2>1, <1>1
    <3>2. CASE q # p
      <4>1. pc[q] = "holding"
        BY <3>2, <2>2, <1>1 DEF IInv, TypeOK
      <4>2. ks[q] \in Obj /\ heap[ks[q]].held
        BY <4>1 DEF IInv, TypeOK, OnMapped, HeldOnce, Wanting
      <4> QED BY <4>2, <1>1, <1>6
    <3> QED BY <3>1, <3>2
  <2>3. ASSUME NEW q \in Proc, NEW r \in Proc,
               pc'[q] = "holding", pc'[r] = "holding", ks'[q] = ks'[r]
        PROVE  q = r
    <3>1. pc'[p] = "holding" => \A x \in Proc : x # p /\ pc[x] = "holding" => ks[x] # o
      BY <1>1 DEF IInv, TypeOK, HeldOnce
    <3> QED BY <2>3, <3>1, <1>1 DEF IInv, TypeOK, HeldOnce
  <2> QED BY <2>2, <2>3 DEF HeldOnce
<1>8. BgNeverWaits'
  BY <1>1, ProcAssumption DEF IInv, TypeOK, BgNeverWaits, Proc
<1>9. \A k \in Key : Claimants(k)' = Claimants(k)
  BY <1>1, <1>4 DEF Claimants, Proc
<1>10. WantCounts'
  BY <1>1, <1>6, <1>9 DEF IInv, TypeOK, WantCounts
<1> QED BY <1>3, <1>5, <1>7, <1>8, <1>10 DEF IInv

(* A successful background claim finds the key neither held nor wanted.    *)
LEMMA TryClaimBackgroundInv ==
    ASSUME IInv, NEW p \in Bg, NEW k \in Key, TryClaimBackground(p, k)
    PROVE  IInv'
<1> DEFINE new == [Contents(k) EXCEPT !.held = TRUE]
<1>1. PICK o \in Obj :
        /\ StateOf(k, o)
        /\ heap' = [heap EXCEPT ![o] = new]
        /\ st' = [st EXCEPT ![k] = o]
        /\ ks' = [ks EXCEPT ![p] = o]
  BY DEF TryClaimBackground
<1>2. /\ pc[p] \in {"idle", "released"} /\ p \in Proc /\ p \notin Fg
      /\ ~Contents(k).held
      /\ key' = [key EXCEPT ![p] = k]
      /\ pc' = [pc EXCEPT ![p] = "holding"]
      /\ UNCHANGED <<graph, now>>
  BY ProcAssumption DEF TryClaimBackground, MayClaimBackground, Proc
<1>3. /\ Contents(k) \in KeyState
      /\ Contents(k).fgWant = Cardinality(Claimants(k))
  BY ContentsCount
<1>4. new \in KeyState /\ new.held /\ new.fgWant = Cardinality(Claimants(k))
  BY <1>3 DEF KeyState
<1> HIDE DEF new
<1>5. TypeOK'
  BY <1>1, <1>2, <1>4 DEF IInv, TypeOK, Wanting, Waiting
<1>6. \A l \in Key : l # k => st[l] # o
  BY <1>1, ObjAssumption DEF StateOf, Unreferenced, IInv, MappedApart, TypeOK
<1>7. OnMapped'
  <2> SUFFICES ASSUME NEW q \in Proc, pc'[q] \in Wanting
               PROVE  ks'[q] # NoObj /\ ks'[q] = st'[key'[q]]
    BY DEF OnMapped
  <2>1. CASE q = p
    BY <2>1, <1>1, <1>2, ObjAssumption DEF IInv, TypeOK
  <2>2. CASE q # p
    <3>1. pc[q] \in Wanting /\ ks'[q] = ks[q] /\ key'[q] = key[q]
      BY <2>2, <1>1, <1>2 DEF IInv, TypeOK
    <3>2. ks[q] # NoObj /\ ks[q] = st[key[q]] /\ key[q] \in Key
      BY <3>1 DEF IInv, OnMapped, TypeOK
    <3>3. key[q] = k => st[key[q]] = o
      BY <3>2, <1>1 DEF StateOf
    <3> QED BY <3>1, <3>2, <3>3, <1>1 DEF IInv, TypeOK
  <2> QED BY <2>1, <2>2
<1>8. MappedApart'
  BY <1>1, <1>6 DEF IInv, MappedApart, TypeOK
<1>9. \A q \in Proc : pc[q] = "holding" => ks[q] # o
  <2> SUFFICES ASSUME NEW q \in Proc, pc[q] = "holding", ks[q] = o
               PROVE  FALSE
    OBVIOUS
  <2>1. st[k] = o /\ st[k] # NoObj
    BY <1>1, ObjAssumption DEF StateOf, Unreferenced
  <2> QED BY <2>1, <1>2 DEF Contents, IInv, HeldOnce
<1>10. HeldOnce'
  <2>1. ASSUME NEW q \in Proc, pc'[q] = "holding" PROVE heap'[ks'[q]].held
    <3>1. CASE q = p
      BY <3>1, <1>1, <1>2, <1>4 DEF IInv, TypeOK
    <3>2. CASE q # p
      <4>1. pc[q] = "holding" /\ ks'[q] = ks[q]
        BY <3>2, <2>1, <1>1, <1>2 DEF IInv, TypeOK
      <4>2. ks[q] \in Obj /\ heap[ks[q]].held
        BY <4>1 DEF IInv, TypeOK, OnMapped, HeldOnce, Wanting
      <4> QED BY <4>1, <4>2, <1>1, <1>9 DEF IInv, TypeOK
    <3> QED BY <3>1, <3>2
  <2>2. ASSUME NEW q \in Proc, NEW r \in Proc,
               pc'[q] = "holding", pc'[r] = "holding", ks'[q] = ks'[r]
        PROVE  q = r
    BY <2>2, <1>1, <1>2, <1>9 DEF IInv, TypeOK, HeldOnce
  <2> QED BY <2>1, <2>2 DEF HeldOnce
<1>11. BgNeverWaits'
  BY <1>2 DEF IInv, BgNeverWaits, TypeOK, Waiting, Proc
<1>12. \A l \in Key : Claimants(l)' = Claimants(l)
  BY <1>2 DEF Claimants, IInv, TypeOK, Proc
<1>13. WantCounts'
  <2> SUFFICES ASSUME NEW l \in Key, st'[l] # NoObj
               PROVE  heap'[st'[l]].fgWant = Cardinality(Claimants(l)')
    BY DEF WantCounts
  <2>1. CASE l = k
    BY <2>1, <1>1, <1>4, <1>12 DEF IInv, TypeOK
  <2>2. CASE l # k
    BY <2>2, <1>1, <1>6, <1>12 DEF IInv, TypeOK, WantCounts
  <2> QED BY <2>1, <2>2
<1> QED BY <1>5, <1>7, <1>8, <1>10, <1>11, <1>13 DEF IInv

(* A release may unmap its object only when nobody else works on it: the   *)
(* count it leaves is that of the other claimants of the key.              *)
LEMMA ReleaseIntoInv ==
    ASSUME IInv, NEW p \in Proc, pc[p] = "holding", NEW c \in KeyState, ~c.held,
           c.fgWant = Cardinality(Claimants(key[p]) \ {p}), ReleaseInto(p, c)
    PROVE  IInv'
<1> DEFINE k == key[p]
           o == ks[p]
<1>1. /\ heap' = [heap EXCEPT ![o] = c]
      /\ st' = [st EXCEPT ![k] = GcLocked(k, st[k], c)]
      /\ pc' = Broadcast([pc EXCEPT ![p] = "released"])
      /\ UNCHANGED <<key, ks, graph, now>>
  BY DEF ReleaseInto, IInv, TypeOK
<1>2. k \in Key /\ o \in Obj /\ o # NoObj /\ o = st[k]
  BY ObjAssumption DEF IInv, TypeOK, OnMapped, Wanting
<1>3. /\ pc' \in [Proc -> {"idle", "released"} \cup Wanting]
      /\ pc'[p] = "released"
      /\ \A q \in Proc : q # p =>
            /\ pc'[q] \in Wanting <=> pc[q] \in Wanting
            /\ pc'[q] = "holding" <=> pc[q] = "holding"
            /\ pc[q] \notin Waiting => pc'[q] \notin Waiting
  BY <1>1 DEF Broadcast, IInv, TypeOK, Wanting, Waiting
<1>4. st'[k] = (IF c.fgWant = 0 THEN NoObj ELSE o) /\ st' \in [Key -> Obj \cup {NoObj}]
  BY <1>1, <1>2 DEF GcLocked, IInv, TypeOK
<1>5. \A l \in Key : l # k => st'[l] = st[l]
  BY <1>1 DEF IInv, TypeOK
<1>6. TypeOK'
  BY <1>1, <1>3, <1>4 DEF IInv, TypeOK
<1>7. \A q \in Proc : q # p /\ pc[q] = "holding" => ks[q] # o
  BY DEF IInv, HeldOnce
<1>8. IsFiniteSet(Claimants(k) \ {p})
  BY <1>2, ClaimantsFinite, FS_RemoveElement
<1>9. OnMapped'
  <2> SUFFICES ASSUME NEW q \in Proc, pc'[q] \in Wanting
               PROVE  ks[q] # NoObj /\ ks[q] = st'[key[q]]
    BY <1>1 DEF OnMapped
  <2>1. q # p /\ pc[q] \in Wanting
    BY <1>3 DEF Wanting, Waiting
  <2>2. ks[q] # NoObj /\ ks[q] = st[key[q]] /\ key[q] \in Key
    BY <2>1 DEF IInv, OnMapped, TypeOK
  <2>3. CASE key[q] # k
    BY <2>2, <2>3, <1>5
  <2>4. CASE key[q] = k
    <3>1. q \notin Bg
      BY <2>1, <2>2, <2>4, <1>2, <1>7 DEF IInv, BgNeverWaits, Wanting
    <3>2. q \in Claimants(k) \ {p}
      BY <2>1, <2>4, <3>1 DEF Claimants, Proc
    <3>3. c.fgWant # 0
      BY <3>2, <1>8, FS_EmptySet
    <3> QED BY <3>3, <2>2, <2>4, <1>2, <1>4
  <2> QED BY <2>3, <2>4
<1>10. MappedApart'
  BY <1>2, <1>4, <1>5 DEF IInv, MappedApart
<1>11. HeldOnce'
  <2>1. ASSUME NEW q \in Proc, pc'[q] = "holding" PROVE heap'[ks'[q]].held
    <3>1. q # p /\ pc[q] = "holding"
      BY <2>1, <1>3
    <3>2. ks[q] \in Obj /\ heap[ks[q]].held /\ ks[q] # o
      BY <3>1, <1>7 DEF IInv, TypeOK, OnMapped, HeldOnce, Wanting
    <3> QED BY <3>2, <1>1 DEF IInv, TypeOK
  <2>2. ASSUME NEW q \in Proc, NEW r \in Proc,
               pc'[q] = "holding", pc'[r] = "holding", ks'[q] = ks'[r]
        PROVE  q = r
    <3>1. q # p /\ r # p /\ pc[q] = "holding" /\ pc[r] = "holding"
      BY <2>2, <1>3
    <3> QED BY <3>1, <2>2, <1>1 DEF IInv, HeldOnce
  <2> QED BY <2>1, <2>2 DEF HeldOnce
<1>12. BgNeverWaits'
  BY <1>3 DEF IInv, BgNeverWaits, Waiting, Proc
<1>13. Claimants(k)' = Claimants(k) \ {p}
  BY <1>1, <1>3 DEF Claimants, Wanting, Waiting, Proc
<1>14. \A l \in Key : l # k => Claimants(l)' = Claimants(l)
  BY <1>1, <1>3 DEF Claimants, Proc
<1>15. WantCounts'
  <2> SUFFICES ASSUME NEW l \in Key, st'[l] # NoObj
               PROVE  heap'[st'[l]].fgWant = Cardinality(Claimants(l)')
    BY DEF WantCounts
  <2>1. CASE l = k
    BY <2>1, <1>1, <1>2, <1>4, <1>13 DEF IInv, TypeOK
  <2>2. CASE l # k
    <3>1. st'[l] = st[l] /\ st[l] # o /\ st[l] \in Obj
      BY <2>2, <1>2, <1>5 DEF IInv, MappedApart, TypeOK
    <3> QED BY <2>2, <3>1, <1>1, <1>14 DEF IInv, TypeOK, WantCounts
  <2> QED BY <2>1, <2>2
<1> QED BY <1>6, <1>9, <1>10, <1>11, <1>12, <1>15 DEF IInv

(* A foreground release withdraws one claimant's intent from the count.    *)
LEMMA ReleaseForegroundInv ==
    ASSUME IInv, NEW p \in Fg, ReleaseForeground(p)
    PROVE  IInv'
<1> DEFINE k == key[p]
           d == heap[ks[p]]
           c == AfterForeground(d)
<1>1. pc[p] = "holding" /\ p \in Proc /\ ReleaseInto(p, c)
  BY DEF ReleaseForeground, Proc
<1>2. k \in Key /\ d \in KeyState /\ d.fgWant = Cardinality(Claimants(k))
  BY <1>1, ObjAssumption DEF IInv, TypeOK, OnMapped, WantCounts, Wanting
<1>3. p \in Claimants(k)
  BY <1>1 DEF Claimants, Wanting
<1>4. /\ IsFiniteSet(Claimants(k) \ {p})
      /\ Cardinality(Claimants(k) \ {p}) = Cardinality(Claimants(k)) - 1
  BY <1>2, <1>3, ClaimantsFinite, FS_RemoveElement
<1>5. Cardinality(Claimants(k) \ {p}) \in Nat
  BY <1>4, FS_CardinalityType
<1>6. c.fgWant = Cardinality(Claimants(k) \ {p}) /\ ~c.held
  BY <1>2, <1>4 DEF AfterForeground
<1>7. c \in KeyState
  <2> DEFINE start == IF d.fgWant = 1 THEN 0 ELSE d.fgStart
  <2>1. start \in 0..MaxTime
    BY <1>2, TimeAssumption DEF KeyState
  <2>2. c = [held |-> FALSE, fgWant |-> d.fgWant - 1, fgStart |-> start]
    BY DEF AfterForeground
  <2>3. d.fgWant - 1 \in Nat
    BY <1>2, <1>4, <1>5
  <2> QED BY <2>1, <2>2, <2>3 DEF KeyState
<1> QED BY <1>1, <1>6, <1>7, ReleaseIntoInv

(* A background release leaves the count alone: its caller is no claimant. *)
LEMMA ReleaseBackgroundInv ==
    ASSUME IInv, NEW p \in Bg, ReleaseBackground(p)
    PROVE  IInv'
<1> DEFINE k == key[p]
           d == heap[ks[p]]
           c == AfterBackground(d)
<1>1. pc[p] = "holding" /\ p \in Proc /\ ReleaseInto(p, c)
  BY DEF ReleaseBackground, Proc
<1>2. d \in KeyState /\ d.fgWant = Cardinality(Claimants(k))
  BY <1>1, ObjAssumption DEF IInv, TypeOK, OnMapped, WantCounts, Wanting
<1>3. Claimants(k) \ {p} = Claimants(k)
  BY ProcAssumption DEF Claimants
<1>4. \A x \in KeyState : LET y == [x EXCEPT !.held = FALSE]
                         IN y \in KeyState /\ ~y.held /\ y.fgWant = x.fgWant
  BY DEF KeyState
<1>5. c \in KeyState /\ ~c.held /\ c.fgWant = d.fgWant
  BY <1>2, <1>4 DEF AfterBackground
<1>6. c.fgWant = Cardinality(Claimants(k) \ {p})
  BY <1>2, <1>3, <1>5
<1> QED BY <1>1, <1>5, <1>6, ReleaseIntoInv

(* A commit of a graph, a clock tick and a stutter move no claim.          *)
LEMMA UnclaimedStepInv ==
    ASSUME IInv, UNCHANGED <<st, heap, pc, key, ks>>, TypeOK'
    PROVE  IInv'
<1>1. \A k \in Key : Claimants(k)' = Claimants(k)
  BY DEF Claimants
<1>2. WantCounts'
  BY <1>1 DEF IInv, WantCounts
<1> QED
  BY <1>2 DEF IInv, OnMapped, MappedApart, HeldOnce, BgNeverWaits

(* Every step of the registry keeps the invariant.                         *)
LEMMA NextInv == IInv /\ [Next]_vars => IInv'
<1> SUFFICES ASSUME IInv, [Next]_vars PROVE IInv'
  OBVIOUS
<1>1. ASSUME NEW p \in Fg, FgStep(p) PROVE IInv'
  BY <1>1, ClaimForegroundInv, WakeForegroundInv, ReleaseForegroundInv DEF FgStep
<1>2. ASSUME NEW p \in Bg, BgStep(p) PROVE IInv'
  BY <1>2, TryClaimBackgroundInv, ReleaseBackgroundInv DEF BgStep
<1>3. ASSUME NEW p \in Proc, WriteGraph(p) PROVE IInv'
  <2>1. TypeOK'
    BY <1>3, TimeAssumption DEF WriteGraph, IInv, TypeOK, Time
  <2> QED BY <2>1, <1>3, UnclaimedStepInv DEF WriteGraph
<1>4. CASE Tick
  <2>1. TypeOK'
    BY <1>4, TimeAssumption DEF Tick, IInv, TypeOK, Time
  <2> QED BY <2>1, <1>4, UnclaimedStepInv DEF Tick
<1>5. CASE UNCHANGED vars
  <2>1. TypeOK'
    BY <1>5 DEF vars, IInv, TypeOK
  <2> QED BY <2>1, <1>5, UnclaimedStepInv DEF vars
<1> QED BY <1>1, <1>2, <1>3, <1>4, <1>5 DEF Next

(* The strengthened invariant holds in every reachable state.              *)
THEOREM Invariance == Spec => []IInv
<1> QED BY InitInv, NextInv, PTL DEF Spec

(* Every claim, keyState and graph keeps its type: in particular fgWant    *)
(* never falls below zero, since releases run once.                        *)
THEOREM TypeCorrect == Spec => []TypeOK
<1>1. IInv => TypeOK
  BY DEF IInv
<1> QED BY <1>1, Invariance, PTL

(* Whatever the number of rebuilds and workers, and however stateOf and    *)
(* gcLocked map and unmap keyStates under sleeping claimants, two indexes  *)
(* of one repo never run side by side.                                     *)
THEOREM Exclusion == Spec => []MutualExclusion
<1>1. IInv => MutualExclusion
  BY DEF IInv, MutualExclusion, Holds, OnMapped, HeldOnce, Wanting
<1> QED BY <1>1, Invariance, PTL

(* HasForegroundClaim is true of a key exactly while some rebuild waits    *)
(* for it or holds it, for any number of rebuilds.                         *)
THEOREM Intent == Spec => []IntentVisible
<1>1. ASSUME IInv, NEW k \in Key
      PROVE  HasForegroundClaim(k) <=> Claimants(k) # {}
  <2>1. CASE st[k] = NoObj
    BY <1>1, <2>1 DEF IInv, OnMapped, Claimants, HasForegroundClaim, Proc
  <2>2. CASE st[k] # NoObj
    <3>1. heap[st[k]].fgWant = Cardinality(Claimants(k))
      BY <1>1, <2>2 DEF IInv, WantCounts
    <3>2. Cardinality(Claimants(k)) \in Nat
      BY ClaimantsFinite, FS_CardinalityType
    <3>3. Cardinality(Claimants(k)) = 0 <=> Claimants(k) = {}
      BY ClaimantsFinite, FS_EmptySet
    <3> QED BY <2>2, <3>1, <3>2, <3>3 DEF HasForegroundClaim
  <2> QED BY <2>1, <2>2
<1>2. IInv => IntentVisible
  BY <1>1 DEF IntentVisible
<1> QED BY <1>2, Invariance, PTL

(* "The foreground rebuild wins": no background index starts on a repo     *)
(* that a foreground rebuild waits for or holds, whoever unmaps what.      *)
THEOREM BackgroundYields == Spec => ForegroundWins
<1>1. ASSUME IInv, [Next]_vars, NEW p \in Bg, NEW k \in Key,
             ~Holds(p, k), Holds(p, k)'
      PROVE  Claimants(k) = {}
  <2>1. p \in Proc /\ p \notin Fg
    BY ProcAssumption DEF Proc
  <2>2. ASSUME NEW l \in Key, TryClaimBackground(p, l) PROVE Claimants(k) = {}
    <3>1. l = k
      BY <1>1, <2>1, <2>2 DEF TryClaimBackground, Holds, IInv, TypeOK
    <3>2. Contents(k).fgWant = 0
      BY <2>2, <3>1 DEF TryClaimBackground, MayClaimBackground
    <3> QED BY <3>2, <1>1, ContentsCount, ClaimantsFinite, FS_EmptySet
  <2>3. ASSUME pc'[p] = pc[p], key'[p] = key[p] PROVE FALSE
    BY <1>1, <2>3 DEF Holds
  <2>4. ASSUME NEW q \in Proc, NEW c, ReleaseInto(q, c) PROVE FALSE
    BY <1>1, <2>1, <2>4 DEF ReleaseInto, Broadcast, Holds, IInv, TypeOK
  <2>5. ASSUME NEW q \in Fg, FgStep(q) PROVE FALSE
    <3>1. ASSUME NEW l \in Key, ClaimForeground(q, l) PROVE FALSE
      BY <1>1, <2>1, <3>1, <2>3 DEF ClaimForeground, IInv, TypeOK
    <3>2. ASSUME WakeForeground(q) PROVE FALSE
      BY <1>1, <2>1, <3>2, <2>3 DEF WakeForeground, IInv, TypeOK
    <3>3. ASSUME ReleaseForeground(q) PROVE FALSE
      BY <3>3, <2>4 DEF ReleaseForeground, Proc
    <3> QED BY <2>5, <3>1, <3>2, <3>3 DEF FgStep
  <2>6. ASSUME NEW q \in Bg, BgStep(q) PROVE Claimants(k) = {}
    <3>1. ASSUME NEW l \in Key, TryClaimBackground(q, l), q # p PROVE FALSE
      BY <1>1, <2>1, <3>1, <2>3 DEF TryClaimBackground, IInv, TypeOK
    <3>2. ASSUME ReleaseBackground(q) PROVE FALSE
      BY <3>2, <2>4 DEF ReleaseBackground, Proc
    <3> QED BY <2>6, <2>2, <3>1, <3>2 DEF BgStep
  <2>7. ASSUME NEW q \in Proc, WriteGraph(q) PROVE FALSE
    BY <2>3, <2>7 DEF WriteGraph
  <2>8. CASE Tick
    BY <2>3, <2>8 DEF Tick
  <2>9. CASE UNCHANGED vars
    BY <2>3, <2>9 DEF vars
  <2> QED BY <1>1, <2>5, <2>6, <2>7, <2>8, <2>9 DEF Next
<1>2. IInv /\ [Next]_vars =>
        [\A p \in Bg, k \in Key :
            ~Holds(p, k) /\ Holds(p, k)' => Claimants(k) = {}]_vars
  BY <1>1
<1> QED BY <1>2, Invariance, PTL DEF Spec, ForegroundWins

(* A claim leaves the claimant itself as the reason for its map entry.     *)
LEMMA ClaimKeepsReason ==
    ASSUME IInv, NoLeak, NEW p \in Proc, NEW k \in Key, NEW o \in Obj,
           pc[p] \notin Wanting, pc'[p] \in Wanting,
           \A q \in Proc : q # p => pc'[q] = pc[q],
           st' = [st EXCEPT ![k] = o], key' = [key EXCEPT ![p] = k]
    PROVE  NoLeak'
<1> SUFFICES ASSUME NEW l \in Key, st'[l] # NoObj
             PROVE  \E q \in Proc : key'[q] = l /\ pc'[q] \in Wanting
  BY DEF NoLeak
<1>1. CASE l = k
  BY <1>1 DEF IInv, TypeOK
<1>2. CASE l # k
  <2>1. st[l] # NoObj
    BY <1>2 DEF IInv, TypeOK
  <2>2. PICK q \in Proc : key[q] = l /\ pc[q] \in Wanting
    BY <2>1 DEF NoLeak
  <2>3. q # p
    BY <2>2
  <2> QED BY <2>2, <2>3 DEF IInv, TypeOK
<1> QED BY <1>1, <1>2

(* A release leaves a map entry only where the count names a claimant.     *)
LEMMA ReleaseKeepsReason ==
    ASSUME IInv, IInv', NoLeak, NEW p \in Proc, pc[p] = "holding",
           NEW c, ~c.held, ReleaseInto(p, c)
    PROVE  NoLeak'
<1> SUFFICES ASSUME NEW l \in Key, st'[l] # NoObj
             PROVE  \E q \in Proc : key'[q] = l /\ pc'[q] \in Wanting
  BY DEF NoLeak
<1>1. CASE l # key[p]
  <2>1. st[l] # NoObj
    BY <1>1 DEF ReleaseInto, IInv, TypeOK
  <2>2. PICK q \in Proc : key[q] = l /\ pc[q] \in Wanting
    BY <2>1 DEF NoLeak
  <2>3. q # p
    BY <2>2, <1>1
  <2>4. pc'[q] \in Wanting
    BY <2>2, <2>3 DEF ReleaseInto, Broadcast, IInv, TypeOK, Wanting, Waiting
  <2> QED BY <2>2, <2>4 DEF ReleaseInto
<1>2. CASE l = key[p]
  <2>1. /\ ks[p] \in Obj /\ ks[p] = st[l]
        /\ heap'[ks[p]] = c /\ st'[l] = GcLocked(l, st[l], c)
    BY <1>2, ObjAssumption DEF ReleaseInto, IInv, TypeOK, OnMapped, Wanting
  <2>2. c.fgWant # 0 /\ st'[l] = ks[p]
    BY <2>1 DEF GcLocked
  <2>3. c.fgWant = Cardinality(Claimants(l)')
    BY <2>1, <2>2 DEF IInv, WantCounts
  <2>4. Claimants(l)' # {}
    BY <2>2, <2>3, FS_EmptySet
  <2>5. PICK q \in Fg : key'[q] = l /\ pc'[q] \in Wanting
    BY <2>4 DEF Claimants
  <2> QED BY <2>5 DEF Proc
<1> QED BY <1>1, <1>2

(* gcLocked unmaps every key nobody claims: a map entry always has a       *)
(* claimant, so the registry of a long-lived daemon does not grow.         *)
THEOREM Reclaimed == Spec => []NoLeak
<1>1. Init => NoLeak
  BY DEF Init, NoLeak
<1>2. ASSUME IInv, IInv', NoLeak, [Next]_vars PROVE NoLeak'
  <2>1. ASSUME UNCHANGED <<st, key>>,
               \A q \in Proc : pc[q] \in Wanting => pc'[q] \in Wanting
        PROVE  NoLeak'
    BY <2>1, <1>2 DEF NoLeak
  <2>2. ASSUME NEW p \in Fg, NEW k \in Key, ClaimForeground(p, k) PROVE NoLeak'
    <3>1. PICK o \in Obj : st' = [st EXCEPT ![k] = o]
      BY <2>2 DEF ClaimForeground
    <3>2. /\ p \in Proc /\ pc[p] \notin Wanting /\ pc'[p] \in Wanting
          /\ key' = [key EXCEPT ![p] = k]
          /\ \A q \in Proc : q # p => pc'[q] = pc[q]
      BY <2>2, <1>2, Zenon DEF ClaimForeground, IInv, TypeOK, Wanting, Waiting, Proc
    <3> QED BY <3>1, <3>2, <1>2, ClaimKeepsReason
  <2>3. ASSUME NEW p \in Bg, NEW k \in Key, TryClaimBackground(p, k) PROVE NoLeak'
    <3>1. PICK o \in Obj : st' = [st EXCEPT ![k] = o]
      BY <2>3 DEF TryClaimBackground
    <3>2. /\ pc[p] \in {"idle", "released"} /\ key' = [key EXCEPT ![p] = k]
          /\ pc' = [pc EXCEPT ![p] = "holding"]
      BY <2>3 DEF TryClaimBackground
    <3>3. /\ p \in Proc /\ pc[p] \notin Wanting /\ pc'[p] \in Wanting
          /\ \A q \in Proc : q # p => pc'[q] = pc[q]
      BY <3>2, <1>2 DEF IInv, TypeOK, Wanting, Waiting, Proc
    <3> QED BY <3>1, <3>2, <3>3, <1>2, ClaimKeepsReason
  <2>4. ASSUME NEW p \in Fg, WakeForeground(p) PROVE NoLeak'
    BY <2>1, <2>4, <1>2 DEF WakeForeground, IInv, TypeOK, Wanting, Waiting
  <2>5. ASSUME NEW p \in Fg, ReleaseForeground(p) PROVE NoLeak'
    <3>1. ~AfterForeground(heap[ks[p]]).held
      BY DEF AfterForeground
    <3> QED BY <2>5, <3>1, <1>2, ReleaseKeepsReason DEF ReleaseForeground, Proc
  <2>6. ASSUME NEW p \in Bg, ReleaseBackground(p) PROVE NoLeak'
    <3>1. heap[ks[p]] \in KeyState
      BY <2>6, <1>2, ObjAssumption
         DEF ReleaseBackground, IInv, TypeOK, OnMapped, Wanting, Proc
    <3>2. ~AfterBackground(heap[ks[p]]).held
      BY <3>1 DEF AfterBackground, KeyState
    <3> QED BY <2>6, <3>2, <1>2, ReleaseKeepsReason DEF ReleaseBackground, Proc
  <2>7. ASSUME NEW p \in Proc, WriteGraph(p) PROVE NoLeak'
    BY <2>1, <2>7 DEF WriteGraph
  <2>8. CASE Tick
    BY <2>1, <2>8 DEF Tick
  <2>9. CASE UNCHANGED vars
    BY <2>1, <2>9 DEF vars
  <2> QED
    BY <1>2, <2>2, <2>3, <2>4, <2>5, <2>6, <2>7, <2>8, <2>9
       DEF Next, FgStep, BgStep
<1> QED BY <1>1, <1>2, Invariance, PTL DEF Spec

(* A file that was written has a time that is past. *)
WrittenInThePast == \A k \in Key : graph[k] <= now

(* A step that leaves the start in a claimed key's object, or the object   *)
(* without a claim, or unmapped, goes on with the claim period or ends it. *)
LEMMA PeriodFrame ==
    ASSUME NEW k \in Key, HasForegroundClaim(k), st'[k] \in {NoObj, st[k]},
           heap'[st[k]].fgWant = 0 \/ heap'[st[k]].fgStart = heap[st[k]].fgStart
    PROVE  ForegroundClaimStart(k)' \in {0, ForegroundClaimStart(k)}
BY DEF ForegroundClaimStart, HasForegroundClaim

(* A release of an object ends the period of its key or leaves it.         *)
LEMMA ReleaseKeepsPeriod ==
    ASSUME IInv, NEW p \in Proc, pc[p] = "holding", NEW c, ReleaseInto(p, c),
           c.fgWant = 0 \/ c.fgStart = heap[ks[p]].fgStart,
           NEW k \in Key, HasForegroundClaim(k)
    PROVE  ForegroundClaimStart(k)' \in {0, ForegroundClaimStart(k)}
<1>1. /\ ks[p] \in Obj /\ key[p] \in Key
      /\ heap' = [heap EXCEPT ![ks[p]] = c]
      /\ st' = [st EXCEPT ![key[p]] = GcLocked(key[p], st[key[p]], c)]
  BY ObjAssumption DEF ReleaseInto, IInv, TypeOK, OnMapped, Wanting
<1>2. st[k] \in Obj
  BY DEF HasForegroundClaim, IInv, TypeOK
<1>3. st'[k] \in {NoObj, st[k]}
  BY <1>1 DEF GcLocked, IInv, TypeOK
<1>4. heap'[st[k]].fgWant = 0 \/ heap'[st[k]].fgStart = heap[st[k]].fgStart
  <2>1. CASE st[k] = ks[p]
    BY <1>1, <2>1 DEF IInv, TypeOK
  <2>2. CASE st[k] # ks[p]
    BY <1>1, <1>2, <2>2 DEF IInv, TypeOK
  <2> QED BY <2>1, <2>2
<1> QED BY <1>3, <1>4, PeriodFrame

(* A claim on another key works on another object.                         *)
LEMMA ClaimOfAnother ==
    ASSUME IInv, NEW k \in Key, HasForegroundClaim(k), NEW l \in Key, l # k,
           NEW o \in Obj, StateOf(l, o), NEW c,
           heap' = [heap EXCEPT ![o] = c], st' = [st EXCEPT ![l] = o]
    PROVE  ForegroundClaimStart(k)' \in {0, ForegroundClaimStart(k)}
<1>1. st[k] # o /\ st[k] \in Obj
  BY DEF StateOf, Unreferenced, HasForegroundClaim, IInv, MappedApart, TypeOK
<1>2. st'[k] = st[k] /\ heap'[st[k]] = heap[st[k]]
  BY <1>1 DEF IInv, TypeOK
<1> QED BY <1>2, PeriodFrame

(* No step changes the start of a claim period that goes on. *)
LEMMA PeriodStays ==
    ASSUME IInv, NEW k \in Key, HasForegroundClaim(k), [Next]_vars
    PROVE  ForegroundClaimStart(k)' \in {0, ForegroundClaimStart(k)}
<1>0. /\ st[k] \in Obj /\ st[k] # NoObj /\ heap[st[k]] \in KeyState
      /\ heap[st[k]].fgWant > 0 /\ Contents(k) = heap[st[k]]
  BY ObjAssumption DEF HasForegroundClaim, Contents, IInv, TypeOK
<1>1. ASSUME NEW p \in Fg, NEW l \in Key, ClaimForeground(p, l)
      PROVE  ForegroundClaimStart(k)' \in {0, ForegroundClaimStart(k)}
  <2> DEFINE c == Intend(Contents(l))
             new == [c EXCEPT !.held = TRUE]
  <2>1. PICK o \in Obj : /\ StateOf(l, o) /\ heap' = [heap EXCEPT ![o] = new]
                         /\ st' = [st EXCEPT ![l] = o]
    BY <1>1 DEF ClaimForeground
  <2>2. CASE l = k
    <3>1. o = st[k]
      BY <1>0, <2>1, <2>2 DEF StateOf
    <3>2. new.fgStart = heap[st[k]].fgStart
      BY <1>0, <2>2 DEF Intend, KeyState
    <3>3. heap'[st[k]].fgStart = heap[st[k]].fgStart
      <4> HIDE DEF new
      <4> QED BY <1>0, <2>1, <3>1, <3>2 DEF IInv, TypeOK
    <3>4. st'[k] = st[k]
      BY <2>1, <2>2, <3>1 DEF IInv, TypeOK
    <3> QED BY <3>3, <3>4, PeriodFrame
  <2>3. CASE l # k
    <3> HIDE DEF new
    <3> QED BY <2>1, <2>3, ClaimOfAnother
  <2> QED BY <2>2, <2>3
<1>2. ASSUME NEW p \in Fg, WakeForeground(p)
      PROVE  ForegroundClaimStart(k)' \in {0, ForegroundClaimStart(k)}
  <2>1. st' = st /\ heap' = [heap EXCEPT ![ks[p]].held = TRUE]
    BY <1>2 DEF WakeForeground
  <2>2. heap'[st[k]].fgStart = heap[st[k]].fgStart
    BY <1>0, <2>1 DEF IInv, TypeOK, KeyState
  <2> QED BY <2>1, <2>2, PeriodFrame
<1>3. ASSUME NEW p \in Fg, ReleaseForeground(p)
      PROVE  ForegroundClaimStart(k)' \in {0, ForegroundClaimStart(k)}
  <2> DEFINE c == AfterForeground(heap[ks[p]])
  <2>1. p \in Proc /\ pc[p] = "holding" /\ ReleaseInto(p, c)
    BY <1>3 DEF ReleaseForeground, Proc
  <2>2. heap[ks[p]].fgWant \in Nat
    BY <2>1, ObjAssumption DEF IInv, TypeOK, OnMapped, Wanting, KeyState
  <2>3. c.fgWant = 0 \/ c.fgStart = heap[ks[p]].fgStart
    BY <2>2 DEF AfterForeground
  <2> QED BY <2>1, <2>3, ReleaseKeepsPeriod
<1>4. ASSUME NEW p \in Bg, NEW l \in Key, TryClaimBackground(p, l)
      PROVE  ForegroundClaimStart(k)' \in {0, ForegroundClaimStart(k)}
  <2>1. l # k
    BY <1>0, <1>4 DEF TryClaimBackground, MayClaimBackground
  <2> DEFINE new == [Contents(l) EXCEPT !.held = TRUE]
  <2>2. PICK o \in Obj : /\ StateOf(l, o) /\ heap' = [heap EXCEPT ![o] = new]
                         /\ st' = [st EXCEPT ![l] = o]
    BY <1>4 DEF TryClaimBackground
  <2> HIDE DEF new
  <2> QED BY <2>1, <2>2, ClaimOfAnother
<1>5. ASSUME NEW p \in Bg, ReleaseBackground(p)
      PROVE  ForegroundClaimStart(k)' \in {0, ForegroundClaimStart(k)}
  <2> DEFINE c == AfterBackground(heap[ks[p]])
  <2>1. p \in Proc /\ pc[p] = "holding" /\ ReleaseInto(p, c)
    BY <1>5 DEF ReleaseBackground, Proc
  <2>2. heap[ks[p]] \in KeyState
    BY <2>1, ObjAssumption DEF IInv, TypeOK, OnMapped, Wanting
  <2>3. c.fgStart = heap[ks[p]].fgStart
    BY <2>2 DEF AfterBackground, KeyState
  <2> QED BY <2>1, <2>3, ReleaseKeepsPeriod
<1>6. ASSUME UNCHANGED <<st, heap>>
      PROVE  ForegroundClaimStart(k)' \in {0, ForegroundClaimStart(k)}
  BY <1>6, PeriodFrame
<1> QED BY <1>1, <1>2, <1>3, <1>4, <1>5, <1>6
           DEF Next, FgStep, BgStep, WriteGraph, Tick, vars

(* Graph times only grow, and are past. *)
LEMMA GraphTimesGrow ==
    ASSUME IInv, WrittenInThePast, [Next]_vars
    PROVE  WrittenInThePast' /\ \A k \in Key : graph'[k] >= graph[k]
<1>1. now \in Nat /\ \A k \in Key : graph[k] \in Nat
  BY TimeAssumption DEF IInv, TypeOK, Time
<1>2. ASSUME UNCHANGED <<graph, now>>
      PROVE  WrittenInThePast' /\ \A k \in Key : graph'[k] >= graph[k]
  BY <1>1, <1>2 DEF WrittenInThePast
<1>3. ASSUME NEW p \in Proc, WriteGraph(p)
      PROVE  WrittenInThePast' /\ \A k \in Key : graph'[k] >= graph[k]
  <2>1. now' = now /\ \A k \in Key : graph'[k] \in {graph[k], now}
    BY <1>3 DEF WriteGraph, IInv, TypeOK
  <2> QED BY <1>1, <2>1 DEF WrittenInThePast
<1>4. CASE Tick
  BY <1>1, <1>4 DEF Tick, WrittenInThePast
<1>5. ASSUME NEW p \in Fg, FgStep(p) PROVE UNCHANGED <<graph, now>>
  BY <1>5 DEF FgStep, ClaimForeground, WakeForeground, ReleaseForeground, ReleaseInto
<1>6. ASSUME NEW p \in Bg, BgStep(p) PROVE UNCHANGED <<graph, now>>
  BY <1>6 DEF BgStep, TryClaimBackground, ReleaseBackground, ReleaseInto
<1> QED BY <1>2, <1>3, <1>4, <1>5, <1>6 DEF Next, vars

(* What the status file reports of a claim period moves one way, however   *)
(* many rebuilds overlap in the period: its start stays, and the graph's   *)
(* time only grows.                                                        *)
THEOREM PhaseMovesOn == Spec => PhaseNeverFallsBack
<1>1. Init => WrittenInThePast
  BY DEF Init, WrittenInThePast
<1>2. ASSUME IInv, WrittenInThePast, [Next]_vars, NEW k \in Key, Phase(k) = "enhancing"
      PROVE  Phase(k)' # "indexing"
  <2>1. ForegroundClaimStart(k) # 0 /\ ~ (ForegroundClaimStart(k) > graph[k])
    BY <1>2 DEF Phase
  <2>2. HasForegroundClaim(k)
    BY <2>1 DEF ForegroundClaimStart
  <2>3. ForegroundClaimStart(k)' \in {0, ForegroundClaimStart(k)}
    BY <1>2, <2>2, PeriodStays
  <2>4. ForegroundClaimStart(k) \in Nat /\ graph[k] \in Nat
    BY <1>2, TimeAssumption DEF ForegroundClaimStart, HasForegroundClaim, IInv, TypeOK, KeyState
  <2>5. graph'[k] \in Nat /\ graph'[k] >= graph[k]
    <3>1. IInv'
      BY <1>2, NextInv
    <3> QED BY <1>2, <3>1, GraphTimesGrow, TimeAssumption DEF IInv, TypeOK
  <2>6. ~ (ForegroundClaimStart(k)' > graph'[k])
    BY <2>1, <2>3, <2>4, <2>5
  <2> QED BY <2>6 DEF Phase
<1>3. IInv /\ WrittenInThePast /\ [Next]_vars =>
        [\A k \in Key : Phase(k) = "enhancing" => Phase(k)' # "indexing"]_vars
  BY <1>2
<1>4. IInv /\ WrittenInThePast /\ [Next]_vars => WrittenInThePast'
  BY GraphTimesGrow
<1> QED BY <1>1, <1>3, <1>4, Invariance, PTL DEF Spec, PhaseNeverFallsBack

-----------------------------------------------------------------------------
(***************************************************************************)
(* The registry implements RepoClaim: every step of RepoLock, seen through *)
(* who waits for a key and who holds it, is a step of RepoClaim or leaves  *)
(* both as they are.                                                       *)
(***************************************************************************)

(* Who holds a key, and the two maps that RepoClaim knows.                 *)
Holders(k) == {p \in Proc : Holds(p, k)}
Want       == [k \in Key |-> Claimants(k)]
Held       == [k \in Key |-> Holders(k)]

(* A step that moves nobody but p in or out of its claim. *)
MovesOnly(p) ==
    \A q \in Proc : q # p =>
        /\ key'[q] = key[q]
        /\ pc'[q] \in Wanting <=> pc[q] \in Wanting
        /\ pc'[q] = "holding" <=> pc[q] = "holding"

(* Claims of other calls stay as they were, whichever key they are about.  *)
LEMMA OthersStay ==
    ASSUME NEW p \in Proc, MovesOnly(p), NEW k \in Key
    PROVE  /\ Claimants(k)' \ {p} = Claimants(k) \ {p}
           /\ Holders(k)' \ {p} = Holders(k) \ {p}
<1> QED BY DEF MovesOnly, Claimants, Holders, Holds, Proc

(* A release moves nobody but its caller: who is woken still wants.        *)
LEMMA ReleaseMovesOnly ==
    ASSUME IInv, NEW p \in Proc, NEW c, ReleaseInto(p, c)
    PROVE  MovesOnly(p) /\ pc'[p] = "released" /\ key' = key
<1> QED
  BY DEF ReleaseInto, Broadcast, MovesOnly, IInv, TypeOK, Wanting, Waiting

(* A keyState that is not held, or that there is none, means a free key.   *)
LEMMA NotHeldIsFree ==
    ASSUME IInv, NEW k \in Key, ~Contents(k).held
    PROVE  Holders(k) = {}
<1> SUFFICES ASSUME NEW q \in Proc, Holds(q, k) PROVE FALSE
  BY DEF Holders
<1>1. ks[q] = st[k] /\ st[k] # NoObj /\ heap[ks[q]].held
  BY DEF Holds, IInv, OnMapped, HeldOnce, Wanting
<1> QED BY <1>1 DEF Contents

(* A call that holds a key is the only one that does. *)
LEMMA HolderIsAlone ==
    ASSUME IInv, NEW p \in Proc, pc[p] = "holding"
    PROVE  Holders(key[p]) = {p}
<1>1. \A q \in Proc : Holds(q, key[p]) => q = p
  BY DEF Holds, IInv, OnMapped, HeldOnce, Wanting
<1> QED BY <1>1 DEF Holders, Holds

(* Who takes a free key becomes its holder, and nothing else changes hands. *)
LEMMA TakesHold ==
    ASSUME NEW p \in Proc, NEW k \in Key, MovesOnly(p), Holders(k) = {},
           pc[p] # "holding", pc'[p] = "holding", key'[p] = k
    PROVE  Held[k] = {} /\ Held' = [Held EXCEPT ![k] = {p}]
<1>1. ASSUME NEW l \in Key
      PROVE  Holders(l)' = IF l = k THEN {p} ELSE Holders(l)
  <2>1. p \in Holders(l)' <=> l = k
    BY DEF Holders, Holds
  <2>2. p \notin Holders(l)
    BY DEF Holders, Holds
  <2>3. Holders(l)' \ {p} = Holders(l) \ {p}
    BY OthersStay
  <2> QED BY <2>1, <2>2, <2>3
<1> QED BY <1>1 DEF Held

(* Who neither held nor holds changes no holder. *)
LEMMA HoldersStay ==
    ASSUME NEW p \in Proc, MovesOnly(p), pc[p] # "holding", pc'[p] # "holding"
    PROVE  Held' = Held
<1>1. ASSUME NEW l \in Key PROVE Holders(l)' = Holders(l)
  <2>1. p \notin Holders(l)' /\ p \notin Holders(l)
    BY DEF Holders, Holds
  <2>2. Holders(l)' \ {p} = Holders(l) \ {p}
    BY OthersStay
  <2> QED BY <2>1, <2>2
<1> QED BY <1>1 DEF Held

(* Who is not a rebuild, or wants what it wanted, changes no intent.       *)
LEMMA IntentStays ==
    ASSUME NEW p \in Proc, MovesOnly(p),
           p \notin Fg \/ (key'[p] = key[p] /\ pc[p] \in Wanting /\ pc'[p] \in Wanting)
    PROVE  Want' = Want
<1>1. ASSUME NEW l \in Key PROVE Claimants(l)' = Claimants(l)
  <2>1. p \in Claimants(l)' <=> p \in Claimants(l)
    BY DEF Claimants
  <2>2. Claimants(l)' \ {p} = Claimants(l) \ {p}
    BY OthersStay
  <2> QED BY <2>1, <2>2
<1> QED BY <1>1 DEF Want

(* ClaimForeground is Ask: it records intent, and takes a free repo.       *)
LEMMA ClaimForegroundAsks ==
    ASSUME IInv, NEW p \in Fg, NEW k \in Key, ClaimForeground(p, k)
    PROVE  Claim!Ask(p, k)
<1>1. /\ p \in Proc /\ pc[p] = "idle"
      /\ key' = [key EXCEPT ![p] = k]
      /\ pc' = [pc EXCEPT ![p] = IF Contents(k).held THEN "asleep" ELSE "holding"]
  BY DEF ClaimForeground, Intend, Proc
<1>2. MovesOnly(p)
  BY <1>1 DEF MovesOnly, IInv, TypeOK
<1>3. /\ key'[p] = k /\ pc'[p] \in Wanting
      /\ pc'[p] = "holding" <=> ~Contents(k).held
  BY <1>1 DEF IInv, TypeOK, Wanting, Waiting
<1>4. \A l \in Key : p \notin Claimants(l)
  BY <1>1 DEF Claimants, Wanting, Waiting
<1>5. Want' = [Want EXCEPT ![k] = @ \cup {p}]
  <2>1. ASSUME NEW l \in Key
        PROVE  Claimants(l)' = IF l = k THEN Claimants(l) \cup {p} ELSE Claimants(l)
    <3>1. p \in Claimants(l)' <=> l = k
      BY <1>3 DEF Claimants
    <3>2. Claimants(l)' \ {p} = Claimants(l) \ {p}
      BY <1>1, <1>2, OthersStay
    <3> QED BY <3>1, <3>2, <1>4
  <2> QED BY <2>1 DEF Want
<1>6. CASE Contents(k).held
  <2>1. Held' = Held
    BY <1>1, <1>2, <1>3, <1>6, HoldersStay
  <2> QED BY <1>4, <1>5, <2>1 DEF Claim!Ask, Want, Held, Holders
<1>7. CASE ~Contents(k).held
  <2>1. Held[k] = {} /\ Held' = [Held EXCEPT ![k] = {p}]
    BY <1>1, <1>2, <1>3, <1>7, NotHeldIsFree, TakesHold
  <2> QED BY <1>4, <1>5, <2>1 DEF Claim!Ask, Claim!Take, Want, Held, Holders
<1> QED BY <1>6, <1>7

(* A woken rebuild gets the repo if it is free, or goes on waiting.        *)
LEMMA WakeForegroundGets ==
    ASSUME IInv, NEW p \in Fg, WakeForeground(p)
    PROVE  Claim!Get(p, key[p]) \/ UNCHANGED <<Want, Held>>
<1> DEFINE k == key[p]
<1>1. /\ p \in Proc /\ k \in Key /\ pc[p] = "awake" /\ key' = key
      /\ pc' = [pc EXCEPT ![p] = IF heap[ks[p]].held THEN "asleep" ELSE "holding"]
  BY DEF WakeForeground, IInv, TypeOK, Proc
<1>2. heap[ks[p]] = Contents(k)
  BY <1>1 DEF IInv, OnMapped, Contents, Wanting, Waiting
<1>3. /\ MovesOnly(p)
      /\ pc[p] \in Wanting /\ pc'[p] \in Wanting
      /\ pc[p] # "holding"
      /\ pc'[p] = "holding" <=> ~Contents(k).held
  BY <1>1, <1>2 DEF MovesOnly, IInv, TypeOK, Wanting, Waiting
<1>4. Want' = Want
  BY <1>1, <1>3, IntentStays
<1>5. CASE Contents(k).held
  BY <1>1, <1>3, <1>4, <1>5, HoldersStay
<1>6. CASE ~Contents(k).held
  <2>1. Held[k] = {} /\ Held' = [Held EXCEPT ![k] = {p}]
    BY <1>1, <1>3, <1>6, NotHeldIsFree, TakesHold
  <2>2. p \in Want[k]
    BY <1>1, <1>3 DEF Want, Claimants
  <2> QED BY <1>4, <2>1, <2>2 DEF Claim!Get, Claim!Take, Want, Held, Holders
<1> QED BY <1>5, <1>6

(* TryClaimBackground is Borrow: it takes a repo that is free and that no  *)
(* rebuild wants.                                                          *)
LEMMA TryClaimBackgroundBorrows ==
    ASSUME IInv, NEW p \in Bg, NEW k \in Key, TryClaimBackground(p, k)
    PROVE  Claim!Borrow(p, k)
<1>1. /\ p \in Proc /\ p \notin Fg
      /\ pc[p] \in {"idle", "released"}
      /\ ~Contents(k).held /\ Contents(k).fgWant = 0
      /\ key' = [key EXCEPT ![p] = k]
      /\ pc' = [pc EXCEPT ![p] = "holding"]
  BY ProcAssumption DEF TryClaimBackground, MayClaimBackground, Proc
<1>2. /\ MovesOnly(p)
      /\ key'[p] = k /\ pc[p] # "holding" /\ pc'[p] = "holding"
  BY <1>1 DEF MovesOnly, IInv, TypeOK
<1>3. Want' = Want
  BY <1>1, <1>2, IntentStays
<1>4. Want[k] = {}
  BY <1>1, ContentsCount, ClaimantsFinite, FS_EmptySet DEF Want
<1>5. Held[k] = {} /\ Held' = [Held EXCEPT ![k] = {p}]
  BY <1>1, <1>2, NotHeldIsFree, TakesHold
<1> QED BY <1>3, <1>4, <1>5 DEF Claim!Borrow, Claim!Take, Want, Held, Holders

(* A release is GiveBack, for a rebuild and for a background index.        *)
LEMMA ReleaseGivesBack ==
    ASSUME IInv, NEW p \in Proc, pc[p] = "holding", NEW c, ReleaseInto(p, c)
    PROVE  Claim!GiveBack(p, key[p])
<1> DEFINE k == key[p]
<1>1. MovesOnly(p) /\ pc'[p] = "released" /\ key' = key
  BY ReleaseMovesOnly
<1>2. k \in Key
  BY DEF IInv, TypeOK
<1>3. Holders(k) = {p}
  BY HolderIsAlone
<1>4. ASSUME NEW l \in Key
      PROVE  Holders(l)' = IF l = k THEN {} ELSE Holders(l)
  <2>1. p \notin Holders(l)'
    BY <1>1 DEF Holders, Holds
  <2>2. l # k => p \notin Holders(l)
    BY DEF Holders, Holds
  <2>3. Holders(l)' \ {p} = Holders(l) \ {p}
    BY <1>1, OthersStay
  <2> QED BY <1>3, <2>1, <2>2, <2>3
<1>5. Held[k] = {p} /\ Held' = [Held EXCEPT ![k] = {}]
  BY <1>2, <1>3, <1>4 DEF Held
<1>6. ASSUME NEW l \in Key
      PROVE  Claimants(l)' = IF l = k THEN Claimants(l) \ {p} ELSE Claimants(l)
  <2>1. p \notin Claimants(l)'
    BY <1>1 DEF Claimants, Wanting, Waiting
  <2>2. l # k => p \notin Claimants(l)
    BY DEF Claimants
  <2>3. Claimants(l)' \ {p} = Claimants(l) \ {p}
    BY <1>1, OthersStay
  <2> QED BY <2>1, <2>2, <2>3
<1>7. Want' = [Want EXCEPT ![k] = @ \ {p}]
  BY <1>2, <1>6 DEF Want
<1> QED BY <1>5, <1>7 DEF Claim!GiveBack, Want, Held, Holders

(* A step that moves no claim is a stutter of RepoClaim. *)
LEMMA UnclaimedStepStutters ==
    ASSUME UNCHANGED <<pc, key>>
    PROVE  UNCHANGED <<Want, Held>>
<1>1. ASSUME NEW l \in Key
      PROVE  Claimants(l)' = Claimants(l) /\ Holders(l)' = Holders(l)
  BY DEF Claimants, Holders, Holds
<1> QED BY <1>1 DEF Want, Held

(* The registry implements RepoClaim: whatever keyStates it maps, unmaps   *)
(* and allocates anew under sleeping claimants, and whomever a broadcast   *)
(* wakes, its callers see one lock per repo, whose rebuilds win.           *)
THEOREM Implementation == Spec => KeepsClaim
<1>1. Init => Claim!Init
  <2> SUFFICES ASSUME Init PROVE Claim!Init
    OBVIOUS
  <2>1. \A p \in Proc : pc[p] = "idle"
    BY DEF Init
  <2>2. ASSUME NEW k \in Key PROVE Claimants(k) = {} /\ Holders(k) = {}
    BY <2>1 DEF Claimants, Holders, Holds, Proc, Wanting, Waiting
  <2> QED BY <2>2 DEF Claim!Init, Holders
<1>2. ASSUME IInv, [Next]_vars PROVE [Claim!Next]_(Claim!vars)
  <2>1. ASSUME UNCHANGED <<Want, Held>> PROVE [Claim!Next]_(Claim!vars)
    BY <2>1 DEF Claim!vars, Want, Held, Holders
  <2>2. ASSUME NEW p \in Fg, FgStep(p) PROVE [Claim!Next]_(Claim!vars)
    <3>1. p \in Proc /\ key[p] \in Key
      BY <1>2 DEF IInv, TypeOK, Proc
    <3>2. ASSUME NEW k \in Key, ClaimForeground(p, k) PROVE Claim!Next
      BY <3>2, <1>2, ClaimForegroundAsks DEF Claim!Next
    <3>3. ASSUME WakeForeground(p) PROVE [Claim!Next]_(Claim!vars)
      <4>1. Claim!Get(p, key[p]) \/ UNCHANGED <<Want, Held>>
        BY <3>3, <1>2, WakeForegroundGets
      <4> QED BY <4>1, <2>1, <3>1 DEF Claim!Next
    <3>4. ASSUME ReleaseForeground(p) PROVE Claim!Next
      BY <3>4, <3>1, <1>2, ReleaseGivesBack DEF ReleaseForeground, Claim!Next
    <3> QED BY <2>2, <3>2, <3>3, <3>4 DEF FgStep
  <2>3. ASSUME NEW p \in Bg, BgStep(p) PROVE [Claim!Next]_(Claim!vars)
    <3>1. p \in Proc /\ key[p] \in Key
      BY <1>2 DEF IInv, TypeOK, Proc
    <3>2. ASSUME NEW k \in Key, TryClaimBackground(p, k) PROVE Claim!Next
      BY <3>2, <1>2, TryClaimBackgroundBorrows DEF Claim!Next
    <3>3. ASSUME ReleaseBackground(p) PROVE Claim!Next
      BY <3>3, <3>1, <1>2, ReleaseGivesBack DEF ReleaseBackground, Claim!Next
    <3> QED BY <2>3, <3>2, <3>3 DEF BgStep
  <2>4. ASSUME NEW p \in Proc, WriteGraph(p) PROVE [Claim!Next]_(Claim!vars)
    BY <2>4, <2>1, UnclaimedStepStutters DEF WriteGraph
  <2>5. CASE Tick
    BY <2>5, <2>1, UnclaimedStepStutters DEF Tick
  <2>6. CASE UNCHANGED vars
    BY <2>6, <2>1, UnclaimedStepStutters DEF vars
  <2> QED BY <1>2, <2>2, <2>3, <2>4, <2>5, <2>6 DEF Next
<1> QED BY <1>1, <1>2, Invariance, PTL DEF Spec, KeepsClaim, Claim!Spec
=============================================================================
