--------------------------- MODULE SupervisorProofs ---------------------------
(***************************************************************************)
(* For every set of pids and every tuning: a serve has no engine but the   *)
(* one its supervisor watches, a supervisor gives up on a crash loop only, *)
(* and a starting serve spares one that serves and can be reached.  The    *)
(* invariant counts a supervisor's launches exactly, keeps serves and      *)
(* engines apart although they share the pids, and says why engine.pid,    *)
(* whose pid the next serve signals, never names one that serves.          *)
(***************************************************************************)
EXTENDS Supervisor, TLAPS, NaturalsInduction, WellFoundedInduction

ServeRec == [main : MainPc, sup : SupPc, child : MaybePid, old : MaybePid,
             backoff : 0..MaxBackoff, hits : 0..MaxHits, flaps : 0..(MaxBackoff + MaxHits)]
EngineRec == [pc : {"off", "boot", "booted", "run", "drain"},
              parent : MaybePid \cup {InitPid}, orig : MaybePid \cup {InitPid}]

(* A serve supervises once it has reaped, and pings for an owner; until it *)
(* gives up, every launch counts as a doubling of the backoff or, at the   *)
(* ceiling, as a hit.                                                      *)
ServeOK(r) ==
    /\ r \in ServeRec
    /\ r.main \in {"off", "reap", "waitdead"} => r.sup = "none"
    /\ r.main = "ping" => r.old \in Pid
    /\ r.sup = "gaveup" => r.flaps = MaxBackoff + MaxHits
    /\ r.sup # "gaveup" => /\ r.hits < MaxHits /\ r.flaps = r.backoff + r.hits
                           /\ r.hits > 0 => r.backoff = MaxBackoff

ProcessTypes ==
    /\ serve \in [Pid -> ServeRec] /\ \A p \in Pid : ServeOK(serve[p])
    /\ engine \in [Pid -> EngineRec] /\ \A p \in Pid : engine[p].pc = "off" => engine[p].parent = None
    /\ {daemonPid, enginePid, socket} \subseteq MaybePid

(* No process is both, and engine.pid names no serve that looked at it. *)
KindsApart ==
    /\ \A p \in Pid : engine[p].pc # "off" => serve[p].main = "off"
    /\ \A p \in Pid : serve[p].main \notin {"off", "reap"} => enginePid # p

SInv == ProcessTypes /\ OnlyTheWatchedChild /\ KindsApart

-----------------------------------------------------------------------------
(* The least of a set of naturals is in it. *)
LEMMA LeastExists ==
    ASSUME NEW S, S \subseteq Nat, S # {}
    PROVE  Min(S) \in S /\ \A y \in S : Min(S) <= y
<1>1. PICK x \in S : \A y \in S : ~ (<<y, x>> \in OpToRel(<, Nat))
  BY WFMin, NatLessThanWellFounded
<1>2. \A y \in S : ~ (y < x)
  BY <1>1 DEF OpToRel
<1>3. \A y \in S : x <= y
  BY <1>2
<1> QED BY <1>3 DEF Min

(* The least of two naturals, as the counts of launches take it.           *)
LEMMA LesserOfTwo ==
    ASSUME NEW a \in Nat, NEW b \in Nat
    PROVE  Min({a, b}) = IF a <= b THEN a ELSE b
<1>1. Min({a, b}) \in {a, b} /\ \A y \in {a, b} : Min({a, b}) <= y
  BY LeastExists
<1> QED BY <1>1

(* A new process gets a pid that none has. *)
LEMMA NewPidIsFree ==
    ASSUME NEW q \in NewPids
    PROVE  q \in Pid /\ serve[q].main = "off" /\ engine[q].pc = "off"
<1> DEFINE free == {p \in Pid : ~Alive(p)}
<1>1. free \ Named # {} => Min(free \ Named) \in free \ Named
  BY LeastExists, PidAssumption
<1>2. q \in free
  BY <1>1 DEF NewPids, Lowest
<1> QED BY <1>2 DEF Alive

(* Records of no process, and of a supervisor that is over. *)
LEMMA OverOK ==
    /\ ServeOK(NoServe) /\ NoServe.main = "off" /\ NoServe.sup = "none"
    /\ ServeOK(Over) /\ Over.main = "unwind" /\ Over.sup = "done" /\ Over.child = None
<1> USE TuningAssumption
<1>1. /\ NoServe \in ServeRec /\ NoServe.main = "off" /\ NoServe.sup = "none"
      /\ NoServe.hits = 0 /\ NoServe.flaps = 0 /\ NoServe.backoff = 0 /\ NoServe.child = None
  BY DEF NoServe, ServeRec, MainPc, SupPc, MaybePid
<1>2. Over = [NoServe EXCEPT !.main = "unwind", !.sup = "done"]
  BY DEF Over
<1>3. /\ Over \in ServeRec /\ Over.main = "unwind" /\ Over.sup = "done" /\ Over.child = None
      /\ Over.hits = 0 /\ Over.flaps = 0 /\ Over.backoff = 0
  BY <1>1, <1>2 DEF ServeRec, MainPc, SupPc
<1> QED BY <1>1, <1>3 DEF ServeOK

(* The count of launches after one more. *)
LEMMA AfterLaunchOK ==
    ASSUME NEW r \in ServeRec, ServeOK(r), r.sup \in {"spawn", "watch"}
    PROVE  /\ ServeOK(AfterLaunch(r)) /\ AfterLaunch(r).main = r.main
           /\ AfterLaunch(r).sup \in {"gaveup", "done", "spawn"}
<1> USE TuningAssumption
<1> DEFINE h == IF r.backoff = MaxBackoff THEN r.hits + 1 ELSE r.hits
           b == Min({r.backoff + 1, MaxBackoff})
           f == Min({r.flaps + 1, MaxBackoff + MaxHits})
           next == [r EXCEPT !.child = None, !.hits = h, !.backoff = b, !.flaps = f]
<1>1. /\ r.main \notin {"off", "reap", "waitdead"}
      /\ r.hits < MaxHits /\ r.flaps = r.backoff + r.hits
      /\ r.hits > 0 => r.backoff = MaxBackoff
      /\ r.main = "ping" => r.old \in Pid
      /\ r.backoff \in 0..MaxBackoff /\ r.hits \in 0..MaxHits
  BY DEF ServeOK, ServeRec
<1>2. h \in 0..MaxHits /\ (h > 0 => r.backoff = MaxBackoff)
  BY <1>1
<1>3. b = IF r.backoff = MaxBackoff THEN MaxBackoff ELSE r.backoff + 1
  BY <1>1, LesserOfTwo
<1>4. f = r.flaps + 1
  BY <1>1, LesserOfTwo
<1>5. /\ b \in 0..MaxBackoff /\ f \in 0..(MaxBackoff + MaxHits)
      /\ f = b + h /\ (h > 0 => b = MaxBackoff)
  BY <1>1, <1>2, <1>3, <1>4
<1>6. AfterLaunch(r) = IF h >= MaxHits THEN [next EXCEPT !.sup = "gaveup"]
                       ELSE IF r.main = "unwind" THEN Over
                       ELSE [next EXCEPT !.sup = "spawn"]
  BY DEF AfterLaunch
<1> HIDE DEF h, b, f
<1>7. /\ next \in ServeRec /\ next.main = r.main /\ next.old = r.old
      /\ next.hits = h /\ next.backoff = b /\ next.flaps = f
  BY <1>2, <1>5 DEF ServeRec, MaybePid
<1> HIDE DEF next
<1>8. CASE h >= MaxHits
  <2>1. h = MaxHits /\ h > 0
    BY <1>2, <1>8
  <2>2. next.flaps = MaxBackoff + MaxHits
    BY <1>5, <1>7, <2>1
  <2>3. AfterLaunch(r) = [next EXCEPT !.sup = "gaveup"]
    BY <1>6, <1>8
  <2> QED BY <1>1, <1>7, <2>2, <2>3 DEF ServeOK, ServeRec, SupPc
<1>9. CASE ~ (h >= MaxHits) /\ r.main = "unwind"
  BY <1>6, <1>9, OverOK
<1>10. CASE ~ (h >= MaxHits) /\ r.main # "unwind"
  <2>1. AfterLaunch(r) = [next EXCEPT !.sup = "spawn"]
    BY <1>6, <1>10
  <2>2. /\ AfterLaunch(r) \in ServeRec /\ AfterLaunch(r).main = r.main /\ AfterLaunch(r).old = r.old
        /\ AfterLaunch(r).sup = "spawn" /\ AfterLaunch(r).hits = h
        /\ AfterLaunch(r).backoff = b /\ AfterLaunch(r).flaps = f
    BY <1>7, <2>1 DEF ServeRec, SupPc
  <2> QED BY <1>1, <1>2, <1>5, <1>10, <2>2 DEF ServeOK
<1> QED BY <1>8, <1>9, <1>10

-----------------------------------------------------------------------------
Watching == {"watch", "drain"}
EngineOf(p) == {q \in Pid : engine[q].pc # "off" /\ engine[q].parent = p}

(* At first there is no process, and no file names one. *)
LEMMA InitSInv == Init => SInv
<1> SUFFICES ASSUME Init PROVE SInv
  OBVIOUS
<1> USE PidAssumption, TuningAssumption
<1>1. \A p \in Pid : serve[p] = NoServe /\ engine[p] = NoEngine
  BY DEF Init
<1>2. /\ NoEngine \in EngineRec /\ NoEngine.pc = "off" /\ NoEngine.parent = None
  BY DEF NoEngine, EngineRec, MaybePid
<1>3. serve \in [Pid -> ServeRec] /\ engine \in [Pid -> EngineRec]
  BY <1>2, OverOK DEF Init, ServeOK
<1>4. {daemonPid, enginePid, socket} \subseteq MaybePid
  BY DEF Init, MaybePid
<1> QED BY <1>1, <1>2, <1>3, <1>4, OverOK DEF SInv, ProcessTypes, OnlyTheWatchedChild, KindsApart

(* What every step but a spawn is: engines keep their parents or get the   *)
(* init process, a supervisor keeps the child it has an engine in, and     *)
(* serves and engines do not change into one another.                      *)
LEMMA Frame ==
    ASSUME SInv,
           serve' \in [Pid -> ServeRec], engine' \in [Pid -> EngineRec],
           {daemonPid', enginePid', socket'} \subseteq MaybePid,
           \A x \in Pid :
              /\ ServeOK(serve'[x])
              /\ engine'[x].pc # "off" => engine[x].pc # "off"
              /\ engine'[x].pc = "off" => engine'[x].parent = None
              /\ engine'[x].pc # "off" => engine'[x].parent \in {engine[x].parent, InitPid}
              /\ \/ EngineOf(x)' = {}
                 \/ /\ serve'[x].child = serve[x].child
                    /\ serve[x].sup \in Watching => serve'[x].sup \in Watching
              /\ engine'[x].pc # "off" => serve'[x].main = "off"
              /\ serve'[x].main \notin {"off", "reap"} => enginePid' # x
    PROVE  SInv'
<1>1. ASSUME NEW p \in Pid, NEW q \in Pid, engine'[q].pc # "off", engine'[q].parent = p
      PROVE  serve'[p].child = q /\ serve'[p].sup \in {"watch", "drain"}
  <2>1. engine[q].pc # "off" /\ engine[q].parent = p
    BY <1>1, PidAssumption
  <2>2. serve[p].child = q /\ serve[p].sup \in {"watch", "drain"}
    BY <2>1 DEF SInv, OnlyTheWatchedChild
  <2>3. EngineOf(p)' # {}
    BY <1>1 DEF EngineOf
  <2> QED BY <2>2, <2>3 DEF Watching
<1> QED BY <1>1 DEF SInv, ProcessTypes, OnlyTheWatchedChild, KindsApart

(* A step that changes one serve's record. *)
LEMMA OwnStep ==
    ASSUME SInv, NEW p \in Pid, NEW r, ServeOK(r), r.main # "off", engine[p].pc = "off",
           serve' = [serve EXCEPT ![p] = r], engine' = engine, enginePid' = enginePid,
           {daemonPid', socket'} \subseteq MaybePid,
           r.main # "reap" => enginePid # p,
           EngineOf(p) # {} => r.child = serve[p].child /\ r.sup \in Watching
    PROVE  SInv'
<1>1. /\ serve' \in [Pid -> ServeRec] /\ serve'[p] = r
      /\ \A x \in Pid : x # p => serve'[x] = serve[x]
  BY DEF SInv, ProcessTypes, ServeOK
<1>2. ASSUME NEW x \in Pid
      PROVE  /\ ServeOK(serve'[x])
             /\ engine'[x].parent \in {engine[x].parent, InitPid}
             /\ engine'[x].pc = "off" => engine'[x].parent = None
             /\ \/ EngineOf(x)' = {}
                \/ /\ serve'[x].child = serve[x].child
                   /\ serve[x].sup \in Watching => serve'[x].sup \in Watching
             /\ engine'[x].pc # "off" => serve'[x].main = "off"
             /\ serve'[x].main \notin {"off", "reap"} => enginePid' # x
  <2>1. CASE x = p
    BY <1>1, <2>1 DEF EngineOf, SInv, ProcessTypes
  <2>2. CASE x # p
    BY <1>1, <2>2 DEF SInv, ProcessTypes, KindsApart
  <2> QED BY <2>1, <2>2
<1>3. engine' \in [Pid -> EngineRec] /\ {daemonPid', enginePid', socket'} \subseteq MaybePid
  BY DEF SInv, ProcessTypes
<1> QED BY <1>1, <1>2, <1>3, Frame

(* What the death of D does to each process. *)
LEMMA DeathsDo ==
    ASSUME SInv, NEW D \in SUBSET Pid
    PROVE  /\ ServesAfter(D) \in [Pid -> ServeRec] /\ EnginesAfter(D) \in [Pid -> EngineRec]
           /\ \A x \in Pid :
                /\ ServesAfter(D)[x] = IF x \in D THEN NoServe ELSE serve[x]
                /\ EnginesAfter(D)[x].pc = IF x \in D THEN "off" ELSE engine[x].pc
                /\ EnginesAfter(D)[x].pc = "off" => EnginesAfter(D)[x].parent = None
                /\ EnginesAfter(D)[x].pc # "off" =>
                     EnginesAfter(D)[x].parent = IF engine[x].parent \in D THEN InitPid
                                                 ELSE engine[x].parent
<1> USE PidAssumption
<1>1. ServesAfter(D) \in [Pid -> ServeRec]
  BY OverOK DEF ServesAfter, SInv, ProcessTypes, ServeOK
<1>2. \A x \in Pid : ServesAfter(D)[x] = IF x \in D THEN NoServe ELSE serve[x]
  BY DEF ServesAfter
<1>3. NoEngine \in EngineRec /\ NoEngine.pc = "off" /\ NoEngine.parent = None
  BY DEF NoEngine, EngineRec, MaybePid
<1>4. ASSUME NEW x \in Pid, x \notin D
      PROVE  /\ EnginesAfter(D)[x] \in EngineRec
             /\ EnginesAfter(D)[x].pc = engine[x].pc
             /\ EnginesAfter(D)[x].parent = IF engine[x].parent \in D THEN InitPid
                                            ELSE engine[x].parent
  <2>1. EnginesAfter(D)[x] = [engine[x] EXCEPT !.parent = IF engine[x].parent \in D THEN InitPid
                                                          ELSE engine[x].parent]
    BY <1>4 DEF EnginesAfter
  <2>2. engine[x] \in EngineRec
    BY DEF SInv, ProcessTypes
  <2> QED BY <2>1, <2>2 DEF EngineRec
<1>5. \A x \in D : EnginesAfter(D)[x] = NoEngine
  BY DEF EnginesAfter
<1>6. EnginesAfter(D) \in [Pid -> EngineRec]
  BY <1>3, <1>4, <1>5 DEF EnginesAfter
<1>7. \A x \in Pid : engine[x].pc = "off" => engine[x].parent = None
  BY DEF SInv, ProcessTypes
<1> QED BY <1>1, <1>2, <1>3, <1>4, <1>5, <1>6, <1>7

(* Deaths alone. *)
LEMMA DeathStep ==
    ASSUME SInv, NEW D \in SUBSET Pid, serve' = ServesAfter(D), engine' = EnginesAfter(D),
           enginePid' \in {enginePid, None}, {daemonPid', socket'} \subseteq MaybePid
    PROVE  SInv'
<1> USE PidAssumption
<1>1. ASSUME NEW x \in Pid
      PROVE  /\ ServeOK(serve'[x])
             /\ engine'[x].pc # "off" => engine[x].pc # "off"
             /\ engine'[x].pc = "off" => engine'[x].parent = None
             /\ engine'[x].pc # "off" => engine'[x].parent \in {engine[x].parent, InitPid}
             /\ engine'[x].pc # "off" => serve'[x].main = "off"
             /\ serve'[x].main \notin {"off", "reap"} => enginePid' # x
  BY DeathsDo, OverOK DEF SInv, ProcessTypes, KindsApart
<1>2. ASSUME NEW x \in Pid
      PROVE  \/ EngineOf(x)' = {}
             \/ /\ serve'[x].child = serve[x].child
                /\ serve[x].sup \in Watching => serve'[x].sup \in Watching
  <2>1. CASE x \in D
    <3>1. \A q \in Pid : engine'[q].pc # "off" => engine'[q].parent # x
      BY <2>1, DeathsDo
    <3> QED BY <3>1 DEF EngineOf
  <2>2. CASE x \notin D
    BY <2>2, DeathsDo
  <2> QED BY <2>1, <2>2
<1>3. /\ serve' \in [Pid -> ServeRec] /\ engine' \in [Pid -> EngineRec]
      /\ {daemonPid', enginePid', socket'} \subseteq MaybePid
  BY DeathsDo DEF SInv, ProcessTypes, MaybePid
<1> QED BY <1>1, <1>2, <1>3, Frame

(* SIGTERM to an engine that listens, and to a serve. *)
LEMMA DrainingDoes ==
    ASSUME NEW E \in [Pid -> EngineRec], NEW e \in Pid
    PROVE  /\ Draining(E, e) \in [Pid -> EngineRec]
           /\ \A x \in Pid : /\ Draining(E, e)[x].parent = E[x].parent
                             /\ Draining(E, e)[x].pc # "off" <=> E[x].pc # "off"
BY DEF Draining, EngineRec, MaybePid

(* A signal to a serve moves it only if it serves, and then to its stop.   *)
LEMMA StoppingDoes ==
    ASSUME NEW S \in [Pid -> ServeRec], \A x \in Pid : ServeOK(S[x]), NEW e \in Pid
    PROVE  /\ Stopping(S, e) \in [Pid -> ServeRec]
           /\ \A x \in Pid : /\ ServeOK(Stopping(S, e)[x])
                             /\ Stopping(S, e)[x].child = S[x].child
                             /\ Stopping(S, e)[x].sup = S[x].sup
                             /\ \/ Stopping(S, e)[x] = S[x]
                                \/ /\ x = e /\ S[x].main = "serving"
                                   /\ Stopping(S, e)[x].main = "stopping"
<1>1. CASE S[e].main # "serving"
  BY <1>1 DEF Stopping
<1>2. CASE S[e].main = "serving"
  <2>1. Stopping(S, e) = [S EXCEPT ![e] = [S[e] EXCEPT !.main = "stopping"]]
    BY <1>2 DEF Stopping
  <2> DEFINE r == [S[e] EXCEPT !.main = "stopping"]
  <2>2. /\ r \in ServeRec /\ r.main = "stopping" /\ r.sup = S[e].sup /\ r.child = S[e].child
        /\ r.hits = S[e].hits /\ r.flaps = S[e].flaps /\ r.backoff = S[e].backoff
    BY DEF ServeRec, MainPc
  <2>3. ServeOK(r)
    BY <2>2 DEF ServeOK
  <2> HIDE DEF r
  <2>4. Stopping(S, e) = [S EXCEPT ![e] = r]
    BY <2>1 DEF r
  <2> QED BY <1>2, <2>2, <2>3, <2>4
<1> QED BY <1>1, <1>2

(* Deaths, and SIGTERM to an engine that listens. *)
LEMMA EnginesDie ==
    ASSUME SInv, NEW D \in SUBSET Pid, NEW E,
           E = EnginesAfter(D) \/ \E e \in Pid : E = Draining(EnginesAfter(D), e)
    PROVE  /\ E \in [Pid -> EngineRec]
           /\ \A x \in Pid :
                /\ E[x].pc # "off" => x \notin D /\ engine[x].pc # "off"
                /\ E[x].pc = "off" => E[x].parent = None
                /\ E[x].pc # "off" =>
                      E[x].parent = IF engine[x].parent \in D THEN InitPid ELSE engine[x].parent
<1> DEFINE A == EnginesAfter(D)
<1>1. /\ A \in [Pid -> EngineRec]
      /\ \A x \in Pid :
           /\ A[x].pc # "off" => x \notin D /\ engine[x].pc # "off"
           /\ A[x].pc = "off" => A[x].parent = None
           /\ A[x].pc # "off" =>
                 A[x].parent = IF engine[x].parent \in D THEN InitPid ELSE engine[x].parent
  BY DeathsDo
<1>2. CASE E = A
  BY <1>1, <1>2
<1>3. CASE \E e \in Pid : E = Draining(A, e)
  <2>1. PICK e \in Pid : E = Draining(A, e)
    BY <1>3
  <2> HIDE DEF A
  <2>2. /\ E \in [Pid -> EngineRec]
        /\ \A x \in Pid : E[x].parent = A[x].parent /\ (E[x].pc # "off" <=> A[x].pc # "off")
    BY <1>1, <2>1, DrainingDoes
  <2> QED BY <1>1, <2>2
<1> QED BY <1>2, <1>3

(* The next serve signals what engine.pid names, and waits. *)
LEMMA ReapKeeps ==
    ASSUME SInv, NEW p \in Pid, ReapEngine(p)
    PROVE  /\ SInv'
           /\ \A x \in Pid : /\ serve[x].main = "serving" => serve'[x].main = "serving"
<1> USE PidAssumption
<1>1. /\ serve[p].main = "reap" /\ serve[p].sup = "none" /\ engine[p].pc = "off"
      /\ EngineOf(p) = {} /\ serve[p] \in ServeRec /\ ServeOK(serve[p])
      /\ UNCHANGED <<daemonPid, enginePid, socket>>
      /\ {daemonPid, enginePid, socket} \subseteq MaybePid
      /\ serve \in [Pid -> ServeRec]
  BY DEF ReapEngine, Files, SInv, ProcessTypes, KindsApart, OnlyTheWatchedChild, ServeOK, EngineOf
<1>2. CASE ~ Alive(enginePid)
  <2>1. enginePid # p
    BY <1>1, <1>2 DEF Alive
  <2>2. /\ serve' = [serve EXCEPT ![p] = [serve[p] EXCEPT !.main = "probe", !.sup = "spawn",
                                                          !.old = None]]
        /\ engine' = engine
    BY <1>1, <1>2 DEF ReapEngine, StartSupervisor
  <2> DEFINE r == [serve[p] EXCEPT !.main = "probe", !.sup = "spawn", !.old = None]
  <2>3. /\ r \in ServeRec /\ r.main = "probe" /\ r.sup = "spawn"
        /\ r.hits = serve[p].hits /\ r.flaps = serve[p].flaps /\ r.backoff = serve[p].backoff
    BY <1>1 DEF ServeRec, MainPc, SupPc, MaybePid
  <2>4. ServeOK(r)
    BY <1>1, <2>3 DEF ServeOK
  <2> HIDE DEF r
  <2>5. serve' = [serve EXCEPT ![p] = r]
    BY <2>2 DEF r
  <2>6. SInv'
    BY <1>1, <2>1, <2>2, <2>3, <2>4, <2>5, OwnStep
  <2> QED BY <1>1, <2>5, <2>6
<1>3. CASE Alive(enginePid)
  <2> DEFINE e == enginePid
             D == Mortal(e)
             r == [serve[p] EXCEPT !.main = "waitdead", !.old = e]
             W == [ServesAfter(D) EXCEPT ![p] = r]
  <2>1. e \in Pid /\ D \in SUBSET Pid /\ serve[e].main # "serving"
    BY <1>3 DEF Alive, Mortal, SInv, KindsApart
  <2>2. p = e <=> p \in D
    BY <1>1 DEF Mortal, Deaf
  <2>3. engine' = Draining(EnginesAfter(D), e)
    BY <1>3 DEF ReapEngine
  <2>4. p \in D => serve' = ServesAfter(D)
    BY <1>3 DEF ReapEngine
  <2>5. p \notin D => serve' = Stopping([ServesAfter(D) EXCEPT ![p].main = "waitdead",
                                                               ![p].old = e], e)
    BY <1>3 DEF ReapEngine
  <2>6. /\ r \in ServeRec /\ r.main = "waitdead" /\ r.sup = "none"
        /\ r.hits = serve[p].hits /\ r.flaps = serve[p].flaps /\ r.backoff = serve[p].backoff
    BY <1>1, <2>1 DEF ServeRec, MainPc, SupPc, MaybePid
  <2>7. ServeOK(r)
    BY <1>1, <2>6 DEF ServeOK
  <2>8. ServesAfter(D) \in [Pid -> ServeRec] /\ (p \notin D => ServesAfter(D)[p] = serve[p])
    BY <2>1, DeathsDo
  <2>9. p \notin D => [ServesAfter(D) EXCEPT ![p].main = "waitdead", ![p].old = e] = W
    BY <2>8
  <2> HIDE DEF r, D
  <2>10. /\ W \in [Pid -> ServeRec] /\ W[p] = r
         /\ \A x \in Pid : x # p => W[x] = IF x \in D THEN NoServe ELSE serve[x]
    BY <2>1, <2>6, <2>8, DeathsDo
  <2>11. p \notin D => serve' = Stopping(W, e)
    BY <2>5, <2>9
  <2>12. D \subseteq {e}
    BY DEF D, Mortal
  <2>13. W[e].main # "serving"
    BY <2>1, <2>6, <2>10, OverOK
  <2>14. p \notin D => serve' = W
    BY <2>11, <2>13 DEF Stopping
  <2>15. /\ engine' \in [Pid -> EngineRec]
         /\ \A x \in Pid :
              /\ engine'[x].pc # "off" => x \notin D /\ engine[x].pc # "off"
              /\ engine'[x].pc = "off" => engine'[x].parent = None
              /\ engine'[x].pc # "off" =>
                    engine'[x].parent = IF engine[x].parent \in D THEN InitPid ELSE engine[x].parent
    BY <2>1, <2>3, EnginesDie
  <2> HIDE DEF W, e
  <2>16. serve' \in [Pid -> ServeRec]
    BY <2>4, <2>8, <2>10, <2>14
  <2>17. ASSUME NEW x \in Pid
         PROVE  \/ serve'[x] = NoServe /\ x \in D
                \/ serve'[x] = serve[x] /\ x \notin D
                \/ serve'[x] = r /\ x = p /\ p \notin D
    BY <2>1, <2>4, <2>10, <2>14, DeathsDo
  <2>18. \A x \in Pid : x \in D => EngineOf(x)' = {}
    BY <2>1, <2>15 DEF EngineOf
  <2>19. EngineOf(p)' = {}
    BY <1>1, <2>15, PidAssumption DEF EngineOf
  <2>20. ASSUME NEW x \in Pid
         PROVE  /\ ServeOK(serve'[x])
                /\ engine'[x].pc # "off" => engine[x].pc # "off"
                /\ engine'[x].pc = "off" => engine'[x].parent = None
                /\ engine'[x].pc # "off" => engine'[x].parent \in {engine[x].parent, InitPid}
                /\ \/ EngineOf(x)' = {}
                   \/ /\ serve'[x].child = serve[x].child
                      /\ serve[x].sup \in Watching => serve'[x].sup \in Watching
                /\ engine'[x].pc # "off" => serve'[x].main = "off"
                /\ serve'[x].main \notin {"off", "reap"} => enginePid' # x
                /\ serve[x].main = "serving" => serve'[x].main = "serving"
    <3>1. CASE serve'[x] = NoServe /\ x \in D
      <4>1. x = e
        BY <2>12, <3>1
      <4> QED BY <2>1, <2>15, <2>18, <3>1, <4>1, OverOK
    <3>2. CASE serve'[x] = serve[x] /\ x \notin D
      BY <1>1, <2>15, <3>2 DEF SInv, ProcessTypes, KindsApart
    <3>3. CASE serve'[x] = r /\ x = p /\ p \notin D
      <4>1. enginePid # p
        BY <2>2, <3>3 DEF e
      <4> QED BY <1>1, <2>6, <2>7, <2>15, <2>19, <3>3, <4>1
    <3> QED BY <2>17, <3>1, <3>2, <3>3
  <2>21. {daemonPid', enginePid', socket'} \subseteq MaybePid
    BY <1>1
  <2>22. SInv'
    BY <2>15, <2>16, <2>20, <2>21, Frame
  <2> QED BY <2>20, <2>22
<1> QED BY <1>2, <1>3

(* A step of one serve that some processes die of. *)
LEMMA KillingStep ==
    ASSUME SInv, NEW p \in Pid, NEW D \in SUBSET Pid, p \notin D,
           NEW r, ServeOK(r), r.main \notin {"off", "reap"}, serve[p].main \notin {"off", "reap"},
           serve' = [ServesAfter(D) EXCEPT ![p] = r], enginePid' = enginePid,
           engine' = EnginesAfter(D) \/ \E e \in Pid : engine' = Draining(EnginesAfter(D), e),
           {daemonPid', socket'} \subseteq MaybePid,
           r.child = serve[p].child /\ (serve[p].sup \in Watching => r.sup \in Watching)
    PROVE  SInv' /\ \A x \in Pid : x # p => serve'[x] = IF x \in D THEN NoServe ELSE serve[x]
<1> USE PidAssumption
<1>1. /\ engine' \in [Pid -> EngineRec]
      /\ \A x \in Pid :
           /\ engine'[x].pc # "off" => x \notin D /\ engine[x].pc # "off"
           /\ engine'[x].pc = "off" => engine'[x].parent = None
           /\ engine'[x].pc # "off" =>
                 engine'[x].parent = IF engine[x].parent \in D THEN InitPid ELSE engine[x].parent
  BY EnginesDie
<1>2. /\ serve' \in [Pid -> ServeRec] /\ serve'[p] = r
      /\ \A x \in Pid : x # p => serve'[x] = IF x \in D THEN NoServe ELSE serve[x]
  <2>1. PICK a : a = ServesAfter(D)
    OBVIOUS
  <2>2. /\ a \in [Pid -> ServeRec]
        /\ \A x \in Pid : a[x] = IF x \in D THEN NoServe ELSE serve[x]
    BY <2>1, DeathsDo
  <2>3. r \in ServeRec
    BY DEF ServeOK
  <2>4. serve' = [a EXCEPT ![p] = r]
    BY <2>1
  <2>5. serve' \in [Pid -> ServeRec] /\ serve'[p] = r
    BY <2>2, <2>3, <2>4
  <2>6. \A x \in Pid : x # p => serve'[x] = a[x]
    BY <2>2, <2>4
  <2> QED BY <2>2, <2>5, <2>6
<1>3. \A x \in Pid : x \in D => EngineOf(x)' = {}
  <2>1. ASSUME NEW x \in D
        PROVE  \A q \in Pid : engine'[q].pc # "off" => engine'[q].parent # x
    BY <1>1
  <2> QED BY <2>1 DEF EngineOf
<1>4. ASSUME NEW x \in Pid
      PROVE  /\ ServeOK(serve'[x])
             /\ \/ EngineOf(x)' = {}
                \/ /\ serve'[x].child = serve[x].child
                   /\ serve[x].sup \in Watching => serve'[x].sup \in Watching
             /\ engine'[x].parent # None => engine'[x].parent \in {engine[x].parent, InitPid}
             /\ engine'[x].pc # "off" => serve'[x].main = "off"
             /\ serve'[x].main \notin {"off", "reap"} => enginePid' # x
  <2>1. CASE x = p
    BY <1>1, <1>2, <2>1 DEF SInv, KindsApart
  <2>2. CASE x # p /\ x \in D
    BY <1>1, <1>2, <1>3, <2>2, OverOK
  <2>3. CASE x # p /\ x \notin D
    BY <1>1, <1>2, <2>3 DEF SInv, ProcessTypes, KindsApart
  <2> QED BY <2>1, <2>2, <2>3
<1>5. {daemonPid', enginePid', socket'} \subseteq MaybePid
  BY DEF SInv, ProcessTypes
<1> QED BY <1>1, <1>2, <1>4, <1>5, Frame

(* A step that changes engines only, and engine.pid. *)
LEMMA EngineOnly ==
    ASSUME SInv, serve' = serve, engine' \in [Pid -> EngineRec],
           \A x \in Pid : /\ engine'[x].pc # "off" <=> engine[x].pc # "off"
                          /\ engine'[x].parent = engine[x].parent,
           \/ enginePid' = enginePid
           \/ enginePid' \in Pid /\ engine[enginePid'].pc # "off",
           {daemonPid', socket'} \subseteq MaybePid
    PROVE  SInv'
<1>1. ASSUME NEW x \in Pid
      PROVE  /\ ServeOK(serve'[x])
             /\ engine'[x].pc = "off" => engine'[x].parent = None
             /\ engine'[x].pc # "off" => serve'[x].main = "off"
             /\ serve'[x].main \notin {"off", "reap"} => enginePid' # x
  BY DEF SInv, ProcessTypes, KindsApart
<1>2. serve' \in [Pid -> ServeRec] /\ {daemonPid', enginePid', socket'} \subseteq MaybePid
  BY DEF SInv, ProcessTypes, MaybePid
<1> QED BY <1>1, <1>2, Frame

(* No step but the two that signal strangers changes more than one serve's *)
(* main.                                                                   *)
OneServeMoves ==
    \E o \in Pid : \A x \in Pid : x # o => serve'[x].main = serve[x].main

(* A serve's own step is such a step, *)
LEMMA OwnMoves ==
    ASSUME SInv, NEW p \in Pid, NEW r, serve' = [serve EXCEPT ![p] = r]
    PROVE  OneServeMoves
BY DEF OneServeMoves, SInv, ProcessTypes

(* and so is a death. *)
LEMMA DeathMoves ==
    ASSUME SInv, NEW p \in Pid, serve' = ServesAfter({p})
    PROVE  OneServeMoves
BY DeathsDo DEF OneServeMoves

(* What the invariant says of a serve that is there. *)
LEMMA OwnFacts ==
    ASSUME SInv, NEW p \in Pid, serve[p].main # "off"
    PROVE  /\ engine[p].pc = "off" /\ serve[p] \in ServeRec /\ ServeOK(serve[p])
           /\ serve[p].main # "reap" => enginePid # p
           /\ EngineOf(p) # {} => serve[p].sup \in Watching
           /\ {daemonPid, enginePid, socket} \subseteq MaybePid
BY DEF SInv, ProcessTypes, OnlyTheWatchedChild, KindsApart, EngineOf, Watching

(* A step of a serve's main goroutine. *)
LEMMA MainStep ==
    ASSUME SInv, NEW p \in Pid, serve[p].main \notin {"off", "reap"},
           NEW m \in MainPc \ {"off", "reap", "waitdead"}, NEW o \in MaybePid,
           m = "ping" => o \in Pid,
           serve' = [serve EXCEPT ![p].main = m, ![p].old = o],
           engine' = engine, enginePid' = enginePid, {daemonPid', socket'} \subseteq MaybePid
    PROVE  SInv' /\ OneServeMoves
<1> DEFINE r == [serve[p] EXCEPT !.main = m, !.old = o]
<1>1. serve' = [serve EXCEPT ![p] = r]
  BY DEF SInv, ProcessTypes
<1>2. /\ r \in ServeRec /\ r.main = m /\ r.old = o
      /\ r.sup = serve[p].sup /\ r.child = serve[p].child
      /\ r.hits = serve[p].hits /\ r.flaps = serve[p].flaps /\ r.backoff = serve[p].backoff
  BY OwnFacts DEF ServeRec
<1>3. ServeOK(r)
  BY <1>2, OwnFacts DEF ServeOK
<1> HIDE DEF r
<1> QED BY <1>1, <1>2, <1>3, OwnFacts, OwnStep, OwnMoves

(* The main goroutine's steps, the ones that reap and reclaim left out.     *)
LEMMA MainKeeps ==
    ASSUME SInv, NEW p \in Pid,
           \/ NobodyOwns(p) \/ SomeoneOwns(p) \/ Refused(p) \/ Claim(p) \/ Listen(p)
           \/ Stop(p) \/ FatalStops(p) \/ Stopped(p)
    PROVE  SInv' /\ OneServeMoves
<1> DEFINE Same(m) == [serve EXCEPT ![p].main = m, ![p].old = serve[p].old]
<1>1. /\ serve \in [Pid -> ServeRec] /\ serve[p].old \in MaybePid
      /\ {daemonPid, enginePid, socket} \subseteq MaybePid /\ Pid \subseteq MaybePid
      /\ None \in MaybePid
  BY DEF SInv, ProcessTypes, ServeRec, MaybePid
<1>2. \A m : [serve EXCEPT ![p].main = m] = Same(m)
  BY <1>1 DEF ServeRec
<1> HIDE DEF Same
<1>3. CASE NobodyOwns(p)
  <2>1. serve[p].main = "probe" /\ serve' = Same("claim") /\ UNCHANGED <<engine, daemonPid, enginePid, socket>>
    BY <1>2, <1>3 DEF NobodyOwns, Files
  <2> QED BY <1>1, <2>1, MainStep DEF Same, MainPc
<1>4. CASE SomeoneOwns(p)
  <2>1. /\ serve[p].main = "probe" /\ daemonPid \in Pid
        /\ serve' = [serve EXCEPT ![p].main = "ping", ![p].old = daemonPid]
        /\ UNCHANGED <<engine, daemonPid, enginePid, socket>>
    BY <1>4 DEF SomeoneOwns, Files, Alive
  <2> QED BY <1>1, <2>1, MainStep DEF MainPc
<1>5. CASE Refused(p)
  <2>1. /\ serve[p].main = "ping"
        /\ serve' = [serve EXCEPT ![p].main = "unwind", ![p].old = None]
        /\ UNCHANGED <<engine, daemonPid, enginePid, socket>>
    BY <1>5 DEF Refused, Files
  <2> QED BY <1>1, <2>1, MainStep DEF MainPc
<1>6. CASE Claim(p)
  <2>1. /\ serve[p].main = "claim" /\ serve' = Same("listen")
        /\ daemonPid' = p /\ UNCHANGED <<engine, enginePid, socket>>
    BY <1>2, <1>6 DEF Claim
  <2> QED BY <1>1, <2>1, MainStep DEF Same, MainPc
<1>7. CASE Listen(p)
  <2>1. /\ serve[p].main = "listen" /\ serve' = Same("serving")
        /\ socket' = p /\ UNCHANGED <<engine, enginePid, daemonPid>>
    BY <1>2, <1>7 DEF Listen
  <2> QED BY <1>1, <2>1, MainStep DEF Same, MainPc
<1>8. CASE Stop(p) \/ FatalStops(p)
  <2>1. /\ serve[p].main = "serving" /\ serve' = Same("stopping")
        /\ UNCHANGED <<engine, enginePid, daemonPid, socket>>
    BY <1>2, <1>8 DEF Stop, FatalStops, Files
  <2> QED BY <1>1, <2>1, MainStep DEF Same, MainPc
<1>9. CASE Stopped(p)
  <2>1. /\ serve[p].main = "stopping" /\ serve' = Same("unwind")
        /\ daemonPid' = None /\ socket' = None /\ UNCHANGED <<engine, enginePid>>
    BY <1>2, <1>9 DEF Stopped, ReleaseFiles
  <2> QED BY <1>1, <2>1, MainStep DEF Same, MainPc
<1> QED BY <1>3, <1>4, <1>5, <1>6, <1>7, <1>8, <1>9

(* A serve starts, and starts its supervisor. *)
LEMMA StartKeeps ==
    ASSUME SInv, NEW p \in Pid, StartServe(p) \/ WaitedDead(p)
    PROVE  SInv' /\ OneServeMoves
<1>1. /\ serve \in [Pid -> ServeRec] /\ serve[p] \in ServeRec /\ ServeOK(serve[p])
      /\ {daemonPid, enginePid, socket} \subseteq MaybePid
  BY DEF SInv, ProcessTypes
<1>2. CASE StartServe(p)
  <2> DEFINE r == [serve[p] EXCEPT !.main = "reap"]
  <2>1. /\ serve' = [serve EXCEPT ![p] = r] /\ UNCHANGED <<engine, daemonPid, enginePid, socket>>
        /\ serve[p].main = "off" /\ engine[p].pc = "off"
    BY <1>1, <1>2, NewPidIsFree DEF StartServe, Files
  <2>2. /\ r \in ServeRec /\ r.main = "reap"
        /\ r.sup = serve[p].sup /\ r.child = serve[p].child
        /\ r.hits = serve[p].hits /\ r.flaps = serve[p].flaps /\ r.backoff = serve[p].backoff
    BY <1>1 DEF ServeRec, MainPc
  <2>3. ServeOK(r) /\ serve[p].sup = "none"
    BY <1>1, <2>1, <2>2 DEF ServeOK
  <2>4. EngineOf(p) = {}
    BY <2>3 DEF SInv, OnlyTheWatchedChild, EngineOf
  <2> HIDE DEF r
  <2> QED BY <1>1, <2>1, <2>2, <2>3, <2>4, OwnStep, OwnMoves
<1>3. CASE WaitedDead(p)
  <2> DEFINE r == [serve[p] EXCEPT !.main = "probe", !.sup = "spawn", !.old = None]
  <2>1. /\ serve' = [serve EXCEPT ![p] = r] /\ UNCHANGED <<engine, daemonPid, enginePid, socket>>
        /\ serve[p].main = "waitdead"
    BY <1>1, <1>3 DEF WaitedDead, StartSupervisor, Files
  <2>2. /\ r \in ServeRec /\ r.main = "probe" /\ r.sup = "spawn"
        /\ r.hits = serve[p].hits /\ r.flaps = serve[p].flaps /\ r.backoff = serve[p].backoff
    BY <1>1 DEF ServeRec, MainPc, SupPc, MaybePid
  <2>3. ServeOK(r) /\ serve[p].sup = "none"
    BY <1>1, <2>1, <2>2 DEF ServeOK
  <2>4. EngineOf(p) = {}
    BY <2>3 DEF SInv, OnlyTheWatchedChild, EngineOf
  <2> HIDE DEF r
  <2> QED BY <1>1, <2>1, <2>2, <2>3, <2>4, OwnFacts, OwnStep, OwnMoves
<1> QED BY <1>2, <1>3

(* Processes end, or are killed. *)
LEMMA EndKeeps ==
    ASSUME SInv, NEW p \in Pid,
           ForceExit(p) \/ Exit(p) \/ Crash(p) \/ KillChild(p) \/ EngineEnds(p)
    PROVE  SInv' /\ OneServeMoves
<1>1. {daemonPid, enginePid, socket} \subseteq MaybePid /\ None \in MaybePid
  BY DEF SInv, ProcessTypes, MaybePid
<1>2. \E q \in Pid : serve' = ServesAfter({q}) /\ engine' = EnginesAfter({q})
  BY DEF ForceExit, Exit, Crash, KillChild, EngineEnds, Dies, Exited, Alive
<1>3. enginePid' \in {enginePid, None} /\ {daemonPid', socket'} \subseteq MaybePid
  BY <1>1 DEF ForceExit, Exit, Crash, KillChild, EngineEnds, Files, ReleaseFiles, Disconnect
<1> QED BY <1>2, <1>3, DeathStep, DeathMoves

(* The steps of an engine. *)
LEMMA EngineKeeps ==
    ASSUME SInv, NEW q \in Pid, EngineStep(q)
    PROVE  SInv' /\ OneServeMoves
<1>1. /\ engine \in [Pid -> EngineRec] /\ {daemonPid, enginePid, socket} \subseteq MaybePid
  BY DEF SInv, ProcessTypes
<1>2. serve' = serve /\ {daemonPid', socket'} \subseteq MaybePid
  BY <1>1 DEF EngineStep, WritePid, RecordParent, Orphaned, Files
<1>3. CASE WritePid(q)
  <2>1. engine[q].pc = "boot" /\ engine' = [engine EXCEPT ![q].pc = "booted"] /\ enginePid' = q
    BY <1>3 DEF WritePid
  <2> QED BY <1>1, <1>2, <2>1, EngineOnly DEF EngineRec, OneServeMoves
<1>4. CASE RecordParent(q)
  <2>1. /\ engine[q].pc = "booted" /\ enginePid' = enginePid
        /\ engine' = [engine EXCEPT ![q].pc = "run", ![q].orig = engine[q].parent]
    BY <1>4 DEF RecordParent, Files
  <2> QED BY <1>1, <1>2, <2>1, EngineOnly DEF EngineRec, OneServeMoves
<1>5. CASE Orphaned(q)
  <2>1. engine' = Draining(engine, q) /\ enginePid' = enginePid
    BY <1>5 DEF Orphaned, Files
  <2> QED BY <1>1, <1>2, <2>1, EngineOnly, DrainingDoes DEF OneServeMoves
<1> QED BY <1>3, <1>4, <1>5 DEF EngineStep

(* The steps of the supervisor on its own record. *)
LEMMA CountKeeps ==
    ASSUME SInv, NEW p \in Pid,
           \/ SpawnFails(p) \/ StopIdle(p) \/ Reaped(p)
           \/ \E healthy \in BOOLEAN : ChildExited(p, healthy)
    PROVE  SInv' /\ OneServeMoves
<1> USE TuningAssumption
<1>1. /\ serve[p].sup \in {"spawn", "watch", "drain"} /\ serve[p].main # "off"
      /\ serve[p].main \notin {"off", "reap", "waitdead"}
  <2>1. serve[p].sup \in {"spawn", "watch", "drain"}
    BY DEF SpawnFails, StopIdle, Reaped, ChildExited
  <2> QED BY <2>1 DEF SInv, ProcessTypes, ServeOK
<1>2. /\ serve[p] \in ServeRec /\ ServeOK(serve[p]) /\ serve \in [Pid -> ServeRec]
      /\ {daemonPid, enginePid, socket} \subseteq MaybePid
  BY DEF SInv, ProcessTypes
<1>3. UNCHANGED <<engine, daemonPid, enginePid, socket>>
  BY DEF SpawnFails, StopIdle, Reaped, ChildExited, Files
<1>4. EngineOf(p) = {}
  <2>1. CASE serve[p].sup = "spawn"
    BY <2>1 DEF SInv, OnlyTheWatchedChild, EngineOf
  <2>2. CASE Exited(p)
    BY <2>2 DEF SInv, OnlyTheWatchedChild, EngineOf, Exited, Alive
  <2> QED BY <2>1, <2>2 DEF SpawnFails, StopIdle, Reaped, ChildExited
<1>5. \E r : serve' = [serve EXCEPT ![p] = r] /\ ServeOK(r) /\ r.main \notin {"off", "reap"}
  <2>1. CASE SpawnFails(p)
    <3>1. serve[p].sup = "spawn" /\ serve' = [serve EXCEPT ![p] = AfterLaunch(serve[p])]
      BY <2>1 DEF SpawnFails
    <3> QED BY <1>1, <1>2, <3>1, AfterLaunchOK
  <2>2. CASE StopIdle(p) \/ Reaped(p)
    <3>1. serve' = [serve EXCEPT ![p] = Over]
      BY <2>2 DEF StopIdle, Reaped
    <3> QED BY <3>1, OverOK
  <2>3. CASE \E healthy \in BOOLEAN : ChildExited(p, healthy)
    <3>1. PICK healthy \in BOOLEAN : ChildExited(p, healthy)
      BY <2>3
    <3> DEFINE g == Forgiven(serve[p], healthy)
    <3>2. serve[p].sup = "watch" /\ serve' = [serve EXCEPT ![p] = AfterLaunch(g)]
      BY <3>1 DEF ChildExited
    <3>3. g \in ServeRec /\ g.main = serve[p].main /\ g.sup = "watch" /\ ServeOK(g)
      <4>1. CASE ~ healthy
        BY <1>2, <3>2, <4>1 DEF Forgiven
      <4>2. CASE healthy
        <5>1. g = [serve[p] EXCEPT !.backoff = 0, !.hits = 0, !.flaps = 0]
          BY <4>2 DEF Forgiven
        <5> HIDE DEF g
        <5>2. 0 \in 0..MaxBackoff /\ 0 \in 0..MaxHits /\ 0 \in 0..(MaxBackoff + MaxHits)
          OBVIOUS
        <5>3. /\ g \in ServeRec /\ g.main = serve[p].main /\ g.sup = serve[p].sup
              /\ g.old = serve[p].old /\ g.hits = 0 /\ g.flaps = 0 /\ g.backoff = 0
          BY <1>2, <5>1, <5>2 DEF ServeRec
        <5> QED BY <1>2, <3>2, <5>3 DEF ServeOK
      <4> QED BY <4>1, <4>2
    <3> HIDE DEF g
    <3> QED BY <1>1, <3>2, <3>3, AfterLaunchOK
  <2> QED BY <2>1, <2>2, <2>3
<1> QED BY <1>1, <1>2, <1>3, <1>4, <1>5, OwnFacts, OwnStep, OwnMoves

(* A launch: the pid is free, and the supervisor had no engine. *)
LEMMA SpawnKeeps ==
    ASSUME SInv, NEW p \in Pid, NEW q \in Pid, SpawnEngine(p, q)
    PROVE  SInv' /\ OneServeMoves
<1> USE PidAssumption
<1> DEFINE r == [serve[p] EXCEPT !.sup = "watch", !.child = q]
           n == [NoEngine EXCEPT !.pc = "boot", !.parent = p]
<1>1. /\ serve[p] \in ServeRec /\ ServeOK(serve[p]) /\ serve \in [Pid -> ServeRec]
      /\ engine \in [Pid -> EngineRec]
      /\ {daemonPid, enginePid, socket} \subseteq MaybePid
  BY DEF SInv, ProcessTypes
<1>2. /\ serve[p].sup = "spawn" /\ serve' = [serve EXCEPT ![p] = r]
      /\ engine' = [engine EXCEPT ![q] = n]
      /\ UNCHANGED <<daemonPid, enginePid, socket>>
  BY <1>1 DEF SpawnEngine, Files
<1>3. serve[q].main = "off" /\ engine[q].pc = "off"
  BY NewPidIsFree DEF SpawnEngine
<1>4. p # q /\ serve[p].main \notin {"off", "reap", "waitdead"}
  BY <1>1, <1>2, <1>3 DEF ServeOK
<1>5. /\ r \in ServeRec /\ r.main = serve[p].main /\ r.sup = "watch" /\ r.child = q
      /\ r.old = serve[p].old
      /\ r.hits = serve[p].hits /\ r.flaps = serve[p].flaps /\ r.backoff = serve[p].backoff
  BY <1>1 DEF ServeRec, SupPc, MaybePid
<1>6. ServeOK(r)
  BY <1>1, <1>2, <1>5 DEF ServeOK
<1>7. n \in EngineRec /\ n.pc = "boot" /\ n.parent = p
  BY DEF NoEngine, EngineRec, MaybePid
<1> HIDE DEF r, n
<1>8. /\ serve' \in [Pid -> ServeRec] /\ serve'[p] = r /\ \A x \in Pid : x # p => serve'[x] = serve[x]
      /\ engine' \in [Pid -> EngineRec] /\ engine'[q] = n
      /\ \A x \in Pid : x # q => engine'[x] = engine[x]
  BY <1>1, <1>2, <1>5, <1>7
<1>9. ProcessTypes'
  BY <1>2, <1>6, <1>7, <1>8 DEF SInv, ProcessTypes
<1>10. OnlyTheWatchedChild'
  <2>1. \A x \in Pid : engine[x].pc # "off" => engine[x].parent # p
    BY <1>2 DEF SInv, OnlyTheWatchedChild
  <2> QED BY <1>5, <1>7, <1>8, <2>1 DEF SInv, OnlyTheWatchedChild
<1>11. KindsApart'
  BY <1>2, <1>3, <1>4, <1>5, <1>8 DEF SInv, KindsApart
<1> QED BY <1>2, <1>9, <1>10, <1>11, OwnMoves DEF SInv

(* SIGTERM to the child, which may not listen yet. *)
LEMMA TerminateKeeps ==
    ASSUME SInv, NEW p \in Pid, Terminate(p)
    PROVE  SInv' /\ OneServeMoves
<1> USE PidAssumption
<1> DEFINE c == serve[p].child
           D == IF Exited(p) THEN {} ELSE Mortal(c)
           r == [serve[p] EXCEPT !.sup = "drain"]
<1>1. /\ serve[p].main = "unwind" /\ serve[p].sup = "watch"
      /\ serve' = [ServesAfter(D) EXCEPT ![p].sup = "drain"]
      /\ engine' = IF Exited(p) THEN engine ELSE Draining(EnginesAfter(D), c)
      /\ UNCHANGED <<daemonPid, enginePid, socket>>
  BY DEF Terminate, Files
<1>2. serve[p] \in ServeRec /\ ServeOK(serve[p]) /\ engine[p].pc = "off"
  BY <1>1 DEF SInv, ProcessTypes, KindsApart
<1>3. ~ Exited(p) => c \in Pid /\ engine[c].pc # "off"
  BY DEF Exited, Alive, SInv, ProcessTypes
<1>4. D \in SUBSET Pid /\ p \notin D /\ (D = {} \/ (D = {c} /\ c \in Pid))
  <2>1. CASE Exited(p)
    BY <2>1
  <2>2. CASE ~ Exited(p)
    <3>1. c # p /\ c \in Pid /\ D = Mortal(c)
      BY <1>2, <1>3, <2>2
    <3> QED BY <3>1 DEF Mortal
  <2> QED BY <2>1, <2>2
<1>5. engine' = EnginesAfter(D) \/ \E e \in Pid : engine' = Draining(EnginesAfter(D), e)
  <2>1. CASE Exited(p)
    <3>1. \A x \in Pid : [engine[x] EXCEPT !.parent = IF @ \in {} THEN InitPid ELSE @] = engine[x]
      BY DEF SInv, ProcessTypes, EngineRec
    <3>2. EnginesAfter({}) = engine
      BY <3>1 DEF EnginesAfter, SInv, ProcessTypes
    <3> QED BY <1>1, <2>1, <3>2
  <2>2. CASE ~ Exited(p)
    BY <1>1, <1>3, <2>2
  <2> QED BY <2>1, <2>2
<1> HIDE DEF D
<1>6. /\ r \in ServeRec /\ r.main = "unwind" /\ r.sup = "drain" /\ r.child = serve[p].child
      /\ r.hits = serve[p].hits /\ r.flaps = serve[p].flaps /\ r.backoff = serve[p].backoff
  BY <1>1, <1>2 DEF ServeRec, SupPc
<1>7. ServeOK(r)
  BY <1>1, <1>2, <1>6 DEF ServeOK
<1>8. ServesAfter(D) \in [Pid -> ServeRec] /\ ServesAfter(D)[p] = serve[p]
  BY <1>4, DeathsDo
<1>9. serve' = [ServesAfter(D) EXCEPT ![p] = r]
  BY <1>1, <1>8
<1> HIDE DEF r
<1>10. {daemonPid', socket'} \subseteq MaybePid /\ enginePid' = enginePid
  BY <1>1 DEF SInv, ProcessTypes
<1>11. SInv' /\ \A x \in Pid : x # p => serve'[x] = IF x \in D THEN NoServe ELSE serve[x]
  BY <1>1, <1>4, <1>5, <1>6, <1>7, <1>9, <1>10, KillingStep DEF Watching
<1>12. serve'[p] = r
  BY <1>8, <1>9
<1> HIDE DEF c
<1>13. \A x \in Pid : x \notin D => serve'[x].main = serve[x].main
  BY <1>1, <1>6, <1>11, <1>12
<1>14. \E o \in Pid : D \subseteq {o}
  BY <1>4
<1> QED BY <1>11, <1>13, <1>14 DEF OneServeMoves

(* The kill of the pid file's owner that does not answer. *)
LEMMA ReclaimKeeps ==
    ASSUME SInv, NEW p \in Pid, Reclaim(p)
    PROVE  /\ SInv' /\ MayBeDumb
           /\ \A x \in Pid : x # p => \/ serve'[x] = serve[x]
                                      \/ serve'[x] = NoServe
<1> DEFINE o == serve[p].old
           r == [serve[p] EXCEPT !.main = "claim", !.old = None]
<1>1. /\ serve[p].main = "ping" /\ MayBeDumb
      /\ serve' = IF p = o THEN ServesAfter({p})
                  ELSE [ServesAfter({o}) EXCEPT ![p].main = "claim", ![p].old = None]
      /\ engine' = EnginesAfter({o})
      /\ socket' = (IF socket = o THEN None ELSE socket)
      /\ daemonPid' = daemonPid /\ enginePid' = enginePid
  BY DEF Reclaim, Disconnect
<1>2. /\ serve[p] \in ServeRec /\ ServeOK(serve[p]) /\ o \in Pid
      /\ {daemonPid', socket'} \subseteq MaybePid
  BY <1>1 DEF SInv, ProcessTypes, ServeOK, MaybePid
<1>3. CASE p = o
  <2>1. serve' = ServesAfter({p}) /\ engine' = EnginesAfter({p}) /\ {p} \in SUBSET Pid
    BY <1>1, <1>3
  <2>2. SInv'
    BY <1>1, <1>2, <2>1, DeathStep
  <2>3. \A x \in Pid : x # p => serve'[x] = serve[x]
    BY <2>1, DeathsDo
  <2> QED BY <1>1, <2>2, <2>3
<1>4. CASE p # o
  <2>1. ServesAfter({o}) \in [Pid -> ServeRec] /\ ServesAfter({o})[p] = serve[p]
    BY <1>2, <1>4, DeathsDo
  <2>2. serve' = [ServesAfter({o}) EXCEPT ![p] = r]
    BY <1>1, <1>4, <2>1
  <2>3. /\ r \in ServeRec /\ r.main = "claim" /\ r.sup = serve[p].sup /\ r.child = serve[p].child
        /\ r.hits = serve[p].hits /\ r.flaps = serve[p].flaps /\ r.backoff = serve[p].backoff
    BY <1>2 DEF ServeRec, MainPc, MaybePid
  <2>4. ServeOK(r)
    BY <1>1, <1>2, <2>3 DEF ServeOK
  <2> HIDE DEF r, o
  <2> DEFINE D == {o}
  <2>5. /\ D \in SUBSET Pid /\ p \notin D /\ engine' = EnginesAfter(D)
        /\ serve' = [ServesAfter(D) EXCEPT ![p] = r] /\ enginePid' = enginePid
        /\ serve[p].main \notin {"off", "reap"} /\ r.main \notin {"off", "reap"}
    BY <1>1, <1>2, <1>4, <2>2, <2>3
  <2> HIDE DEF D
  <2>6. SInv' /\ \A x \in Pid : x # p => serve'[x] = IF x \in D THEN NoServe ELSE serve[x]
    BY <1>2, <2>3, <2>4, <2>5, KillingStep
  <2> QED BY <1>1, <2>6
<1> QED BY <1>3, <1>4

-----------------------------------------------------------------------------
(* What one step may do to a serve that can be reached. *)
Spares ==
    \A p, q \in Pid : Starting(p) /\ serve[q].main = "serving" /\ socket = q
                        => serve'[q].main = "serving"

(* One that starts and moves nobody but itself spares the others.          *)
LEMMA OneMoveSpares == OneServeMoves => Spares
BY DEF OneServeMoves, Spares, Starting

(* Every step keeps the invariant, and spares who serves.                  *)
LEMMA NextSInv == SInv /\ [Next]_vars => SInv' /\ Spares
<1> SUFFICES ASSUME SInv, [Next]_vars
             PROVE  SInv' /\ Spares
  OBVIOUS
<1>1. CASE UNCHANGED vars
  BY <1>1 DEF vars, SInv, ProcessTypes, OnlyTheWatchedChild, KindsApart, Spares, Starting
<1>2. ASSUME NEW p \in Pid,
             \/ StartServe(p) \/ ServeStep(p) \/ Stop(p) \/ Crash(p)
             \/ SupervisorStep(p) \/ EngineStep(p) \/ EngineEnds(p)
      PROVE  SInv' /\ Spares
  <2>1. CASE ReapEngine(p)
    BY <2>1, ReapKeeps DEF Spares
  <2>2. CASE Reclaim(p)
    <3>1. ASSUME NEW s \in Pid, NEW q \in Pid, serve[q].main = "serving", socket = q
          PROVE  FALSE
      BY <2>2, <3>1, ReclaimKeeps DEF MayBeDumb
    <3> QED BY <2>2, <3>1, ReclaimKeeps DEF Spares
  <2>3. CASE \/ NobodyOwns(p) \/ SomeoneOwns(p) \/ Refused(p) \/ Claim(p) \/ Listen(p)
             \/ Stop(p) \/ FatalStops(p) \/ Stopped(p)
    BY <2>3, MainKeeps, OneMoveSpares
  <2>4. CASE StartServe(p) \/ WaitedDead(p)
    BY <2>4, StartKeeps, OneMoveSpares
  <2>5. CASE ForceExit(p) \/ Exit(p) \/ Crash(p) \/ KillChild(p) \/ EngineEnds(p)
    BY <2>5, EndKeeps, OneMoveSpares
  <2>6. CASE EngineStep(p)
    BY <2>6, EngineKeeps, OneMoveSpares
  <2>7. CASE \/ SpawnFails(p) \/ StopIdle(p) \/ Reaped(p)
             \/ \E healthy \in BOOLEAN : ChildExited(p, healthy)
    BY <2>7, CountKeeps, OneMoveSpares
  <2>8. CASE \E q \in Pid : SpawnEngine(p, q)
    BY <2>8, SpawnKeeps, OneMoveSpares
  <2>9. CASE Terminate(p)
    BY <2>9, TerminateKeeps, OneMoveSpares
  <2> QED BY <1>2, <2>1, <2>2, <2>3, <2>4, <2>5, <2>6, <2>7, <2>8, <2>9 DEF ServeStep, SupervisorStep
<1> QED BY <1>1, <1>2 DEF Next

(* The invariant holds in every reachable state. *)
THEOREM SpecSInv == Spec => []SInv
<1>1. Init => SInv
  BY InitSInv
<1>2. SInv /\ [Next]_vars => SInv'
  BY NextSInv
<1> QED BY <1>1, <1>2, PTL DEF Spec

(* A supervisor is exact about its engines: a serve has none but the child *)
(* that superviseLoop watches or terminateChild drains, never a second one *)
(* after a relaunch and none after a stop; and it gives up only after as   *)
(* many unhealthy launches in a row as backoffAndMaybeGiveUp asks for.     *)
THEOREM OneEnginePerServe == Spec => []SupervisionExact
<1>1. SInv => SupervisionExact
  BY DEF SInv, ProcessTypes, ServeOK, ServeRec, EngineRec, SupervisionExact, TypeOK,
         GivesUpOnCrashLoopOnly
<1> QED BY <1>1, SpecSInv, PTL

(* No step of a starting serve, neither its reapStaleEngine nor the kill   *)
(* of AcquirePIDFile's reclaim, ends a serve that listens and answers.     *)
THEOREM ServingSurvives == Spec => ServingIsSpared
<1>1. SInv /\ [Next]_vars =>
        [\A p, q \in Pid : Starting(p) /\ serve[q].main = "serving" /\ socket = q
                             => serve'[q].main = "serving"]_vars
  BY NextSInv DEF Spares
<1> QED BY <1>1, SpecSInv, PTL DEF Spec, ServingIsSpared

=============================================================================
