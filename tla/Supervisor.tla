------------------------------ MODULE Supervisor ------------------------------
(***************************************************************************)
(* internal/daemon: supervise.go, engine_parentwatch.go, pidfile.go, and   *)
(* RunServe, RunEngine and run of server.go.  The processes of one daemon  *)
(* root: serves, which an init system or a user starts, and the engine     *)
(* that each serve supervises.  They meet in two pid files and a socket;   *)
(* any of them may crash at any time, and pids are reused.                 *)
(*                                                                         *)
(* Every process that has one of these pids is a grafel, so that           *)
(* PidIsGrafel is true of a live pid.  A crash of a serve hands its engine *)
(* to the init process.  Durations are abstracted to orders: an uptime     *)
(* either reached healthyUptime or did not, and a wait for a process may   *)
(* time out whenever SlowDrain allows a drain to be that slow.             *)
(***************************************************************************)
EXTENDS Integers, FiniteSets, FiniteSetsExt

CONSTANTS
    Pid,         \* process ids, integers
    InitPid,     \* the init process
    None,        \* no process
    MaxServes,   \* bound: serves alive at once
    MaxBackoff,  \* backoffMax, in doublings of backoffInitial
    MaxHits,     \* maxCeilingHits
    PidReuse,    \* TRUE iff a new process may get a pid that a pid file names
    SlowDrain    \* TRUE iff a drain may outlast reapStaleEngineWait

ASSUME PidAssumption ==
    Pid \subseteq Nat /\ InitPid \notin Pid /\ None \notin Pid /\ InitPid # None
ASSUME TuningAssumption ==
    MaxServes \in Nat /\ MaxBackoff \in Nat /\ MaxHits \in Nat \ {0}
ASSUME SwitchAssumption == {PidReuse, SlowDrain} \subseteq BOOLEAN

VARIABLES
    serve,      \* per pid, the serve process that has it
    engine,     \* per pid, the engine process that has it
    daemonPid,  \* what daemon.pid names
    enginePid,  \* what engine.pid names
    socket      \* the serve that listens on the daemon's socket

vars == <<serve, engine, daemonPid, enginePid, socket>>

(* A serve: main is the goroutine of RunServe and run, sup the one of the  *)
(* supervisor; old is the engine it waits for; flaps, a history variable,  *)
(* counts the launches since the last that reached healthyUptime.          *)
NoServe == [main |-> "off", sup |-> "none", child |-> None, old |-> None,
            backoff |-> 0, hits |-> 0, flaps |-> 0]
NoEngine == [pc |-> "off", parent |-> None, orig |-> None]

Init ==
    /\ serve     = [p \in Pid |-> NoServe]
    /\ engine    = [p \in Pid |-> NoEngine]
    /\ daemonPid = None
    /\ enginePid = None
    /\ socket    = None

Alive(p) == p \in Pid /\ (serve[p].main # "off" \/ engine[p].pc # "off")

(* The pids a new process may get: one that no file names, or a reused one. *)
Named == {daemonPid, enginePid}
Lowest(S) == IF S = {} THEN {} ELSE {Min(S)}
NewPids == LET free == {p \in Pid : ~Alive(p)}
           IN Lowest(free \ Named) \cup (IF PidReuse THEN free \cap Named ELSE {})

(***************************************************************************)
(* Processes.                                                              *)
(***************************************************************************)
(* The processes D die: their parents have an exit to collect, and their   *)
(* children another parent.                                                *)
ServesAfter(D) ==
    [p \in Pid |-> IF p \in D THEN NoServe ELSE serve[p]]
EnginesAfter(D) ==
    [p \in Pid |-> IF p \in D THEN NoEngine
                   ELSE [engine[p] EXCEPT !.parent = IF @ \in D THEN InitPid ELSE @]]

(* SIGTERM ends a process that has not yet asked to be notified of it, or  *)
(* no longer does (signal.Stop is deferred last, so it runs first).        *)
Deaf(p) == engine[p].pc # "run" /\ serve[p].main \notin {"serving", "stopping"}
Mortal(p) == IF Deaf(p) THEN {p} ELSE {}
Draining(engines, p) ==
    IF engines[p].pc = "run" THEN [engines EXCEPT ![p].pc = "drain", ![p].orig = None]
    ELSE engines
Stopping(serves, p) ==
    IF serves[p].main = "serving" THEN [serves EXCEPT ![p].main = "stopping"] ELSE serves

Files == UNCHANGED <<daemonPid, enginePid, socket>>

(* The listener of a process that is killed closes, and the files stay.    *)
Disconnect(p) == /\ socket' = IF socket = p THEN None ELSE socket
                 /\ UNCHANGED <<daemonPid, enginePid>>

(***************************************************************************)
(* A serve starts: the supervisor's start, and run up to its listener.     *)
(***************************************************************************)
StartServe(p) ==
    /\ p \in NewPids
    /\ Cardinality({s \in Pid : serve[s].main # "off"}) < MaxServes
    /\ serve' = [serve EXCEPT ![p].main = "reap"]
    /\ UNCHANGED engine /\ Files

(* From here the supervisor's goroutine runs beside run. *)
StartSupervisor(serves, p) == [serves EXCEPT ![p].main = "probe", ![p].sup = "spawn",
                                             ![p].old = None]

(* reapStaleEngine: whatever engine.pid names is asked to end. *)
ReapEngine(p) ==
    /\ serve[p].main = "reap"
    /\ IF ~Alive(enginePid)
         THEN /\ serve' = StartSupervisor(serve, p)
              /\ UNCHANGED engine
         ELSE LET D == Mortal(enginePid)
                  waiting == [ServesAfter(D) EXCEPT ![p].main = "waitdead",
                                                    ![p].old = enginePid]
              IN /\ serve' = IF p \in D THEN ServesAfter(D) ELSE Stopping(waiting, enginePid)
                 /\ engine' = Draining(EnginesAfter(D), enginePid)
    /\ Files

(* waitPIDDead, for reapStaleEngineWait at most. *)
WaitedDead(p) ==
    /\ serve[p].main = "waitdead"
    /\ SlowDrain \/ ~Alive(serve[p].old)
    /\ serve' = StartSupervisor(serve, p)
    /\ UNCHANGED engine /\ Files

(* The Ping is to whoever has the socket; a serve that shuts down answers  *)
(* until its listener is closed.                                           *)
Answers   == socket \in Pid /\ serve[socket].main \in {"serving", "stopping"}
SkipsPing == TRUE   \* mutant
MayBeDumb == ~(socket \in Pid /\ serve[socket].main = "serving")

(* AcquirePIDFile reads the pid file: no live owner, *)
NobodyOwns(p) ==
    /\ serve[p].main = "probe"
    /\ ~Alive(daemonPid)
    /\ serve' = [serve EXCEPT ![p].main = "claim"]
    /\ UNCHANGED engine /\ Files

(* or one, for whom it pings the socket for a while. *)
SomeoneOwns(p) ==
    /\ serve[p].main = "probe"
    /\ Alive(daemonPid)
    /\ serve' = [serve EXCEPT ![p].main = "ping", ![p].old = daemonPid]
    /\ UNCHANGED engine /\ Files

(* An answer: already running. *)
Refused(p) ==
    /\ serve[p].main = "ping"
    /\ Answers
    /\ serve' = [serve EXCEPT ![p].main = "unwind", ![p].old = None]
    /\ UNCHANGED engine /\ Files

(* None to the last ping: the pid that was read is killed, if it is alive. *)
(* The last ping and the kill are one step.                                *)
Reclaim(p) ==
    /\ serve[p].main = "ping"
    /\ MayBeDumb
    /\ LET owner == serve[p].old
       IN /\ serve' = IF p = owner THEN ServesAfter({p})
                      ELSE [ServesAfter({owner}) EXCEPT ![p].main = "claim", ![p].old = None]
          /\ engine' = EnginesAfter({owner})
          /\ Disconnect(owner)

(* The pid file is written, *)
Claim(p) ==
    /\ serve[p].main = "claim"
    /\ serve' = [serve EXCEPT ![p].main = "listen"]
    /\ daemonPid' = p
    /\ UNCHANGED <<engine, enginePid, socket>>

(* and the socket replaced, whosever it is. *)
Listen(p) ==
    /\ serve[p].main = "listen"
    /\ serve' = [serve EXCEPT ![p].main = "serving"]
    /\ socket' = p
    /\ UNCHANGED <<engine, daemonPid, enginePid>>

(***************************************************************************)
(* A serve ends.                                                           *)
(***************************************************************************)
(* Asked over RPC or by a signal, or because the supervisor gave up. *)
Stop(p) ==
    /\ serve[p].main = "serving"
    /\ serve' = [serve EXCEPT ![p].main = "stopping"]
    /\ UNCHANGED engine /\ Files

FatalStops(p) == serve[p].sup = "gaveup" /\ Stop(p)

ReleaseFiles == daemonPid' = None /\ socket' = None /\ UNCHANGED enginePid

(* Everything drained: run returns, and the supervisor is told to stop. *)
Stopped(p) ==
    /\ serve[p].main = "stopping"
    /\ serve' = [serve EXCEPT ![p].main = "unwind"]
    /\ ReleaseFiles
    /\ UNCHANGED engine

Dies(p) == serve' = ServesAfter({p}) /\ engine' = EnginesAfter({p})

(* The watchdog: os.Exit runs no deferred stop of the supervisor. *)
ForceExit(p) ==
    /\ serve[p].main = "stopping"
    /\ Dies(p)
    /\ ReleaseFiles

Exit(p) ==
    /\ serve[p].main = "unwind"
    /\ serve[p].sup \in {"done", "gaveup"}
    /\ Dies(p)
    /\ Files

Crash(p) ==
    /\ Alive(p)
    /\ Dies(p)
    /\ Disconnect(p)

(***************************************************************************)
(* The supervisor.                                                         *)
(***************************************************************************)
SpawnEngine(p, q) ==
    /\ serve[p].sup = "spawn"
    /\ q \in NewPids
    /\ serve' = [serve EXCEPT ![p].sup = "watch", ![p].child = q]
    /\ engine' = [engine EXCEPT ![q] = [NoEngine EXCEPT !.pc = "boot", !.parent = p]]
    /\ Files

(* The goroutine has returned, and its counts with it. *)
Over == [NoServe EXCEPT !.main = "unwind", !.sup = "done"]

(* backoffAndMaybeGiveUp, with its wait, which a stop cuts short. *)
AfterLaunch(r) ==
    LET hits == IF r.backoff = MaxBackoff THEN r.hits + 1 ELSE r.hits
        next == [r EXCEPT !.child = None, !.hits = hits,
                          !.backoff = Min({@ + 1, MaxBackoff}),
                          !.flaps = Min({@ + 1, MaxBackoff + MaxHits})]
    IN IF hits >= MaxHits THEN [next EXCEPT !.sup = "gaveup"]
       ELSE IF r.main = "unwind" THEN Over
       ELSE [next EXCEPT !.sup = "spawn"]

SpawnFails(p) ==
    /\ serve[p].sup = "spawn"
    /\ serve' = [serve EXCEPT ![p] = AfterLaunch(@)]
    /\ UNCHANGED engine /\ Files

(* waitCh has the child's exit. *)
Exited(p) == ~(Alive(serve[p].child) /\ engine[serve[p].child].parent = p)

(* A child that was up for healthyUptime starts the count again. *)
Forgiven(r, healthy) ==
    IF healthy THEN [r EXCEPT !.backoff = 0, !.hits = 0, !.flaps = 0] ELSE r

ChildExitedForGood(p, healthy) ==   \* mutant
    /\ serve[p].sup = "watch" /\ Exited(p)
    /\ serve' = [serve EXCEPT ![p].sup = "done", ![p].child = None]
    /\ UNCHANGED engine /\ Files

ChildExited(p, healthy) ==
    /\ serve[p].sup = "watch" /\ Exited(p)
    /\ serve' = [serve EXCEPT ![p] = AfterLaunch(Forgiven(@, healthy))]
    /\ UNCHANGED engine /\ Files

(* The look at stopCh, in the wait or before the next spawn. *)
StopIdle(p) ==
    /\ serve[p].main = "unwind" /\ serve[p].sup = "spawn"
    /\ serve' = [serve EXCEPT ![p] = Over]
    /\ UNCHANGED engine /\ Files

(* terminateChild: SIGTERM, *)
Terminate(p) ==
    /\ serve[p].main = "unwind"
    /\ serve[p].sup = "watch"
    /\ LET c == serve[p].child
           D == IF Exited(p) THEN {} ELSE Mortal(c)
       IN /\ serve' = [ServesAfter(D) EXCEPT ![p].sup = "drain"]
          /\ engine' = IF Exited(p) THEN engine ELSE Draining(EnginesAfter(D), c)
    /\ Files

(* SIGKILL after drainTimeout, *)
KillChild(p) ==
    /\ serve[p].sup = "drain" /\ ~Exited(p)
    /\ Dies(serve[p].child)
    /\ Files

(* and the child is reaped. *)
GivesUpOnChild(p) ==   \* mutant
    /\ serve[p].sup = "drain"
    /\ serve' = [serve EXCEPT ![p] = Over]
    /\ UNCHANGED engine /\ Files
Reaped(p) ==
    /\ serve[p].sup = "drain" /\ Exited(p)
    /\ serve' = [serve EXCEPT ![p] = Over]
    /\ UNCHANGED engine /\ Files

SupervisorStep(p) ==
    \/ SpawnFails(p) \/ StopIdle(p)
    \/ Terminate(p) \/ KillChild(p) \/ Reaped(p)
    \/ \E q \in Pid : SpawnEngine(p, q)
    \/ \E healthy \in BOOLEAN : ChildExited(p, healthy)

(***************************************************************************)
(* RunEngine.                                                              *)
(***************************************************************************)
WritePid(q) ==
    /\ engine[q].pc = "boot"
    /\ engine' = [engine EXCEPT ![q].pc = "booted"]
    /\ enginePid' = q
    /\ UNCHANGED <<serve, daemonPid, socket>>

(* The watchdog compares with the parent there was at this point; the      *)
(* plane comes up, and SIGTERM is handled from now on.                     *)
RecordParent(q) ==
    /\ engine[q].pc = "booted"
    /\ engine' = [engine EXCEPT ![q].pc = "run", ![q].orig = engine[q].parent]
    /\ UNCHANGED serve /\ Files

Orphaned(q) ==
    /\ engine[q].pc = "run"
    /\ engine[q].parent # engine[q].orig
    /\ engine' = Draining(engine, q)
    /\ UNCHANGED serve /\ Files

(* The plane is down; the deferred removal of engine.pid, whosever it is.  *)
(* Nothing bounds the drain from inside.                                   *)
EngineEnds(q) ==
    /\ engine[q].pc = "drain"
    /\ Dies(q)
    /\ enginePid' = None
    /\ UNCHANGED <<daemonPid, socket>>

EngineStep(q) == WritePid(q) \/ RecordParent(q) \/ Orphaned(q)

ServeStep(p) ==
    \/ ReapEngine(p) \/ WaitedDead(p) \/ NobodyOwns(p) \/ SomeoneOwns(p) \/ Refused(p) \/ Reclaim(p)
    \/ Claim(p) \/ Listen(p)
    \/ FatalStops(p) \/ Stopped(p) \/ ForceExit(p) \/ Exit(p)

Next ==
    \E p \in Pid :
        \/ StartServe(p) \/ ServeStep(p) \/ Stop(p) \/ Crash(p)
        \/ SupervisorStep(p)
        \/ EngineStep(p) \/ EngineEnds(p)

Spec == Init /\ [][Next]_vars

(* Processes that are there run; reapStaleEngineWait ends.  An engine may  *)
(* hang in its drain, and nobody has to start or to crash.                 *)
FairSpec ==
    /\ Spec
    /\ \A p \in Pid : /\ WF_vars(ServeStep(p))
                      /\ WF_vars(SupervisorStep(p))
                      /\ WF_vars(EngineStep(p))

(***************************************************************************)
(* Properties.                                                             *)
(***************************************************************************)
MainPc == {"off", "reap", "waitdead", "probe", "ping", "claim", "listen",
           "serving", "stopping", "unwind"}
SupPc  == {"none", "spawn", "watch", "drain", "gaveup", "done"}
MaybePid == Pid \cup {None}

TypeOK ==
    /\ serve \in [Pid -> [main : MainPc, sup : SupPc, child : MaybePid,
                          old : MaybePid, backoff : 0..MaxBackoff,
                          hits : 0..MaxHits, flaps : 0..(MaxBackoff + MaxHits)]]
    /\ engine \in [Pid -> [pc : {"off", "boot", "booted", "run", "drain"},
                           parent : MaybePid \cup {InitPid}, orig : MaybePid \cup {InitPid}]]
    /\ {daemonPid, enginePid, socket} \subseteq MaybePid

(* A serve has no engine but the one its supervisor watches or drains: a   *)
(* stop that completes leaves none behind (terminateChild's "reaped, no    *)
(* orphan"), and a relaunch never adds a second one.                       *)
OnlyTheWatchedChild ==
    \A p, q \in Pid :
        engine[q].pc # "off" /\ engine[q].parent = p =>
            /\ serve[p].child = q
            /\ serve[p].sup \in {"watch", "drain"}

(* The supervisor gives up only on a crash loop: as many launches in a row *)
(* as it takes to reach the ceiling and stay there, none of them healthy.  *)
GivesUpOnCrashLoopOnly ==
    \A p \in Pid : serve[p].sup = "gaveup" => serve[p].flaps = MaxBackoff + MaxHits

(* What a supervisor is to its engines, in every state. *)
SupervisionExact == TypeOK /\ OnlyTheWatchedChild /\ GivesUpOnCrashLoopOnly

(* A starting serve never kills one that serves and can be reached, though *)
(* the pid file and the socket change hands without a lock, one file after *)
(* the other, and pids are reused.                                         *)
Starting(p) == serve[p].main \in {"reap", "ping"} /\ serve'[p].main # serve[p].main
ServingIsSpared ==
    [][\A p, q \in Pid : Starting(p) /\ serve[q].main = "serving" /\ socket = q
                           => serve'[q].main = "serving"]_vars

(* A serve that is up gets an engine, again and again however often it     *)
(* dies, or it ends; and one that is asked to stop, or whose supervisor    *)
(* gave up, ends even if its engine does not react to SIGTERM (nothing but *)
(* a serve that is up with its engine satisfies the first alternative).    *)
EngineOrEnd ==
    \A p \in Pid :
        serve[p].main \in {"serving", "stopping", "unwind"}
            ~> \/ serve[p].main = "serving" /\ ~Exited(p)
               \/ serve[p].main = "off"
=============================================================================
