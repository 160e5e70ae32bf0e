------------------------------ MODULE IndexGate ------------------------------
(***************************************************************************)
(* internal/daemon/index_concurrency.go: the gate that every index of a    *)
(* rebuild passes, so that Cap of them run at once in the whole daemon.    *)
(* A ticket is a channel in one of two queues; the release that closes it  *)
(* has already charged the slot to its owner.  Rebuilds acquire with a     *)
(* context that is never cancelled, and so does this module.               *)
(***************************************************************************)
EXTENDS Integers, FiniteSets, SequencesExt

CONSTANTS
    Task,         \* who acquires, each once
    Foreground,   \* those of them that are interactive
    Cap           \* resolveIndexConcurrency

ASSUME TaskAssumption == Foreground \subseteq Task
ASSUME CapAssumption  == Cap \in Nat \ {0}

VARIABLES
    active,     \* slots charged
    fgActive,   \* those charged to foreground tasks
    fg, bg,     \* the tickets that wait, in order
    held        \* the tasks whose Acquire returned, or will: the ticket is closed

gateVars == <<active, fgActive, fg, bg, held>>

GateInit ==
    /\ active = 0 /\ fgActive = 0
    /\ fg = <<>> /\ bg = <<>>
    /\ held = {}

reserveForForeground == IF Cap >= 2 THEN 1 ELSE 0

(* What a background task may fill while the foreground tickets q wait. *)
BgLimit(q) == IF q = <<>> THEN Cap ELSE Cap - reserveForForeground

canAdmit(t) == active < IF t \in Foreground THEN Cap ELSE BgLimit(fg)

Acquire(t) ==
    IF canAdmit(t)
      THEN /\ held' = held \cup {t}
           /\ active' = active + 1
           /\ fgActive' = fgActive + Cardinality({t} \cap Foreground)
           /\ UNCHANGED <<fg, bg>>
      ELSE /\ fg' = IF t \in Foreground THEN Append(fg, t) ELSE fg
           /\ bg' = IF t \in Foreground THEN bg ELSE Append(bg, t)
           /\ UNCHANGED <<active, fgActive, held>>

(* How many of the queue q get in below the limit, if n slots are charged. *)
Admitted(q, n, limit) == Min({Len(q), Max({limit - n, 0})})
Behind(q, n) == SubSeq(q, n + 1, Len(q))
Woken(q, n)  == ToSet(SubSeq(q, 1, n))

ReleaseOneClass(t) ==   \* mutant: background tickets wait for a background release
    LET charged == Max({active - 1, 0})
        nfg  == Admitted(fg, charged, Cap)
        nbg  == IF t \in Foreground THEN 0
                ELSE Admitted(bg, charged + nfg, BgLimit(Behind(fg, nfg)))
    IN /\ active' = charged + nfg + nbg
       /\ fgActive' = Max({fgActive - Cardinality({t} \cap Foreground), 0}) + nfg
       /\ fg' = Behind(fg, nfg) /\ bg' = Behind(bg, nbg)
       /\ held' = (held \ {t}) \cup Woken(fg, nfg) \cup Woken(bg, nbg)

ReleaseBackgroundFirst(t) ==   \* mutant
    LET charged == Max({active - 1, 0})
        nbg  == Admitted(bg, charged, Cap)
        nfg  == Admitted(fg, charged + nbg, Cap)
    IN /\ active' = charged + nfg + nbg
       /\ fgActive' = Max({fgActive - Cardinality({t} \cap Foreground), 0}) + nfg
       /\ fg' = Behind(fg, nfg) /\ bg' = Behind(bg, nbg)
       /\ held' = (held \ {t}) \cup Woken(fg, nfg) \cup Woken(bg, nbg)

(* Release, and wakeLocked: foreground tickets first. *)
Release(t) ==
    LET charged == Max({active - 1, 0})
        nfg  == Admitted(fg, charged, Cap)
        rest == Behind(fg, nfg)
        nbg  == Admitted(bg, charged + nfg, BgLimit(rest))
    IN /\ active' = charged + nfg + nbg
       /\ fgActive' = Max({fgActive - Cardinality({t} \cap Foreground), 0}) + nfg
       /\ fg' = rest
       /\ bg' = Behind(bg, nbg)
       /\ held' = (held \ {t}) \cup Woken(fg, nfg) \cup Woken(bg, nbg)

GateTypeOK ==
    /\ active \in Nat /\ fgActive \in Nat
    /\ fg \in Seq(Foreground) /\ bg \in Seq(Task \ Foreground)
    /\ held \subseteq Task

(* The counts are exact: as many slots are charged as tasks hold one, by   *)
(* class, and never more than Cap; a ticket waits in one place.            *)
GateExact ==
    /\ active = Cardinality(held) /\ active <= Cap
    /\ fgActive = Cardinality(held \cap Foreground)
    /\ IsInjective(fg \o bg)
    /\ held \cap ToSet(fg \o bg) = {}

(* No slot is idle while a ticket waits, background tickets included: the  *)
(* slot held back for the foreground is never held back from everybody.    *)
NoIdleSlot == fg \o bg # <<>> => active = Cap

(* The tickets that a task must not overtake. *)
Ahead(t) == IF t \in Foreground THEN fg ELSE fg \o bg

(* Of the tickets ahead of a task that is let in, those that go on waiting *)
(* came after it.                                                          *)
InTurn ==
    \A t \in held' \ held :
       \A u \in ToSet(Ahead(t)) \ held' :
          \E i, j \in DOMAIN Ahead(t) : i < j /\ Ahead(t)[i] = t /\ Ahead(t)[j] = u

(* Within its class nobody overtakes a ticket that waits ("fair, FIFO"),   *)
(* and a background task never gets in ahead of a foreground ticket.       *)
NoOvertaking == [][InTurn]_gateVars
=============================================================================
