------------------------------ MODULE GraphGen ------------------------------
(***************************************************************************)
(* internal/graph/genpath.go and fbwriter: the graph of one repo and ref   *)
(* on disk.  An index never overwrites the graph that is being read: it    *)
(* writes a new generation, a file graph.<gen>.fb or a directory           *)
(* graph.<gen>/ of segments, points the file "current" at it, and then     *)
(* removes generations older than the one before.                          *)
(*                                                                         *)
(* One indexer writes at a time (RepoLock sees to that) and may die        *)
(* between any two file operations.  Readers are in other processes and    *)
(* take no lock: ResidentGraph is one.                                     *)
(***************************************************************************)
EXTENDS Integers, FiniteSets, FiniteSetsExt

CONSTANTS
    MaxGen,      \* bound: generations written
    LayoutOf,    \* per generation, the layout its size asks for
    MaxDeaths    \* bound: indexers that die or give up half-way

ASSUME GenAssumption    == MaxGen \in Nat \ {0}
ASSUME DeathAssumption  == MaxDeaths \in Nat

Gen  == 1..MaxGen
Layout == {"file", "dir"}
ASSUME LayoutAssumption == LayoutOf \in [Gen -> Layout]
Flat == 0        \* the legacy graph.fb, older than every generation
Absent == -1     \* no graph at all

VARIABLES
    entry,      \* per generation, what the state directory holds of it
    pointer,    \* the generation "current" names; Flat: there is no pointer
    flat,       \* TRUE iff the legacy graph.fb exists
    writer,     \* where the indexer is, its generation, what GC has to remove
    deaths      \* bound counter

diskVars == <<entry, pointer, flat, writer, deaths>>

Missing == [is |-> "missing"]
File    == [is |-> "file"]
Dir(part) == [is |-> "dir", part |-> part]
Part == {"building", "whole", "torn"}

Idle == [pc |-> "idle", gen |-> 0, stale |-> {}]

GenInit ==
    /\ entry   = [g \in Gen |-> Missing]
    /\ pointer = Flat
    /\ flat    \in BOOLEAN
    /\ writer  = Idle
    /\ deaths  = 0

(* A generation that can be opened and read to its end. *)
Whole(g) == entry[g] \in {File, Dir("whole")}

AfterPointer == pointer + 1   \* mutant

(* The highest generation among the pointer and the entries, plus one.  An *)
(* entry counts whether or not it was finished.                            *)
NextGen == 1 + Max({pointer} \cup {g \in Gen : entry[g] # Missing})

StaleKeepsCurrent(g) == {s \in Gen : entry[s] # Missing /\ s < g}   \* mutant

(* What GCStaleGens removes: generations below the one before the current. *)
Stale(g) == {s \in Gen : entry[s] # Missing /\ s < g - 1}

(***************************************************************************)
(* The indexer.                                                            *)
(***************************************************************************)
(* NextGen, and MkdirAll for a segment set.  A file's bytes go to a        *)
(* temporary name that no reader looks at.                                 *)
BeginWrite ==
    /\ writer.pc = "idle"
    /\ NextGen \in Gen
    /\ writer' = [pc |-> LayoutOf[NextGen], gen |-> NextGen, stale |-> {}]
    /\ entry' = IF LayoutOf[NextGen] = "dir"
                  THEN [entry EXCEPT ![NextGen] = Dir("building")]
                  ELSE entry
    /\ UNCHANGED <<pointer, flat, deaths>>

(* The file is renamed into place; or the manifest, after every segment. *)
FinishWrite ==
    /\ writer.pc \in Layout
    /\ entry'  = [entry EXCEPT ![writer.gen] = IF writer.pc = "dir"
                                                 THEN Dir("whole") ELSE File]
    /\ writer' = [writer EXCEPT !.pc = "flip"]
    /\ UNCHANGED <<pointer, flat, deaths>>

(* GC's loop, until nothing is left of what its ReadDir listed. *)
Sweeping(stale) ==
    IF stale = {} THEN Idle
    ELSE [pc |-> "sweep", gen |-> writer.gen, stale |-> stale]

(* flipCurrentPointer, and GC's ReadDir. *)
FlipPointer ==
    /\ writer.pc = "flip"
    /\ pointer' = writer.gen
    /\ writer' = Sweeping(Stale(writer.gen))
    /\ UNCHANGED <<entry, flat, deaths>>

(* GC unlinks a stale file, or removes a stale directory piece by piece. *)
RemoveStale(s) ==
    /\ writer.pc = "sweep"
    /\ s \in writer.stale
    /\ IF entry[s].is = "dir" /\ entry[s].part # "torn"
         THEN /\ entry' = [entry EXCEPT ![s] = Dir("torn")]
              /\ UNCHANGED writer
         ELSE /\ entry' = [entry EXCEPT ![s] = Missing]
              /\ writer' = Sweeping(writer.stale \ {s})
    /\ UNCHANGED <<pointer, flat, deaths>>

(* An error of a removal is swallowed; the next index tries again. *)
KeepStale(s) ==
    /\ writer.pc = "sweep"
    /\ s \in writer.stale
    /\ writer' = Sweeping(writer.stale \ {s})
    /\ UNCHANGED <<entry, pointer, flat, deaths>>

(* The indexer dies, or an error makes it return before the flip. *)
DieWriting ==
    /\ writer.pc # "idle"
    /\ deaths < MaxDeaths
    /\ writer' = Idle
    /\ deaths' = deaths + 1
    /\ UNCHANGED <<entry, pointer, flat>>

WriterStep ==
    \/ BeginWrite
    \/ FinishWrite
    \/ FlipPointer
    \/ \E s \in Gen : RemoveStale(s) \/ KeepStale(s)
    \/ DieWriting

GenSpec == GenInit /\ [][WriterStep]_diskVars

(***************************************************************************)
(* What a reader finds that read the pointer as p and looks for p now:     *)
(* CurrentGraphDescriptor's stat and manifest, then the open.  A missing   *)
(* generation means the legacy graph or none; one that disappears between  *)
(* the stat and the open, or whose directory is torn, an error.            *)
(***************************************************************************)
Fallback == IF flat THEN Flat ELSE Absent
Opens(p) == IF p \in Gen /\ Whole(p)            THEN {p}
            ELSE IF p \in Gen /\ entry[p].is = "dir" THEN {Absent}
            ELSE IF p = Flat                    THEN {Fallback}
            ELSE {Fallback, Absent}

GenTypeOK ==
    /\ entry \in [Gen -> {Missing, File} \cup {Dir(part) : part \in Part}]
    /\ pointer \in {Flat} \cup Gen
    /\ flat \in BOOLEAN
    /\ writer \in [pc : {"idle", "file", "dir", "flip", "sweep"},
                   gen : 0..MaxGen, stale : SUBSET Gen]
    /\ deaths \in 0..MaxDeaths

(* "current" never names a generation that is missing, unfinished or       *)
(* partly removed, wherever an indexer dies: WriteGenGraph and             *)
(* writeSegments flip the pointer last, and GC stops short of it.          *)
PointerWhole == pointer \in Gen => Whole(pointer)

(* The generation "current" names only grows, across deaths that leave     *)
(* unfinished or unpublished generations behind: NextGen's promise that a  *)
(* fresh generation is never older than one a reader has seen.             *)
PointerGrows == [][pointer' >= pointer]_pointer

(* A generation a reader may have open is not replaced under its name:     *)
(* finished bytes are never written again, only removed, which is what     *)
(* lets readers keep them mapped.                                          *)
NeverRewritten == [][\A g \in Gen : Whole(g) => entry'[g] \in {entry[g], Missing, Dir("torn")}]_entry

(* Published graphs stay as they are, under a pointer that goes forward. *)
PublishedStay == PointerGrows /\ NeverRewritten
=============================================================================
