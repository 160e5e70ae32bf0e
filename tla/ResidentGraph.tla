---------------------------- MODULE ResidentGraph ----------------------------
(***************************************************************************)
(* internal/mcp, state.go and maphandle.go: the graph of one repo as the   *)
(* MCP server keeps it, memory-mapped, while indexers publish generations  *)
(* (GraphGen), other calls reload it, idle sweeps evict and revive it, and *)
(* handlers search it holding no lock but the one around each read of the  *)
(* mapping.  The server serves rows from the mapping (GRAFEL_SERVE_FROM_   *)
(* MMAP, the default): a document has no rows of its own.                  *)
(*                                                                         *)
(* s.mu is held by the loader from its first step to its last, and for     *)
(* one step by everything else that needs it.  A reader mutex is held      *)
(* across a read, so that an unmap could come in the middle of one.        *)
(***************************************************************************)
EXTENDS GraphGen

CONSTANTS
    Handler,     \* tool calls in flight
    Searcher,    \* those that search; the others only want the group
    MaxRec,      \* bound: LoadedRepo objects in use
    MaxMap,      \* bound: MapHandle objects in use
    None,        \* no handler
    MaxEvicts    \* bound: evictions

ASSUME HandlerAssumption == Searcher \subseteq Handler /\ None \notin Handler
ASSUME BudgetAssumption == {MaxRec, MaxMap, MaxEvicts} \subseteq Nat

Rec == 1..MaxRec
Map == 1..MaxMap
NoRec == 0
NoMap == 0
NoHash == -2
NoIndex == [built |-> FALSE, gen |-> Absent, label |-> NoMap]

VARIABLES
    repo,       \* the LoadedRepo objects
    map,        \* per MapHandle, the generation it maps, or Unmapped
    group,      \* where the group is: in groups, a shell in evicted, or nil there
    loader,     \* reloadAllLocked: its step and its local variables
    readerMu,   \* the handler inside each record's readerMu
    handler,    \* what each handler is doing and has captured
    gate,       \* the handler inside the group's revive gate
    down,       \* TRUE once Close ran
    evicts      \* bound counter

vars == <<diskVars, repo, map, group, loader, readerMu, handler, gate, down,
          evicts>>

Path  == {Absent, Flat} \cup Gen
Hash  == {NoHash, Flat} \cup Gen
Index == [built : BOOLEAN, gen : Path, label : Map \cup {NoMap}]

(* A LoadedRepo.  mtime stands for the graph whose mtime it is; root is    *)
(* the record whose mutex rmu() returns; label is LabelIndex.handle.       *)
Fresh(path, root) ==
    [doc |-> Absent, mtime |-> Absent, hash |-> NoHash, file |-> path,
     label |-> NoMap, handle |-> NoMap, bm25 |-> NoIndex, root |-> root]

Unmapped == -3
NoHandler == [pc |-> "idle", rec |-> NoRec, idx |-> NoIndex]
NoLoader  == [pc |-> "idle", saw |-> Flat, path |-> Absent, hash |-> NoHash,
              new |-> NoMap]

Init ==
    /\ GenInit
    /\ repo     = [r \in Rec |-> Fresh(Absent, r)]
    /\ map      = [m \in Map |-> Unmapped]
    /\ group    = [at |-> "resident", rec |-> NoRec]
    /\ loader   = NoLoader
    /\ readerMu = [r \in Rec |-> None]
    /\ handler  = [h \in Handler |-> NoHandler]
    /\ gate     = None
    /\ down     = FALSE
    /\ evicts   = 0

(* The mapping is there; what a reader tests, by a nil check and           *)
(* readRetired, which is set in the critical section that unmaps.          *)
Open(m) == m # NoMap /\ map[m] # Unmapped
Rows(m) == IF m = NoMap THEN Absent ELSE map[m]

(* s.mu is free. *)
Unlocked == loader.pc = "idle"
rmuFree(r) == readerMu[repo[r].root] = None
(* idxMu is held only while a handler builds an index of the record. *)
idxMuFree(r) == \A h \in Handler : ~(handler[h].pc = "building" /\ handler[h].rec = r)

(* Objects are recycled once nothing refers to them; what only the handler *)
(* h refers to is cleared when it leaves.                                  *)
Reached(H) == ({group.rec} \cup {handler[h].rec : h \in H}) \ {NoRec}
FreeRecs   == Rec \ (Reached(Handler) \cup {repo[r].root : r \in Reached(Handler)})
Collect(h) == repo' = [r \in Rec |-> IF r \in Reached(Handler \ {h})
                                       THEN repo[r] ELSE Fresh(Absent, r)]
Holds(r) == {repo[r].handle, repo[r].label, repo[r].bm25.label}
FreeMaps == {m \in Map : map[m] = Unmapped}
            \ ((UNION {Holds(r) : r \in Rec}) \cup {handler[h].idx.label : h \in Handler})

(***************************************************************************)
(* reloadAllLocked, for the group's one repo.                              *)
(***************************************************************************)
(* The pointer is read when the graph is looked for, again when the        *)
(* document is loaded, and again when the mapping is opened.               *)
ReadPointer(from, to) ==
    /\ loader.pc = from
    /\ loader' = [loader EXCEPT !.pc = to, !.saw = pointer]

Elsewhere == UNCHANGED <<group, handler, gate, down, evicts, readerMu>>

(* An evicted group is skipped: nothing to do. *)
BeginReload ==
    /\ ~down
    /\ group.at = "resident"
    /\ ReadPointer("idle", "find")
    /\ UNCHANGED <<diskVars, repo, map>> /\ Elsewhere

PinnedFinds ==   \* mutant
    LET pinned == IF group.rec = NoRec THEN Absent ELSE repo[group.rec].file
    IN IF pinned \in Gen /\ Whole(pinned) THEN {pinned} ELSE Opens(loader.saw)

(* findGraphFileInDir, which takes the flat path if the manifest is bad. *)
Finds == Opens(loader.saw) \cup
         (IF loader.saw \in Gen /\ entry[loader.saw] = Dir("torn")
            THEN {loader.saw, Fallback} ELSE {})

(* hashGraphFile, which cannot hash a directory. *)
HashOf(p) == IF p \in Gen /\ entry[p] # File THEN NoHash ELSE p

EndReload == loader' = NoLoader

(* The cached path misses: look in every ref. *)
MissPinned ==
    /\ loader.pc = "find"
    /\ group.rec # NoRec
    /\ Absent \in Finds
    /\ ReadPointer("find", "anyref")
    /\ UNCHANGED <<diskVars, repo, map>> /\ Elsewhere

(* Nothing there: loadErr is set and the old graph stays. *)
MissEverywhere ==
    /\ loader.pc = "anyref" \/ (loader.pc = "find" /\ group.rec = NoRec)
    /\ Absent \in Finds
    /\ EndReload
    /\ UNCHANGED <<diskVars, repo, map>> /\ Elsewhere

(* The graph is found; it is left alone if its path and mtime are those    *)
(* the record was loaded from, or if its bytes are.                        *)
FindGraph(p) ==
    LET r == IF group.rec = NoRec THEN Min(FreeRecs) ELSE group.rec
        old == IF group.rec = NoRec THEN Fresh(p, r) ELSE repo[r]
        same == old.file = p /\ old.mtime = p /\ old.doc # Absent
        known == HashOf(p) # NoHash /\ HashOf(p) = old.hash
        found == [old EXCEPT !.file = p]
    IN /\ loader.pc \in {"find", "anyref"}
       /\ p \in Finds \ {Absent}
       /\ group.rec = NoRec => FreeRecs # {}
       /\ group' = [group EXCEPT !.rec = r]
       /\ IF same THEN /\ EndReload
                       /\ repo' = [repo EXCEPT ![r] = found]
          ELSE IF known THEN /\ EndReload
                             /\ repo' = [repo EXCEPT ![r] = [found EXCEPT !.mtime = p]]
          ELSE /\ loader' = [NoLoader EXCEPT !.pc = "doc", !.path = p, !.hash = HashOf(p)]
               /\ repo' = [repo EXCEPT ![r] = found]
       /\ UNCHANGED <<diskVars, map, handler, gate, down, evicts, readerMu>>

ReadDocPointer ==
    /\ ReadPointer("doc", "load")
    /\ UNCHANGED <<diskVars, repo, map>> /\ Elsewhere

LoadDocStatsAfter(g) ==   \* mutant
    /\ loader.pc = "load"
    /\ g \in Opens(loader.saw) \ {Absent}
    /\ loader' = [NoLoader EXCEPT !.pc = "reader"]
    /\ repo' = [repo EXCEPT ![group.rec].doc = g,
                            ![group.rec].file = pointer,
                            ![group.rec].mtime = pointer,
                            ![group.rec].hash = HashOf(pointer)]
    /\ UNCHANGED <<diskVars, map>> /\ Elsewhere

(* readDocumentFromDir. *)
LoadDoc(g) ==
    /\ loader.pc = "load"
    /\ g \in Opens(loader.saw)
    /\ IF g = Absent
         THEN /\ EndReload
              /\ UNCHANGED repo
         ELSE /\ loader' = [NoLoader EXCEPT !.pc = "reader"]
              /\ repo' = [repo EXCEPT ![group.rec].doc = g,
                                      ![group.rec].mtime = loader.path,
                                      ![group.rec].hash = loader.hash]
    /\ UNCHANGED <<diskVars, map>> /\ Elsewhere

ReadMapPointer ==
    /\ ReadPointer("reader", "map")
    /\ UNCHANGED <<diskVars, repo, map>> /\ Elsewhere

(* ReaderForDir (want of descriptors or memory is left out); the label     *)
(* index over what it opened, which handlers see from now on.              *)
OpenReader(g) ==
    /\ loader.pc = "map"
    /\ g \in Opens(loader.saw)
    /\ rmuFree(group.rec) /\ (g # Absent => FreeMaps # {})
    /\ LET m == IF g = Absent THEN NoMap ELSE Min(FreeMaps)
       IN /\ map' = IF m = NoMap THEN map ELSE [map EXCEPT ![m] = g]
          /\ loader' = [NoLoader EXCEPT !.pc = "reset", !.new = m]
          /\ repo' = [repo EXCEPT ![group.rec].label = m]
    /\ UNCHANGED diskVars /\ Elsewhere

(* resetIndexes. *)
ResetIndexes ==
    /\ loader.pc = "reset"
    /\ idxMuFree(group.rec)
    /\ repo' = [repo EXCEPT ![group.rec].bm25 = NoIndex]
    /\ loader' = [loader EXCEPT !.pc = "publish"]
    /\ UNCHANGED <<diskVars, map>> /\ Elsewhere

RetireNothing(m) == map   \* mutant

(* retire: nobody borrows in production, so it unmaps at once. *)
Retire(m) == IF m = NoMap THEN map ELSE [map EXCEPT ![m] = Unmapped]

(* publishHandle. *)
PublishHandle ==
    /\ loader.pc = "publish"
    /\ rmuFree(group.rec)
    /\ map' = Retire(repo[group.rec].handle)
    /\ repo' = [repo EXCEPT ![group.rec].handle = loader.new]
    /\ EndReload
    /\ UNCHANGED <<diskVars>> /\ Elsewhere

LoaderStep ==
    \/ BeginReload \/ MissPinned \/ MissEverywhere \/ ReadDocPointer
    \/ ReadMapPointer \/ ResetIndexes \/ PublishHandle
    \/ \E p \in Path : FindGraph(p) \/ LoadDoc(p) \/ OpenReader(p)

(***************************************************************************)
(* Evictions and Close, under s.mu.                                        *)
(***************************************************************************)
CanEvict == /\ Unlocked /\ ~down
            /\ group.at = "resident" /\ group.rec # NoRec
            /\ evicts < MaxEvicts
            /\ evicts' = evicts + 1

ShellOfItsOwn(r) ==   \* mutant
    [repo[r] EXCEPT !.label = NoMap, !.bm25 = NoIndex, !.root = Min(FreeRecs)]

(* coldShellRepo: the shell keeps the mapping and the mutex around it. *)
coldShellRepo(r) == [repo[r] EXCEPT !.label = NoMap, !.bm25 = NoIndex]

EvictKeepingReader ==
    /\ CanEvict /\ FreeRecs # {}
    /\ LET shell == Min(FreeRecs)
       IN /\ repo' = [repo EXCEPT ![shell] = coldShellRepo(group.rec)]
          /\ group' = [at |-> "cold", rec |-> shell]
    /\ UNCHANGED <<diskVars, map, loader, readerMu, handler, gate, down>>

(* retireHandle, of a record that stays where it is. *)
retireHandle(r) ==
    /\ rmuFree(r)
    /\ map' = Retire(repo[r].handle)
    /\ repo' = [repo EXCEPT ![r].handle = NoMap]

(* The record, its handle retired, stays with whoever still has it. *)
EvictFully ==
    /\ CanEvict
    /\ rmuFree(group.rec)
    /\ map' = Retire(repo[group.rec].handle)
    /\ repo' = [repo EXCEPT ![group.rec] =
                  IF \E h \in Handler : handler[h].rec = group.rec
                    THEN [@ EXCEPT !.handle = NoMap] ELSE Fresh(Absent, group.rec)]
    /\ group' = [at |-> "gone", rec |-> NoRec]
    /\ UNCHANGED <<diskVars, loader, readerMu, handler, gate, down>>

(* Close drains the resident record and the shell alike. *)
Close ==
    /\ Unlocked /\ ~down
    /\ down' = TRUE
    /\ IF group.rec = NoRec THEN UNCHANGED <<map, repo>> ELSE retireHandle(group.rec)
    /\ UNCHANGED <<diskVars, group, loader, readerMu, handler, gate, evicts>>

(***************************************************************************)
(* Tool handlers.                                                          *)
(***************************************************************************)
Goto(h, pc) == handler' = [handler EXCEPT ![h].pc = pc]
Leave(h) == handler' = [handler EXCEPT ![h] = NoHandler] /\ Collect(h)
Lock(h)   == readerMu' = [readerMu EXCEPT ![repo[handler[h].rec].root] = h]
Unlock(h) == readerMu' = [readerMu EXCEPT ![repo[handler[h].rec].root] = None]
OnlyHandler == UNCHANGED <<diskVars, map, loader, down, evicts>>

(* Group, warm: the handler keeps the record and drops s.mu. *)
Lookup(h) ==
    /\ h \in Searcher
    /\ handler[h].pc = "idle" /\ ~down
    /\ Unlocked
    /\ group.at = "resident" /\ group.rec # NoRec
    /\ handler' = [handler EXCEPT ![h] = [NoHandler EXCEPT !.pc = "have", !.rec = group.rec]]
    /\ UNCHANGED <<repo, group, readerMu, gate>> /\ OnlyHandler

(* Group after a full eviction: un-gate the group and reload it. *)
ReviveFully ==
    /\ ~down
    /\ group.at = "gone"
    /\ gate = None
    /\ group' = [at |-> "resident", rec |-> NoRec]
    /\ ReadPointer("idle", "find")
    /\ UNCHANGED <<diskVars, repo, map, readerMu, handler, gate, down, evicts>>

(* Group on a shell: the handler takes the revive gate, and rebuilds the   *)
(* label index outside s.mu, reading the mapping if it is still there.     *)
BeginRevive(h) ==
    /\ handler[h].pc = "idle" /\ ~down
    /\ Unlocked
    /\ group.at = "cold"
    /\ gate = None
    /\ gate' = h
    /\ handler' = [handler EXCEPT ![h] = [NoHandler EXCEPT !.pc = "revive", !.rec = group.rec]]
    /\ UNCHANGED <<repo, group, readerMu>> /\ OnlyHandler

Rematerialize(h) ==
    /\ handler[h].pc = "revive"
    /\ rmuFree(handler[h].rec)
    /\ IF repo[handler[h].rec].handle # NoMap
         THEN Goto(h, "reviving") /\ Lock(h)
         ELSE Goto(h, "revived") /\ UNCHANGED readerMu
    /\ UNCHANGED <<repo, group, gate>> /\ OnlyHandler

EndRematerialize(h) ==
    /\ handler[h].pc = "reviving"
    /\ repo' = [repo EXCEPT ![handler[h].rec].label = repo[handler[h].rec].handle]
    /\ Goto(h, "revived") /\ Unlock(h)
    /\ UNCHANGED <<group, gate>> /\ OnlyHandler

Revived(h) ==
    /\ handler[h].pc = "revived"
    /\ Unlocked
    /\ group' = [group EXCEPT !.at = "resident"]
    /\ gate' = None
    /\ IF h \in Searcher THEN Goto(h, "have") /\ UNCHANGED repo
                         ELSE Leave(h)
    /\ UNCHANGED readerMu /\ OnlyHandler

(* getBM25, already built: the handler keeps the index. *)
UseIndex(h) ==
    /\ handler[h].pc = "have"
    /\ idxMuFree(handler[h].rec)
    /\ repo[handler[h].rec].bm25.built
    /\ handler' = [handler EXCEPT ![h].pc = "resolve", ![h].idx = repo[handler[h].rec].bm25]
    /\ UNCHANGED <<repo, group, readerMu, gate>> /\ OnlyHandler

(* getBM25, from the mapping: readerMu is held for the whole scan. *)
BuildIndex(h) ==
    /\ handler[h].pc = "have"
    /\ idxMuFree(handler[h].rec)
    /\ ~repo[handler[h].rec].bm25.built
    /\ rmuFree(handler[h].rec)
    /\ Open(repo[handler[h].rec].handle)
    /\ Goto(h, "building") /\ Lock(h)
    /\ UNCHANGED <<repo, group, gate>> /\ OnlyHandler

(* Its resolver captures the label index there is at the end of the scan. *)
IndexOver(r) == [built |-> TRUE, gen |-> Rows(repo[r].handle), label |-> repo[r].label]

EndBuild(h) ==
    LET r == handler[h].rec
    IN /\ handler[h].pc = "building"
       /\ repo' = [repo EXCEPT ![r].bm25 = IndexOver(r)]
       /\ handler' = [handler EXCEPT ![h].pc = "resolve", ![h].idx = IndexOver(r)]
       /\ Unlock(h)
       /\ UNCHANGED <<group, gate>> /\ OnlyHandler

(* getBM25 without a mapping: an index of the document's rows, of which    *)
(* there are none.                                                         *)
BuildEmpty(h) ==
    LET r == handler[h].rec
    IN /\ handler[h].pc = "have"
       /\ idxMuFree(r)
       /\ ~repo[r].bm25.built
       /\ rmuFree(r)
       /\ ~Open(repo[r].handle)
       /\ repo' = [repo EXCEPT ![r].bm25 = [NoIndex EXCEPT !.built = TRUE]]
       /\ Goto(h, "resolve")
       /\ UNCHANGED <<group, readerMu, gate>> /\ OnlyHandler

(* LabelIndex.at for a ranked position; nothing if the mapping retired. *)
Resolve(h) ==
    LET idx == handler[h].idx
    IN /\ handler[h].pc = "resolve"
       /\ rmuFree(handler[h].rec)
       /\ IF Open(idx.label)
            THEN Goto(h, "reading") /\ Lock(h) /\ UNCHANGED repo
            ELSE Leave(h) /\ UNCHANGED readerMu
       /\ UNCHANGED <<group, gate>> /\ OnlyHandler

EndRead(h) ==
    /\ handler[h].pc = "reading"
    /\ Leave(h)
    /\ Unlock(h)
    /\ UNCHANGED <<group, gate>> /\ OnlyHandler

HandlerStep(h) ==
    \/ Lookup(h) \/ BeginRevive(h) \/ Rematerialize(h) \/ EndRematerialize(h)
    \/ Revived(h) \/ UseIndex(h) \/ BuildIndex(h) \/ EndBuild(h)
    \/ BuildEmpty(h) \/ Resolve(h) \/ EndRead(h)

Next ==
    \/ WriterStep /\ UNCHANGED <<repo, map, group, loader, readerMu, handler,
                                 gate, down, evicts>>
    \/ LoaderStep \/ ReviveFully
    \/ EvictKeepingReader \/ EvictFully \/ Close
    \/ \E h \in Handler : HandlerStep(h)

Spec == Init /\ [][Next]_vars

(* Tool calls keep coming and each reloads first (reloadBeforeCall); a     *)
(* handler that entered finishes.                                          *)
FairSpec ==
    /\ Spec
    /\ WF_vars(LoaderStep)
    /\ \A h \in Handler :
         WF_vars(handler[h].pc # "idle" /\ HandlerStep(h))

(***************************************************************************)
(* Properties.                                                             *)
(***************************************************************************)
TypeOK ==
    /\ GenTypeOK
    /\ repo \in [Rec -> [doc : Path, mtime : Path, hash : Hash, file : Path,
                         label : Map \cup {NoMap}, handle : Map \cup {NoMap},
                         bm25 : Index, root : Rec]]
    /\ map \in [Map -> {Unmapped, Flat} \cup Gen]
    /\ group \in [at : {"resident", "cold", "gone"}, rec : Rec \cup {NoRec}]
    /\ loader \in [pc : {"idle", "find", "anyref", "doc", "load", "reader",
                         "map", "reset", "publish"},
                   saw : Path, path : Path, hash : Hash, new : Map \cup {NoMap}]
    /\ readerMu \in [Rec -> Handler \cup {None}]
    /\ handler \in [Handler -> [pc : {"idle", "have", "revive", "reviving", "revived",
                                    "building", "resolve", "reading"},
                                rec : Rec \cup {NoRec}, idx : Index]]
    /\ gate \in Handler \cup {None}
    /\ down \in BOOLEAN
    /\ evicts \in 0..MaxEvicts

(* No handler reads a mapping after it was unmapped, whichever generation  *)
(* of the record it holds: the records that share a mapping share the      *)
(* mutex (coldShellRepo), an index checks that its mapping has not retired *)
(* (LabelIndex.at), and an unmap waits for the mutex.                      *)
NoReadAfterUnmap ==
    \A h \in Handler :
        /\ handler[h].pc \in {"building", "reviving"} => Open(repo[handler[h].rec].handle)
        /\ handler[h].pc = "reading" => Open(handler[h].idx.label)

(* Every mapping that is open is the one the group serves from, or is      *)
(* about to be: none is forgotten by a reload, an eviction, a revive or    *)
(* Close, however they interleave with handlers.                           *)
NoMappingForgotten ==
    {m \in Map : Open(m)} \subseteq
        {loader.new} \cup (IF group.rec = NoRec THEN {} ELSE {repo[group.rec].handle})

(* A reader that read the pointer finds that generation whole unless the   *)
(* pointer has moved past its successor since: one publication may overtake *)
(* a reload between its reading the pointer and its opening the graph.     *)
OneOvertakingIsSafe ==
    loader.pc \in {"find", "anyref", "load", "map"} /\ loader.saw \in Gen
        /\ pointer <= loader.saw + 1
    => Whole(loader.saw)

(* The record a reload would leave alone. *)
Settled(r) ==
    /\ Unlocked /\ group.at = "resident" /\ group.rec = r /\ ~down
    /\ repo[r].doc # Absent /\ repo[r].file = pointer
    /\ \/ repo[r].mtime = pointer
       \/ repo[r].hash = HashOf(pointer) /\ HashOf(pointer) # NoHash

(* The path, mtime and hash that let a reload skip the parse are evidence  *)
(* for everything it keeps: document, mapping and label index are then all *)
(* of the current generation, although a reload resolves "current" three   *)
(* times while indexers move it.                                           *)
NothingStaleIsSkipped ==
    \A r \in Rec : Settled(r) =>
        /\ repo[r].doc = pointer
        /\ Rows(repo[r].handle) = pointer
        /\ repo[r].label = repo[r].handle

(* What a reload finds is there, and what it leaves alone is current. *)
ReloadSeesWhatIs == TypeOK /\ PointerWhole /\ NothingStaleIsSkipped

(* A search resolves the positions its index ranked against the graph the  *)
(* index was built from ("the resolver stays byte-consistent with the      *)
(* graph.fb this index was built from").                                   *)
SearchOfOneGraph ==
    \A h \in Handler :
        handler[h].pc = "reading" => handler[h].idx.gen = Rows(handler[h].idx.label)

(* Once indexers stop, a resident group comes to serve what they published *)
(* last, and keeps serving it.                                             *)
ServedFresh ==
    <>[](\/ down \/ pointer = Flat \/ group.at # "resident"
         \/ /\ group.rec # NoRec
            /\ repo[group.rec].doc = pointer
            /\ Rows(repo[group.rec].handle) = pointer)
=============================================================================
