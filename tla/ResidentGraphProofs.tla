------------------------- MODULE ResidentGraphProofs -------------------------
(***************************************************************************)
(* The server only reads: beside any number of handlers, records, mappings *)
(* and evictions the generations on disk are those of GraphGen, so that    *)
(* what GraphGenProofs shows of them holds of the composition.             *)
(*                                                                         *)
(* What the server itself promises follows from an invariant in two parts. *)
(* MapInv: every mapping that is open is the group's, and whatever refers  *)
(* to it is locked by the group's mutex, so that to retire it under that   *)
(* mutex is to retire it unread.  FreshInv: nothing the server has seen is *)
(* ahead of the pointer, so that a record stamped with the generation that *)
(* is current now cannot have taken its parts from another one.            *)
(***************************************************************************)
EXTENDS ResidentGraph, GraphGenProofs

(* A step of the composition is one of the indexer or leaves the disk as   *)
(* it is.                                                                  *)
LEMMA OnlyTheWriterWrites == [Next]_vars => [WriterStep]_diskVars
<1> SUFFICES ASSUME [Next]_vars PROVE WriterStep \/ UNCHANGED diskVars
  OBVIOUS
<1>1. ASSUME LoaderStep PROVE UNCHANGED diskVars
  <2>1. ASSUME NEW p \in Path, FindGraph(p) \/ LoadDoc(p) \/ OpenReader(p)
        PROVE  UNCHANGED diskVars
    BY <2>1 DEF FindGraph, LoadDoc, OpenReader
  <2>2. ASSUME \/ BeginReload \/ MissPinned \/ MissEverywhere \/ ReadDocPointer
               \/ ReadMapPointer \/ ResetIndexes \/ PublishHandle
        PROVE  UNCHANGED diskVars
    BY <2>2, Zenon DEF BeginReload, MissPinned, MissEverywhere, ReadDocPointer,
                       ReadMapPointer, ResetIndexes, PublishHandle
  <2> QED BY <1>1, <2>1, <2>2 DEF LoaderStep
<1>2. ASSUME NEW h \in Handler, HandlerStep(h) PROVE UNCHANGED diskVars
  BY <1>2 DEF HandlerStep, Lookup, BeginRevive, Rematerialize,
              EndRematerialize, Revived, UseIndex, BuildIndex,
              EndBuild, BuildEmpty, Resolve, EndRead, OnlyHandler
<1>3. ASSUME ReviveFully \/ EvictKeepingReader \/ EvictFully \/ Close
      PROVE  UNCHANGED diskVars
  BY <1>3 DEF ReviveFully, EvictKeepingReader, EvictFully, Close
<1>4. ASSUME UNCHANGED vars PROVE UNCHANGED diskVars
  BY <1>4 DEF vars
<1> QED BY <1>1, <1>2, <1>3, <1>4 DEF Next

(* Whatever the server does, its view of the disk is a run of GraphGen.    *)
THEOREM DiskIsGraphGen == Spec => GenSpec
<1>1. Init => GenInit
  BY DEF Init
<1> QED BY <1>1, OnlyTheWriterWrites, PTL DEF Spec, GenSpec

(* While the server serves, published graphs stay as they are and the      *)
(* pointer goes forward, for every number of handlers and mappings.        *)
THEOREM PublishedBesideReaders == Spec => PublishedStay
BY DiskIsGraphGen, Published, PTL

(* The server never finds "current" naming a graph that is not whole.      *)
THEOREM WholeBesideReaders == Spec => []PointerWhole
BY DiskIsGraphGen, PublishedWhole, PTL

-----------------------------------------------------------------------------
(* The mappings.  The loader works on the resident group's record; *)
LoaderInv ==
    /\ loader.pc # "idle" => group.at = "resident" /\ ~down
    /\ loader.pc \in {"doc", "load", "reader", "map", "reset", "publish"} => group.rec # NoRec
    /\ loader.pc \notin {"reset", "publish"} => loader.new = NoMap
    /\ group.at = "cold" => group.rec # NoRec
    /\ group.at = "gone" => group.rec = NoRec

(* a handler has a record, the one that revives has the group's; *)
HandlerInv ==
    \A h \in Handler :
        /\ handler[h].pc = "idle" => handler[h].rec = NoRec /\ handler[h].idx = NoIndex
        /\ handler[h].pc # "idle" => handler[h].rec # NoRec
        /\ handler[h].pc \in {"revive", "reviving", "revived"} =>
              gate = h /\ group.at = "cold" /\ group.rec = handler[h].rec

(* one that reads has the mutex of its record; *)
MutexInv ==
    \A h \in Handler : handler[h].pc \in {"building", "reviving", "reading"} =>
        readerMu[repo[handler[h].rec].root] = h

(* whatever refers to a mapping that is open is locked by the same mutex;  *)
Uses(r, m) ==
    \/ m \in Holds(r)
    \/ \E h \in Handler : handler[h].rec = r /\ handler[h].idx.label = m
    \/ r = group.rec /\ loader.new = m

OneMutex ==
    \A m \in Map : Open(m) =>
        \A r, q \in Rec : Uses(r, m) /\ Uses(q, m) => repo[r].root = repo[q].root

(* and what the group serves from is open, and not what it will serve from *)
(* next.                                                                   *)
ServedOpen ==
    /\ group.rec # NoRec /\ repo[group.rec].handle # NoMap => Open(repo[group.rec].handle)
    /\ loader.new # NoMap => Open(loader.new) /\ repo[group.rec].handle # loader.new

MapInv == LoaderInv /\ HandlerInv /\ MutexInv /\ OneMutex /\ ServedOpen
          /\ NoReadAfterUnmap /\ NoMappingForgotten

-----------------------------------------------------------------------------
(* Overtaking.  What a loader has read of the pointer is not ahead of it,  *)
(* and GC is two behind.                                                   *)
SeenBehind == loader.pc \in {"find", "anyref", "load", "map"} => loader.saw <= pointer

(* A record is not ahead of the pointer either, and neither is what the    *)
(* loader is about to put into it.                                         *)
Behind(p) == p <= pointer /\ (p = Flat => flat)

RecordBehind ==
    /\ group.rec # NoRec => /\ Behind(repo[group.rec].mtime)
                            /\ Behind(repo[group.rec].hash)
    /\ loader.pc \in {"doc", "load"} => /\ loader.path \in {Flat} \cup Gen
                                        /\ Behind(loader.path)
                                        /\ loader.hash \in {loader.path, NoHash}
    /\ loader.pc = "load" => loader.path <= loader.saw

(* A record of the generation that is current has it in its document, and, *)
(* as far as the loader is, in its mapping and in its label index.         *)
Current(r) == repo[r].mtime = pointer \/ repo[r].hash = pointer

EvidenceInv ==
    group.rec # NoRec /\ ~down /\ Current(group.rec) =>
        LET lr == repo[group.rec] IN
        /\ lr.doc = pointer
        /\ loader.pc \in {"idle", "find", "anyref", "doc", "load"} =>
             /\ Rows(lr.handle) = pointer
             /\ group.at = "resident" => lr.label = lr.handle
        /\ loader.pc = "map" => loader.saw = pointer
        /\ loader.pc \in {"reset", "publish"} =>
             Rows(loader.new) = pointer /\ lr.label = loader.new

(* A shell has no label index until one is built over its mapping. *)
ShellInv ==
    group.at = "cold" /\ ~down =>
        /\ repo[group.rec].label \in {NoMap, repo[group.rec].handle}
        /\ \A h \in Handler : handler[h].pc = "revived" =>
              repo[group.rec].label = repo[group.rec].handle

FreshInv == SeenBehind /\ OneOvertakingIsSafe /\ RecordBehind /\ EvidenceInv /\ ShellInv

RInv == GInv /\ TypeOK /\ MapInv /\ FreshInv

-----------------------------------------------------------------------------
(* Types.                                                                  *)
Loaded == [doc : Path, mtime : Path, hash : Hash, file : Path,
           label : Map \cup {NoMap}, handle : Map \cup {NoMap},
           bm25 : Index, root : Rec]
Loading == [pc : {"idle", "find", "anyref", "doc", "load", "reader",
                  "map", "reset", "publish"},
            saw : Path, path : Path, hash : Hash, new : Map \cup {NoMap}]
Handling == [pc : {"idle", "have", "revive", "reviving", "revived",
                   "building", "resolve", "reading"},
             rec : Rec \cup {NoRec}, idx : Index]
Grouped == [at : {"resident", "cold", "gone"}, rec : Rec \cup {NoRec}]

RepoOK    == repo \in [Rec -> Loaded]
MapOK     == map \in [Map -> {Unmapped, Flat} \cup Gen]
GroupOK   == group \in Grouped
LoaderOK  == loader \in Loading
MutexOK   == readerMu \in [Rec -> Handler \cup {None}]
HandlerOK == handler \in [Handler -> Handling]
OthersOK  == gate \in Handler \cup {None} /\ down \in BOOLEAN /\ evicts \in 0..MaxEvicts

ServerOK == RepoOK /\ MapOK /\ GroupOK /\ LoaderOK /\ MutexOK /\ HandlerOK /\ OthersOK

(* The type invariant is the disk's and the server's. *)
LEMMA TypeParts == TypeOK <=> GenTypeOK /\ ServerOK
BY DEF TypeOK, ServerOK, RepoOK, MapOK, GroupOK, LoaderOK, MutexOK, HandlerOK, OthersOK,
       Loaded, Loading, Handling, Grouped

(* The numbers that name generations, records and mappings.                *)
LEMMA Numbers ==
    /\ Gen \subseteq Nat \ {0} /\ Rec \subseteq Nat \ {0} /\ Map \subseteq Nat \ {0}
    /\ Path \subseteq Int /\ Hash \subseteq Int /\ Path \ {Absent} \subseteq Hash
    /\ Absent \in Path /\ Flat \in Path /\ NoHash \in Hash /\ NoIndex \in Index
    /\ NoMap \notin Map /\ NoRec \notin Rec /\ MaxEvicts \in Nat
BY GenAssumption, BudgetAssumption
   DEF Gen, Rec, Map, Path, Hash, Absent, Flat, NoHash, NoIndex, Index, NoMap, NoRec

(* The least of a set of numbers is one of them. *)
LEMMA MinIn ==
    ASSUME NEW S, S \subseteq Nat, S # {}
    PROVE  Min(S) \in S
<1>1. PICK t \in S : \A u \in S : ~ (<<u, t>> \in OpToRel(<, Nat))
  BY WFMin, NatLessThanWellFounded
<1>2. \A u \in S : ~ (u < t) /\ u \in Nat /\ t \in Nat
  BY <1>1 DEF OpToRel
<1>3. \A u \in S : t <= u
  BY <1>2
<1> QED BY <1>3 DEF Min

(* A record, or a mapping, that is taken is a free one. *)
LEMMA TakesFree ==
    /\ FreeRecs # {} => Min(FreeRecs) \in FreeRecs
    /\ FreeMaps # {} => Min(FreeMaps) \in FreeMaps
    /\ FreeRecs \subseteq Rec /\ FreeMaps \subseteq Map
<1>1. FreeRecs \subseteq Rec /\ FreeMaps \subseteq Map
  BY DEF FreeRecs, FreeMaps
<1> QED BY <1>1, MinIn, Numbers

(* What a reader finds is a graph or none; one it opens is that of the     *)
(* pointer it read, unless that is gone and there is the legacy graph.     *)
LEMMA OpensIn ==
    ASSUME GenTypeOK, NEW p \in Path, NEW g \in Opens(p)
    PROVE  /\ g \in Path
           /\ g # Absent => \/ g = p /\ p \in Gen /\ Whole(p)
                            \/ g = Flat /\ flat
           /\ p \in Gen /\ Whole(p) => g = p
           /\ p = Flat /\ flat => g = Flat
BY Numbers DEF Opens, Fallback, Path, Gen, Flat, Absent

(* The same of the look-up, which sees torn directories too. *)
LEMMA FindsIn ==
    ASSUME GenTypeOK, LoaderOK, NEW p \in Finds
    PROVE  /\ p \in Path
           /\ p # Absent => \/ p = loader.saw /\ p \in Gen
                            \/ p = Flat /\ flat
<1>1. loader.saw \in Path
  BY DEF LoaderOK, Loading
<1>2. CASE p \in Opens(loader.saw)
  BY <1>1, <1>2, OpensIn
<1>3. CASE p = loader.saw /\ p \in Gen
  BY <1>1, <1>3
<1>4. CASE p = Fallback
  BY <1>4, Numbers DEF Fallback
<1> QED BY <1>2, <1>3, <1>4 DEF Finds

(* The hash of a graph is the graph's or none. *)
LEMMA HashIn ==
    ASSUME NEW p \in Path, p # Absent
    PROVE  HashOf(p) \in Hash /\ HashOf(p) \in {p, NoHash}
BY Numbers DEF HashOf

-----------------------------------------------------------------------------
(* What each step does to what the invariant looks at.                     *)
(* Reading the pointer changes the loader alone. *)
LEMMA ReadFacts ==
    ASSUME GenTypeOK, LoaderOK, NEW from,
           NEW to \in {"find", "anyref", "load", "map"}, ReadPointer(from, to)
    PROVE  /\ loader.pc = from /\ loader' \in Loading
           /\ loader'.pc = to /\ loader'.saw = pointer
           /\ loader'.path = loader.path /\ loader'.hash = loader.hash
           /\ loader'.new = loader.new
<1>1. pointer \in Path
  BY Numbers DEF GenTypeOK, Path
<1> QED BY <1>1 DEF ReadPointer, LoaderOK, Loading

(* The loader that is done, and one that has what it names. *)
LEMMA LoaderValues ==
    /\ NoLoader \in Loading /\ NoLoader.pc = "idle" /\ NoLoader.new = NoMap
    /\ \A m \in Map \cup {NoMap} :
          LET new == [NoLoader EXCEPT !.pc = "reset", !.new = m]
          IN new \in Loading /\ new.pc = "reset" /\ new.new = m
    /\ LET new == [NoLoader EXCEPT !.pc = "reader"]
       IN new \in Loading /\ new.pc = "reader" /\ new.new = NoMap
BY Numbers DEF NoLoader, Loading

(* The loader's steps that change nothing but the loader. *)
LEMMA LoaderMoves ==
    ASSUME GenTypeOK, LoaderOK,
           \/ BeginReload \/ MissPinned \/ MissEverywhere \/ ReadDocPointer \/ ReadMapPointer
    PROVE  /\ loader' \in Loading
           /\ \/ /\ \/ loader.pc = "idle" /\ loader'.pc = "find" /\ group.at = "resident" /\ ~down
                    \/ loader.pc = "find" /\ loader'.pc = "anyref"
                    \/ loader.pc = "doc" /\ loader'.pc = "load"
                    \/ loader.pc = "reader" /\ loader'.pc = "map"
                 /\ loader'.saw = pointer /\ loader'.path = loader.path
                 /\ loader'.hash = loader.hash /\ loader'.new = loader.new
              \/ loader.pc \in {"find", "anyref"} /\ loader' = NoLoader
           /\ UNCHANGED <<diskVars, repo, map, group, handler, gate, down, evicts, readerMu>>
<1>1. CASE BeginReload
  BY <1>1, ReadFacts DEF BeginReload, Elsewhere
<1>2. CASE MissPinned
  BY <1>2, ReadFacts DEF MissPinned, Elsewhere
<1>3. CASE MissEverywhere
  BY <1>3, LoaderValues DEF MissEverywhere, Elsewhere, EndReload
<1>4. CASE ReadDocPointer
  BY <1>4, ReadFacts DEF ReadDocPointer, Elsewhere
<1>5. CASE ReadMapPointer
  BY <1>5, ReadFacts DEF ReadMapPointer, Elsewhere
<1> QED BY <1>1, <1>2, <1>3, <1>4, <1>5

(* Only this record changes. *)
OnlyRec(r) == \A q \in Rec : q # r => repo'[q] = repo[q]

(* FindGraph settles with what the record has, or goes on to the document. *)
LEMMA FindFacts ==
    ASSUME GenTypeOK, ServerOK, NEW p \in Path, FindGraph(p)
    PROVE  \E r \in Rec, old \in Loaded :
             /\ \/ group.rec # NoRec /\ r = group.rec /\ old = repo[r]
                \/ group.rec = NoRec /\ r \in FreeRecs /\ old = Fresh(p, r)
             /\ loader.pc \in {"find", "anyref"} /\ p \in Finds \ {Absent}
             /\ group' \in Grouped /\ group'.rec = r /\ group'.at = group.at
             /\ repo' \in [Rec -> Loaded] /\ OnlyRec(r) /\ repo'[r].file = p
             /\ repo'[r].doc = old.doc /\ repo'[r].hash = old.hash
             /\ repo'[r].label = old.label /\ repo'[r].handle = old.handle
             /\ repo'[r].bm25 = old.bm25 /\ repo'[r].root = old.root
             /\ loader' \in Loading /\ loader'.new = NoMap /\ loader'.pc \in {"idle", "doc"}
             /\ \/ loader' = NoLoader /\ repo'[r].mtime = old.mtime /\ old.doc # Absent
                \/ /\ loader' = NoLoader /\ repo'[r].mtime = p
                   /\ HashOf(p) # NoHash /\ HashOf(p) = old.hash
                \/ /\ loader'.pc = "doc" /\ loader'.path = p /\ loader'.hash = HashOf(p)
                   /\ repo'[r].mtime = old.mtime
             /\ UNCHANGED <<diskVars, map, handler, gate, down, evicts, readerMu>>
<1> USE Numbers
<1>1. PICK r : r = (IF group.rec = NoRec THEN Min(FreeRecs) ELSE group.rec)
  OBVIOUS
<1>2. r \in Rec /\ (group.rec = NoRec => r \in FreeRecs) /\ (group.rec # NoRec => r = group.rec)
  BY <1>1, TakesFree DEF FindGraph, ServerOK, GroupOK, Grouped
<1>3. PICK old : old = (IF group.rec = NoRec THEN Fresh(p, r) ELSE repo[r])
  OBVIOUS
<1>4. old \in Loaded
  BY <1>2, <1>3 DEF ServerOK, RepoOK, Loaded, Fresh
<1>5. p # Absent /\ HashOf(p) \in Hash
  BY HashIn DEF FindGraph
<1>6. PICK x \in Hash : x = HashOf(p)
  BY <1>5
<1>go. ASSUME NEW go, go = [NoLoader EXCEPT !.pc = "doc", !.path = p, !.hash = x]
       PROVE  go \in Loading /\ go.pc = "doc" /\ go.path = p /\ go.hash = x /\ go.new = NoMap
  BY <1>go, <1>6 DEF NoLoader, Loading
<1>7. PICK found : found = [old EXCEPT !.file = p]
  OBVIOUS
<1>8. /\ found \in Loaded /\ [found EXCEPT !.mtime = p] \in Loaded
      /\ \A new \in {found, [found EXCEPT !.mtime = p]} :
           /\ new.file = p /\ new.doc = old.doc /\ new.hash = old.hash
           /\ new.label = old.label /\ new.handle = old.handle
           /\ new.bm25 = old.bm25 /\ new.root = old.root
      /\ found.mtime = old.mtime /\ [found EXCEPT !.mtime = p].mtime = p
  BY <1>4, <1>7 DEF Loaded
<1>9. PICK new \in {found, [found EXCEPT !.mtime = p]} :
        /\ repo' = [repo EXCEPT ![r] = new]
        /\ \/ loader' = NoLoader /\ new.mtime = old.mtime /\ old.doc # Absent
           \/ loader' = NoLoader /\ new.mtime = p /\ x # NoHash /\ x = old.hash
           \/ loader' = [NoLoader EXCEPT !.pc = "doc", !.path = p, !.hash = x]
              /\ new.mtime = old.mtime
  <2>1. CASE old.file = p /\ old.mtime = p /\ old.doc # Absent
    BY <1>1, <1>3, <1>6, <1>7, <1>8, <2>1 DEF FindGraph, EndReload
  <2>2. CASE ~(old.file = p /\ old.mtime = p /\ old.doc # Absent) /\ x # NoHash /\ x = old.hash
    BY <1>1, <1>3, <1>6, <1>7, <1>8, <2>2 DEF FindGraph, EndReload
  <2>3. CASE ~(old.file = p /\ old.mtime = p /\ old.doc # Absent) /\ ~(x # NoHash /\ x = old.hash)
    BY <1>1, <1>3, <1>6, <1>7, <1>8, <2>3 DEF FindGraph, EndReload
  <2> QED BY <2>1, <2>2, <2>3
<1>10. /\ repo' \in [Rec -> Loaded] /\ OnlyRec(r) /\ repo'[r] = new
  BY <1>2, <1>8, <1>9 DEF ServerOK, RepoOK, OnlyRec
<1>11. /\ group' \in Grouped /\ group'.rec = r /\ group'.at = group.at
  BY <1>1, <1>2 DEF FindGraph, ServerOK, GroupOK, Grouped
<1>12. loader' \in Loading /\ loader'.new = NoMap
  <2>1. CASE loader' = NoLoader
    BY <2>1, LoaderValues
  <2>2. CASE loader' = [NoLoader EXCEPT !.pc = "doc", !.path = p, !.hash = x]
    BY <2>2, <1>go
  <2> QED BY <1>9, <2>1, <2>2
<1>13. \/ loader' = NoLoader /\ new.mtime = old.mtime /\ old.doc # Absent
       \/ loader' = NoLoader /\ new.mtime = p /\ x # NoHash /\ x = old.hash
       \/ loader'.pc = "doc" /\ loader'.path = p /\ loader'.hash = x /\ new.mtime = old.mtime
  <2>1. CASE loader' = [NoLoader EXCEPT !.pc = "doc", !.path = p, !.hash = x]
             /\ new.mtime = old.mtime
    BY <2>1, <1>go
  <2> QED BY <1>9, <2>1
<1>16. loader'.pc \in {"idle", "doc"}
  BY <1>13, LoaderValues
<1>14. /\ loader.pc \in {"find", "anyref"} /\ p \in Finds \ {Absent}
       /\ UNCHANGED <<diskVars, map, handler, gate, down, evicts, readerMu>>
  BY DEF FindGraph
<1>15. \/ group.rec # NoRec /\ r = group.rec /\ old = repo[r]
       \/ group.rec = NoRec /\ r \in FreeRecs /\ old = Fresh(p, r)
  BY <1>2, <1>3
<1> QED BY <1>2, <1>4, <1>6, <1>8, <1>9, <1>10, <1>11, <1>12, <1>13, <1>14, <1>15, <1>16

(* LoadDoc stamps the record, or fails and leaves it. *)
LEMMA LoadFacts ==
    ASSUME GenTypeOK, ServerOK, LoaderInv, NEW g \in Path, LoadDoc(g)
    PROVE  /\ loader.pc = "load" /\ g \in Opens(loader.saw) /\ group.rec \in Rec
           /\ repo' \in [Rec -> Loaded] /\ OnlyRec(group.rec)
           /\ repo'[group.rec].label = repo[group.rec].label
           /\ repo'[group.rec].handle = repo[group.rec].handle
           /\ repo'[group.rec].bm25 = repo[group.rec].bm25
           /\ repo'[group.rec].root = repo[group.rec].root
           /\ loader' \in Loading /\ loader'.new = NoMap
           /\ \/ loader' = NoLoader /\ repo' = repo
              \/ /\ g # Absent /\ loader'.pc = "reader"
                 /\ repo'[group.rec].doc = g
                 /\ repo'[group.rec].mtime = loader.path
                 /\ repo'[group.rec].hash = loader.hash
           /\ UNCHANGED <<diskVars, map, group, handler, gate, down, evicts, readerMu>>
<1> USE Numbers
<1>1. PICK r : r = group.rec
  OBVIOUS
<1>2. loader.pc = "load" /\ r \in Rec /\ g \in Opens(loader.saw)
  BY <1>1 DEF LoadDoc, LoaderInv, ServerOK, GroupOK, Grouped
<1>3. loader.path \in Path /\ loader.hash \in Hash
  BY DEF ServerOK, LoaderOK, Loading
<1>4. PICK old \in Loaded : old = repo[r]
  BY <1>2 DEF ServerOK, RepoOK
<1> PICK q \in Path, x \in Hash : q = loader.path /\ x = loader.hash
  BY <1>3
<1> DEFINE new == [old EXCEPT !.doc = g, !.mtime = q, !.hash = x]
<1>5. /\ new \in Loaded /\ new.label = repo[r].label /\ new.handle = repo[r].handle
      /\ new.bm25 = repo[r].bm25 /\ new.root = repo[r].root
      /\ new.doc = g /\ new.mtime = q /\ new.hash = x
  BY <1>4 DEF Loaded
<1>6. CASE g = Absent
  <2>1. repo' = repo /\ loader' = NoLoader
        /\ UNCHANGED <<diskVars, map, group, handler, gate, down, evicts, readerMu>>
    BY <1>6 DEF LoadDoc, EndReload, Elsewhere
  <2> QED BY <1>1, <1>2, <2>1, LoaderValues DEF OnlyRec, ServerOK, RepoOK
<1>7. CASE g # Absent
  <2>1. repo' = [repo EXCEPT ![r] = new]
    BY <1>1, <1>2, <1>4, <1>7 DEF LoadDoc, ServerOK, RepoOK
  <2> HIDE DEF new
  <2>2. /\ repo' \in [Rec -> Loaded] /\ OnlyRec(r) /\ repo'[r] = new
    BY <1>2, <1>5, <2>1 DEF ServerOK, RepoOK, OnlyRec
  <2>3. loader' \in Loading /\ loader'.pc = "reader" /\ loader'.new = NoMap
    <3>1. loader' = [NoLoader EXCEPT !.pc = "reader"]
      BY <1>7 DEF LoadDoc
    <3> QED BY <3>1, LoaderValues
  <2> QED BY <1>1, <1>2, <1>5, <1>7, <2>2, <2>3 DEF LoadDoc, Elsewhere
<1> QED BY <1>6, <1>7

(* OpenReader maps what it opens afresh and points the label index at it.  *)
LEMMA OpenFacts ==
    ASSUME GenTypeOK, ServerOK, LoaderInv, NEW g \in Path, OpenReader(g)
    PROVE  \E m \in Map \cup {NoMap} :
             /\ loader.pc = "map" /\ g \in Opens(loader.saw) /\ group.rec \in Rec
             /\ \/ g = Absent /\ m = NoMap /\ map' = map
                \/ g # Absent /\ m \in FreeMaps /\ map' = [map EXCEPT ![m] = g]
             /\ map' \in [Map -> {Unmapped, Flat} \cup Gen]
             /\ loader' \in Loading /\ loader'.pc = "reset" /\ loader'.new = m
             /\ repo' \in [Rec -> Loaded] /\ OnlyRec(group.rec)
             /\ repo'[group.rec].doc = repo[group.rec].doc
             /\ repo'[group.rec].mtime = repo[group.rec].mtime
             /\ repo'[group.rec].hash = repo[group.rec].hash
             /\ repo'[group.rec].label = m
             /\ repo'[group.rec].handle = repo[group.rec].handle
             /\ repo'[group.rec].bm25 = repo[group.rec].bm25
             /\ repo'[group.rec].root = repo[group.rec].root
             /\ UNCHANGED <<diskVars, group, handler, gate, down, evicts, readerMu>>
<1> USE Numbers
<1>1. PICK r : r = group.rec
  OBVIOUS
<1>2. loader.pc = "map" /\ r \in Rec /\ g \in Opens(loader.saw)
  BY <1>1 DEF OpenReader, LoaderInv, ServerOK, GroupOK, Grouped
<1>3. PICK m : m = IF g = Absent THEN NoMap ELSE Min(FreeMaps)
  OBVIOUS
<1>4. m \in Map \cup {NoMap} /\ (g = Absent => m = NoMap)
      /\ (g # Absent => m \in FreeMaps /\ m \in Map /\ m # NoMap)
  BY <1>3, TakesFree DEF OpenReader
<1>5. PICK old \in Loaded : old = repo[r]
  BY <1>2 DEF ServerOK, RepoOK
<1> DEFINE new == [old EXCEPT !.label = m]
<1>6. /\ new \in Loaded /\ new.label = m /\ new.doc = old.doc /\ new.mtime = old.mtime
      /\ new.hash = old.hash /\ new.handle = old.handle /\ new.bm25 = old.bm25
      /\ new.root = old.root
  BY <1>4, <1>5 DEF Loaded
<1>7. /\ repo' = [repo EXCEPT ![r] = new]
      /\ loader' = [NoLoader EXCEPT !.pc = "reset", !.new = m]
      /\ map' = IF m = NoMap THEN map ELSE [map EXCEPT ![m] = g]
      /\ UNCHANGED <<diskVars, group, handler, gate, down, evicts, readerMu>>
  BY <1>1, <1>3, <1>5 DEF OpenReader, Elsewhere
<1> HIDE DEF new
<1>8. /\ repo' \in [Rec -> Loaded] /\ OnlyRec(r) /\ repo'[r] = new
  BY <1>2, <1>6, <1>7 DEF ServerOK, RepoOK, OnlyRec
<1>9. /\ map' \in [Map -> {Unmapped, Flat} \cup Gen]
      /\ \/ g = Absent /\ m = NoMap /\ map' = map
         \/ g # Absent /\ m \in FreeMaps /\ map' = [map EXCEPT ![m] = g]
  BY <1>4, <1>7 DEF ServerOK, MapOK, Path
<1>10. loader' \in Loading /\ loader'.pc = "reset" /\ loader'.new = m
  BY <1>4, <1>7, LoaderValues
<1> QED BY <1>1, <1>2, <1>4, <1>5, <1>6, <1>7, <1>8, <1>9, <1>10

(* ResetIndexes drops the record's search index. *)
LEMMA ResetFacts ==
    ASSUME GenTypeOK, ServerOK, LoaderInv, ResetIndexes
    PROVE  /\ loader.pc = "reset" /\ group.rec \in Rec
           /\ loader' \in Loading /\ loader'.pc = "publish" /\ loader'.new = loader.new
           /\ repo' \in [Rec -> Loaded] /\ OnlyRec(group.rec)
           /\ repo'[group.rec].doc = repo[group.rec].doc
           /\ repo'[group.rec].mtime = repo[group.rec].mtime
           /\ repo'[group.rec].hash = repo[group.rec].hash
           /\ repo'[group.rec].label = repo[group.rec].label
           /\ repo'[group.rec].handle = repo[group.rec].handle
           /\ repo'[group.rec].bm25 = NoIndex
           /\ repo'[group.rec].root = repo[group.rec].root
           /\ UNCHANGED <<diskVars, map, group, handler, gate, down, evicts, readerMu>>
<1> USE Numbers
<1>1. PICK r : r = group.rec
  OBVIOUS
<1>2. loader.pc = "reset" /\ r \in Rec
  BY <1>1 DEF ResetIndexes, LoaderInv, ServerOK, GroupOK, Grouped
<1>3. PICK old \in Loaded : old = repo[r]
  BY <1>2 DEF ServerOK, RepoOK
<1> DEFINE new == [old EXCEPT !.bm25 = NoIndex]
<1>4. /\ new \in Loaded /\ new.label = old.label /\ new.doc = old.doc /\ new.mtime = old.mtime
      /\ new.hash = old.hash /\ new.handle = old.handle /\ new.bm25 = NoIndex
      /\ new.root = old.root
  BY <1>3 DEF Loaded
<1>5. /\ repo' = [repo EXCEPT ![r] = new]
      /\ UNCHANGED <<diskVars, map, group, handler, gate, down, evicts, readerMu>>
  BY <1>1, <1>3 DEF ResetIndexes, Elsewhere
<1> HIDE DEF new
<1>6. /\ repo' \in [Rec -> Loaded] /\ OnlyRec(r) /\ repo'[r] = new
  BY <1>2, <1>4, <1>5 DEF ServerOK, RepoOK, OnlyRec
<1>7. loader' \in Loading /\ loader'.pc = "publish" /\ loader'.new = loader.new
  BY DEF ResetIndexes, ServerOK, LoaderOK, Loading
<1> QED BY <1>1, <1>2, <1>3, <1>4, <1>5, <1>6, <1>7

(* Retiring unmaps one mapping, or none if there is none. *)
LEMMA RetireFacts ==
    ASSUME MapOK, NEW m \in Map \cup {NoMap}
    PROVE  /\ Retire(m) \in [Map -> {Unmapped, Flat} \cup Gen]
           /\ \A k \in Map : Retire(m)[k] = IF k = m THEN Unmapped ELSE map[k]
BY Numbers DEF Retire, MapOK

(* publishHandle retires what the record served from. *)
LEMMA PublishFacts ==
    ASSUME GenTypeOK, ServerOK, LoaderInv, PublishHandle
    PROVE  /\ loader.pc = "publish" /\ group.rec \in Rec /\ rmuFree(group.rec)
           /\ loader' = NoLoader
           /\ map' \in [Map -> {Unmapped, Flat} \cup Gen]
           /\ \A k \in Map : map'[k] = IF k = repo[group.rec].handle THEN Unmapped ELSE map[k]
           /\ repo' \in [Rec -> Loaded] /\ OnlyRec(group.rec)
           /\ repo'[group.rec].doc = repo[group.rec].doc
           /\ repo'[group.rec].mtime = repo[group.rec].mtime
           /\ repo'[group.rec].hash = repo[group.rec].hash
           /\ repo'[group.rec].label = repo[group.rec].label
           /\ repo'[group.rec].handle = loader.new
           /\ repo'[group.rec].bm25 = repo[group.rec].bm25
           /\ repo'[group.rec].root = repo[group.rec].root
           /\ UNCHANGED <<diskVars, group, handler, gate, down, evicts, readerMu>>
<1> USE Numbers
<1>1. PICK r : r = group.rec
  OBVIOUS
<1>2. loader.pc = "publish" /\ r \in Rec /\ rmuFree(r)
  BY <1>1 DEF PublishHandle, LoaderInv, ServerOK, GroupOK, Grouped
<1>3. PICK old \in Loaded : old = repo[r]
  BY <1>2 DEF ServerOK, RepoOK
<1>4. PICK m \in Map \cup {NoMap} : m = loader.new
  BY DEF ServerOK, LoaderOK, Loading
<1> DEFINE new == [old EXCEPT !.handle = m]
<1>5. /\ new \in Loaded /\ new.label = old.label /\ new.doc = old.doc /\ new.mtime = old.mtime
      /\ new.hash = old.hash /\ new.handle = m /\ new.bm25 = old.bm25
      /\ new.root = old.root /\ old.handle \in Map \cup {NoMap}
  BY <1>3, <1>4 DEF Loaded
<1>6. /\ repo' = [repo EXCEPT ![r] = new] /\ map' = Retire(old.handle) /\ loader' = NoLoader
      /\ UNCHANGED <<diskVars, group, handler, gate, down, evicts, readerMu>>
  BY <1>1, <1>3, <1>4 DEF PublishHandle, Elsewhere, EndReload
<1> HIDE DEF new
<1>7. /\ repo' \in [Rec -> Loaded] /\ OnlyRec(r) /\ repo'[r] = new
  BY <1>2, <1>5, <1>6 DEF ServerOK, RepoOK, OnlyRec
<1>8. /\ map' \in [Map -> {Unmapped, Flat} \cup Gen]
      /\ \A k \in Map : map'[k] = IF k = old.handle THEN Unmapped ELSE map[k]
  BY <1>5, <1>6, RetireFacts DEF ServerOK
<1> QED BY <1>1, <1>2, <1>3, <1>4, <1>5, <1>6, <1>7, <1>8

(* A shell takes the group's place and shares its mapping and its mutex.   *)
LEMMA ShellFacts ==
    ASSUME ServerOK, EvictKeepingReader
    PROVE  \E shell \in FreeRecs :
             /\ loader.pc = "idle" /\ ~down /\ group.at = "resident" /\ group.rec \in Rec
             /\ group' \in Grouped /\ group'.at = "cold" /\ group'.rec = shell
             /\ repo' \in [Rec -> Loaded] /\ OnlyRec(shell)
             /\ repo'[shell].doc = repo[group.rec].doc
             /\ repo'[shell].mtime = repo[group.rec].mtime
             /\ repo'[shell].hash = repo[group.rec].hash
             /\ repo'[shell].label = NoMap
             /\ repo'[shell].handle = repo[group.rec].handle
             /\ repo'[shell].bm25 = NoIndex
             /\ repo'[shell].root = repo[group.rec].root
             /\ evicts' \in 0..MaxEvicts
             /\ UNCHANGED <<diskVars, map, loader, readerMu, handler, gate, down>>
<1> USE Numbers
<1>1. PICK r, shell : r = group.rec /\ shell = Min(FreeRecs)
  OBVIOUS
<1>2. /\ loader.pc = "idle" /\ ~down /\ group.at = "resident" /\ r \in Rec
      /\ shell \in FreeRecs /\ shell \in Rec
  BY <1>1, TakesFree DEF EvictKeepingReader, CanEvict, Unlocked, ServerOK, GroupOK, Grouped
<1>3. PICK old \in Loaded : old = repo[r]
  BY <1>2 DEF ServerOK, RepoOK
<1> DEFINE new == [old EXCEPT !.label = NoMap, !.bm25 = NoIndex]
<1>4. /\ new \in Loaded /\ new.label = NoMap /\ new.doc = old.doc /\ new.mtime = old.mtime
      /\ new.hash = old.hash /\ new.handle = old.handle /\ new.bm25 = NoIndex
      /\ new.root = old.root
  BY <1>3 DEF Loaded
<1>5. /\ repo' = [repo EXCEPT ![shell] = new] /\ group' = [at |-> "cold", rec |-> shell]
      /\ UNCHANGED <<diskVars, map, loader, readerMu, handler, gate, down>>
  BY <1>1, <1>3 DEF EvictKeepingReader, coldShellRepo
<1>6. evicts' \in 0..MaxEvicts
  BY DEF EvictKeepingReader, CanEvict, ServerOK, OthersOK
<1> HIDE DEF new
<1>7. /\ repo' \in [Rec -> Loaded] /\ OnlyRec(shell) /\ repo'[shell] = new
  BY <1>2, <1>4, <1>5 DEF ServerOK, RepoOK, OnlyRec
<1>8. group' \in Grouped /\ group'.at = "cold" /\ group'.rec = shell
  BY <1>2, <1>5 DEF Grouped
<1> QED BY <1>1, <1>2, <1>3, <1>4, <1>5, <1>6, <1>7, <1>8

(* A full eviction, and Close, retire what the group served from. *)
LEMMA EvictFacts ==
    ASSUME ServerOK, EvictFully
    PROVE  /\ loader.pc = "idle" /\ ~down /\ group.rec \in Rec /\ rmuFree(group.rec)
           /\ group.at = "resident"
           /\ group' \in Grouped /\ group'.at = "gone" /\ group'.rec = NoRec
           /\ map' \in [Map -> {Unmapped, Flat} \cup Gen]
           /\ \A k \in Map : map'[k] = IF k = repo[group.rec].handle THEN Unmapped ELSE map[k]
           /\ repo' \in [Rec -> Loaded] /\ OnlyRec(group.rec)
           /\ (\E h \in Handler : handler[h].rec = group.rec)
                => repo'[group.rec].root = repo[group.rec].root
           /\ evicts' \in 0..MaxEvicts
           /\ UNCHANGED <<diskVars, loader, readerMu, handler, gate, down>>
<1> USE Numbers
<1>1. PICK r : r = group.rec
  OBVIOUS
<1>2. loader.pc = "idle" /\ ~down /\ group.at = "resident" /\ r \in Rec /\ rmuFree(r)
  BY <1>1 DEF EvictFully, CanEvict, Unlocked, ServerOK, GroupOK, Grouped
<1>3. PICK old \in Loaded : old = repo[r]
  BY <1>2 DEF ServerOK, RepoOK
<1>4. PICK new : new = IF \E h \in Handler : handler[h].rec = r
                         THEN [old EXCEPT !.handle = NoMap] ELSE Fresh(Absent, r)
  OBVIOUS
<1>5. /\ new \in Loaded /\ old.handle \in Map \cup {NoMap}
      /\ (\E h \in Handler : handler[h].rec = r) => new.root = old.root
  BY <1>2, <1>3, <1>4 DEF Loaded, Fresh
<1>6. /\ repo' = [repo EXCEPT ![r] = new] /\ map' = Retire(old.handle)
      /\ group' = [at |-> "gone", rec |-> NoRec]
      /\ UNCHANGED <<diskVars, loader, readerMu, handler, gate, down>>
  BY <1>1, <1>2, <1>3, <1>4 DEF EvictFully, ServerOK, RepoOK
<1>7. evicts' \in 0..MaxEvicts
  BY DEF EvictFully, CanEvict, ServerOK, OthersOK
<1>8. /\ repo' \in [Rec -> Loaded] /\ OnlyRec(r) /\ repo'[r] = new
  BY <1>2, <1>5, <1>6 DEF ServerOK, RepoOK, OnlyRec
<1>9. /\ map' \in [Map -> {Unmapped, Flat} \cup Gen]
      /\ \A k \in Map : map'[k] = IF k = old.handle THEN Unmapped ELSE map[k]
  BY <1>5, <1>6, RetireFacts DEF ServerOK
<1>10. group' \in Grouped /\ group'.at = "gone" /\ group'.rec = NoRec
  BY <1>6 DEF Grouped
<1> QED BY <1>1, <1>2, <1>3, <1>5, <1>6, <1>7, <1>8, <1>9, <1>10

(* Close, of a group that has a record. *)
LEMMA CloseFacts ==
    ASSUME ServerOK, Close
    PROVE  /\ loader.pc = "idle" /\ ~down /\ down'
           /\ map' \in [Map -> {Unmapped, Flat} \cup Gen]
           /\ repo' \in [Rec -> Loaded]
           /\ group.rec = NoRec => map' = map /\ repo' = repo
           /\ group.rec # NoRec =>
                /\ group.rec \in Rec /\ rmuFree(group.rec) /\ OnlyRec(group.rec)
                /\ \A k \in Map : map'[k] = IF k = repo[group.rec].handle
                                              THEN Unmapped ELSE map[k]
                /\ repo'[group.rec].handle = NoMap
                /\ repo'[group.rec].root = repo[group.rec].root
                /\ repo'[group.rec].mtime = repo[group.rec].mtime
                /\ repo'[group.rec].hash = repo[group.rec].hash
           /\ UNCHANGED <<diskVars, group, loader, readerMu, handler, gate, evicts>>
<1> USE Numbers
<1>1. /\ loader.pc = "idle" /\ ~down /\ down'
      /\ UNCHANGED <<diskVars, group, loader, readerMu, handler, gate, evicts>>
  BY DEF Close, Unlocked
<1>2. CASE group.rec = NoRec
  BY <1>1, <1>2 DEF Close, ServerOK, RepoOK, MapOK
<1>3. CASE group.rec # NoRec
  <2>1. PICK r \in Rec : r = group.rec
    BY <1>3 DEF ServerOK, GroupOK, Grouped
  <2>2. PICK old \in Loaded : old = repo[r]
    BY <2>1 DEF ServerOK, RepoOK
  <2> DEFINE new == [old EXCEPT !.handle = NoMap]
  <2>3. /\ new \in Loaded /\ new.handle = NoMap /\ new.root = old.root
        /\ new.mtime = old.mtime /\ new.hash = old.hash /\ old.handle \in Map \cup {NoMap}
    BY <2>2 DEF Loaded
  <2>4. rmuFree(r) /\ repo' = [repo EXCEPT ![r] = new] /\ map' = Retire(old.handle)
    BY <1>3, <2>1, <2>2 DEF Close, retireHandle
  <2> HIDE DEF new
  <2>5. /\ repo' \in [Rec -> Loaded] /\ OnlyRec(r) /\ repo'[r] = new
    BY <2>1, <2>3, <2>4 DEF ServerOK, RepoOK, OnlyRec
  <2>6. /\ map' \in [Map -> {Unmapped, Flat} \cup Gen]
        /\ \A k \in Map : map'[k] = IF k = old.handle THEN Unmapped ELSE map[k]
    BY <2>3, <2>4, RetireFacts DEF ServerOK
  <2> QED BY <1>1, <1>3, <2>1, <2>2, <2>3, <2>4, <2>5, <2>6
<1> QED BY <1>2, <1>3

(* Only this handler moves. *)
OnlyOne(h) == \A k \in Handler : k # h => handler'[k] = handler[k]

(* A handler that goes on keeps what it has. *)
LEMMA GotoFacts ==
    ASSUME HandlerOK, NEW h \in Handler,
           NEW pc \in {"have", "reviving", "revived", "building", "resolve", "reading"},
           Goto(h, pc)
    PROVE  /\ handler' \in [Handler -> Handling] /\ OnlyOne(h)
           /\ handler'[h].pc = pc /\ handler'[h].rec = handler[h].rec
           /\ handler'[h].idx = handler[h].idx
BY DEF Goto, HandlerOK, Handling, OnlyOne

(* What a handler that leaves clears is what nobody else has. *)
Collected(h) ==
    \A r \in Rec : \/ repo'[r] = repo[r]
                   \/ /\ r # group.rec /\ repo'[r] = Fresh(Absent, r)
                      /\ \A k \in Handler : k # h => handler[k].rec # r

(* A handler that leaves lets go of its record, which may be reused. *)
LEMMA LeaveFacts ==
    ASSUME ServerOK, NEW h \in Handler, Leave(h)
    PROVE  /\ handler' \in [Handler -> Handling] /\ OnlyOne(h) /\ handler'[h] = NoHandler
           /\ repo' \in [Rec -> Loaded] /\ Collected(h)
<1> USE Numbers
<1>1. NoHandler \in Handling
  BY DEF NoHandler, Handling
<1>2. /\ handler' \in [Handler -> Handling] /\ OnlyOne(h) /\ handler'[h] = NoHandler
  BY <1>1 DEF Leave, ServerOK, HandlerOK, OnlyOne
<1>3. \A r \in Rec : Fresh(Absent, r) \in Loaded
  BY DEF Fresh, Loaded
<1>4. \A r \in Rec : repo'[r] = IF r \in Reached(Handler \ {h}) THEN repo[r] ELSE Fresh(Absent, r)
  BY DEF Leave, Collect
<1>5. repo' \in [Rec -> Loaded]
  BY <1>3 DEF Leave, Collect, ServerOK, RepoOK
<1>6. \A r \in Rec : r \notin Reached(Handler \ {h}) =>
        r # group.rec /\ \A k \in Handler : k # h => handler[k].rec # r
  BY DEF Reached
<1> QED BY <1>2, <1>4, <1>5, <1>6 DEF Collected

(* Locking and unlocking the mutex of a record. *)
LEMMA LockFacts ==
    ASSUME ServerOK, NEW h \in Handler, handler[h].rec \in Rec
    PROVE  /\ repo[handler[h].rec].root \in Rec
           /\ Lock(h) =>
                /\ readerMu' \in [Rec -> Handler \cup {None}]
                /\ \A x \in Rec : readerMu'[x] = IF x = repo[handler[h].rec].root
                                                   THEN h ELSE readerMu[x]
           /\ Unlock(h) =>
                /\ readerMu' \in [Rec -> Handler \cup {None}]
                /\ \A x \in Rec : readerMu'[x] = IF x = repo[handler[h].rec].root
                                                   THEN None ELSE readerMu[x]
<1>1. repo[handler[h].rec].root \in Rec
  BY DEF ServerOK, RepoOK, Loaded
<1> QED BY <1>1 DEF Lock, Unlock, ServerOK, MutexOK

(* What a handler that builds something over a record does not touch.      *)
Serves(r) == /\ repo'[r].doc = repo[r].doc /\ repo'[r].mtime = repo[r].mtime
             /\ repo'[r].hash = repo[r].hash /\ repo'[r].handle = repo[r].handle
             /\ repo'[r].root = repo[r].root

(* A handler that is past its first step has a record. *)
LEMMA HasRec ==
    ASSUME ServerOK, HandlerInv, NEW h \in Handler, handler[h].pc # "idle"
    PROVE  handler[h].rec \in Rec
BY Numbers DEF ServerOK, HandlerOK, Handling, HandlerInv

(* A handler that comes in takes the group's record. *)
LEMMA EnterFacts ==
    ASSUME ServerOK, LoaderInv, NEW h \in Handler, Lookup(h) \/ BeginRevive(h)
    PROVE  /\ handler[h].pc = "idle" /\ ~down /\ loader.pc = "idle" /\ group.rec \in Rec
           /\ handler' \in [Handler -> Handling] /\ OnlyOne(h)
           /\ handler'[h].rec = group.rec /\ handler'[h].idx = NoIndex
           /\ \/ handler'[h].pc = "have" /\ gate' = gate
              \/ handler'[h].pc = "revive" /\ group.at = "cold" /\ gate = None /\ gate' = h
           /\ UNCHANGED <<diskVars, repo, map, group, loader, readerMu, down, evicts>>
<1> USE Numbers
<1>1. PICK to \in {"have", "revive"} :
        handler' = [handler EXCEPT ![h] = [NoHandler EXCEPT !.pc = to, !.rec = group.rec]]
        /\ (to = "have" => gate' = gate)
        /\ (to = "revive" => group.at = "cold" /\ gate = None /\ gate' = h)
  BY DEF Lookup, BeginRevive
<1>2. group.rec \in Rec
  BY DEF Lookup, BeginRevive, LoaderInv, ServerOK, GroupOK, Grouped
<1>3. PICK new : new = [NoHandler EXCEPT !.pc = to, !.rec = group.rec]
  OBVIOUS
<1>4. new \in Handling /\ new.pc = to /\ new.rec = group.rec /\ new.idx = NoIndex
  BY <1>2, <1>3 DEF NoHandler, Handling
<1>5. handler' \in [Handler -> Handling] /\ OnlyOne(h) /\ handler'[h] = new
  BY <1>1, <1>3, <1>4 DEF ServerOK, HandlerOK, OnlyOne
<1>6. /\ handler[h].pc = "idle" /\ ~down /\ loader.pc = "idle"
      /\ UNCHANGED <<diskVars, repo, map, group, loader, readerMu, down, evicts>>
  BY DEF Lookup, BeginRevive, Unlocked, OnlyHandler
<1> QED BY <1>1, <1>2, <1>4, <1>5, <1>6

(* The label index of a shell is built over its mapping. *)
LEMMA EndRematerializeFacts ==
    ASSUME ServerOK, HandlerInv, NEW h \in Handler, EndRematerialize(h)
    PROVE  /\ handler[h].pc = "reviving" /\ handler[h].rec \in Rec
           /\ repo' \in [Rec -> Loaded] /\ OnlyRec(handler[h].rec) /\ Serves(handler[h].rec)
           /\ repo'[handler[h].rec].label = repo[handler[h].rec].handle
           /\ repo'[handler[h].rec].bm25 = repo[handler[h].rec].bm25
           /\ Goto(h, "revived") /\ Unlock(h)
           /\ UNCHANGED <<diskVars, map, group, loader, gate, down, evicts>>
<1>1. PICK r \in Rec : r = handler[h].rec
  BY HasRec DEF EndRematerialize
<1>2. PICK old \in Loaded : old = repo[r]
  BY <1>1 DEF ServerOK, RepoOK
<1> DEFINE new == [old EXCEPT !.label = old.handle]
<1>3. /\ new \in Loaded /\ new.label = old.handle /\ new.doc = old.doc
      /\ new.mtime = old.mtime /\ new.hash = old.hash /\ new.handle = old.handle
      /\ new.bm25 = old.bm25 /\ new.root = old.root
  BY <1>2 DEF Loaded
<1>4. /\ handler[h].pc = "reviving" /\ repo' = [repo EXCEPT ![r] = new]
      /\ Goto(h, "revived") /\ Unlock(h)
      /\ UNCHANGED <<diskVars, map, group, loader, gate, down, evicts>>
  BY <1>1, <1>2 DEF EndRematerialize, OnlyHandler
<1> HIDE DEF new
<1>5. repo' \in [Rec -> Loaded] /\ OnlyRec(r) /\ repo'[r] = new
  BY <1>1, <1>3, <1>4 DEF ServerOK, RepoOK, OnlyRec
<1> QED BY <1>1, <1>2, <1>3, <1>4, <1>5 DEF Serves

(* A search index is built over the label index there is, or over nothing. *)
LEMMA BuildFacts ==
    ASSUME ServerOK, HandlerInv, NoReadAfterUnmap, NEW h \in Handler,
           EndBuild(h) \/ BuildEmpty(h)
    PROVE  /\ handler[h].pc \in {"building", "have"} /\ handler[h].rec \in Rec
           /\ repo' \in [Rec -> Loaded] /\ OnlyRec(handler[h].rec) /\ Serves(handler[h].rec)
           /\ repo'[handler[h].rec].label = repo[handler[h].rec].label
           /\ repo'[handler[h].rec].bm25.label \in {NoMap, repo[handler[h].rec].label}
           /\ handler' \in [Handler -> Handling] /\ OnlyOne(h)
           /\ handler'[h].pc = "resolve" /\ handler'[h].rec = handler[h].rec
           /\ handler'[h].idx.label \in {handler[h].idx.label, repo[handler[h].rec].label}
           /\ \/ handler[h].pc = "building" /\ Unlock(h)
              \/ handler[h].pc = "have" /\ readerMu' = readerMu
           /\ UNCHANGED <<diskVars, map, group, loader, gate, down, evicts>>
<1> USE Numbers
<1>1. PICK r \in Rec : r = handler[h].rec
  BY HasRec DEF EndBuild, BuildEmpty
<1>2. PICK old \in Loaded : old = repo[r]
  BY <1>1 DEF ServerOK, RepoOK
<1>3. ASSUME EndBuild(h) PROVE IndexOver(r) \in Index /\ IndexOver(r).label = old.label
  <2>1. old.handle \in Map /\ map[old.handle] # Unmapped
    BY <1>1, <1>2, <1>3 DEF EndBuild, NoReadAfterUnmap, Open, Loaded
  <2>2. Rows(old.handle) \in Path
    BY <2>1 DEF ServerOK, MapOK, Rows, Path
  <2> QED BY <1>2, <2>2 DEF IndexOver, Index, Loaded
<1>4. PICK had \in Handling : had = handler[h]
  BY DEF ServerOK, HandlerOK
<1>5. PICK idx \in Index, now \in Handling :
        /\ idx.label \in {NoMap, old.label}
        /\ now.pc = "resolve" /\ now.rec = had.rec /\ now.idx.label \in {had.idx.label, old.label}
        /\ repo' = [repo EXCEPT ![r].bm25 = idx]
        /\ handler' = [handler EXCEPT ![h] = now]
  <2>1. CASE EndBuild(h)
    <3> DEFINE now == [had EXCEPT !.pc = "resolve", !.idx = IndexOver(r)]
    <3>1. now \in Handling /\ now.pc = "resolve" /\ now.rec = had.rec /\ now.idx = IndexOver(r)
      BY <1>3, <1>4, <2>1 DEF Handling
    <3>2. /\ repo' = [repo EXCEPT ![r].bm25 = IndexOver(r)]
          /\ handler' = [handler EXCEPT ![h] = now]
      BY <1>1, <1>4, <2>1 DEF EndBuild, ServerOK, HandlerOK
    <3> QED BY <1>3, <2>1, <3>1, <3>2
  <2>2. CASE BuildEmpty(h)
    <3> DEFINE now == [had EXCEPT !.pc = "resolve"]
               idx == [NoIndex EXCEPT !.built = TRUE]
    <3>1. now \in Handling /\ now.pc = "resolve" /\ now.rec = had.rec /\ now.idx = had.idx
      BY <1>4 DEF Handling
    <3>2. idx \in Index /\ idx.label = NoMap
      BY DEF NoIndex, Index
    <3>3. /\ repo' = [repo EXCEPT ![r].bm25 = idx] /\ handler' = [handler EXCEPT ![h] = now]
      BY <1>1, <1>4, <2>2 DEF BuildEmpty, Goto, ServerOK, HandlerOK
    <3> QED BY <3>1, <3>2, <3>3
  <2> QED BY <2>1, <2>2
<1> DEFINE new == [old EXCEPT !.bm25 = idx]
<1>6. /\ new \in Loaded /\ new.label = old.label /\ new.doc = old.doc
      /\ new.mtime = old.mtime /\ new.hash = old.hash /\ new.handle = old.handle
      /\ new.bm25 = idx /\ new.root = old.root
  BY <1>2, <1>5 DEF Loaded
<1>7. repo' = [repo EXCEPT ![r] = new]
  BY <1>2, <1>5
<1> HIDE DEF new
<1>8. repo' \in [Rec -> Loaded] /\ OnlyRec(r) /\ repo'[r] = new
  BY <1>1, <1>6, <1>7 DEF ServerOK, RepoOK, OnlyRec
<1>9. handler' \in [Handler -> Handling] /\ OnlyOne(h) /\ handler'[h] = now
  BY <1>5 DEF ServerOK, HandlerOK, OnlyOne
<1>10. /\ \/ handler[h].pc = "building" /\ Unlock(h)
          \/ handler[h].pc = "have" /\ readerMu' = readerMu
       /\ UNCHANGED <<diskVars, map, group, loader, gate, down, evicts>>
  BY DEF EndBuild, BuildEmpty, OnlyHandler
<1> QED BY <1>1, <1>2, <1>4, <1>5, <1>6, <1>8, <1>9, <1>10 DEF Serves

(* An index that is there is kept. *)
LEMMA UseFacts ==
    ASSUME ServerOK, HandlerInv, NEW h \in Handler, UseIndex(h)
    PROVE  /\ handler[h].pc = "have" /\ handler[h].rec \in Rec
           /\ handler' \in [Handler -> Handling] /\ OnlyOne(h)
           /\ handler'[h].pc = "resolve" /\ handler'[h].rec = handler[h].rec
           /\ handler'[h].idx = repo[handler[h].rec].bm25
           /\ UNCHANGED <<diskVars, repo, map, group, loader, readerMu, gate, down, evicts>>
<1>1. PICK r \in Rec : r = handler[h].rec
  BY HasRec DEF UseIndex
<1>2. PICK idx \in Index : idx = repo[r].bm25
  BY <1>1 DEF ServerOK, RepoOK, Loaded
<1>3. PICK had \in Handling : had = handler[h]
  BY DEF ServerOK, HandlerOK
<1> DEFINE now == [had EXCEPT !.pc = "resolve", !.idx = idx]
<1>4. now \in Handling /\ now.pc = "resolve" /\ now.rec = had.rec /\ now.idx = idx
  BY <1>2, <1>3 DEF Handling
<1>5. handler' = [handler EXCEPT ![h] = now]
  BY <1>1, <1>2, <1>3 DEF UseIndex, ServerOK, HandlerOK
<1> HIDE DEF now
<1>6. handler' \in [Handler -> Handling] /\ OnlyOne(h) /\ handler'[h] = now
  BY <1>4, <1>5 DEF ServerOK, HandlerOK, OnlyOne
<1> QED BY <1>1, <1>2, <1>3, <1>4, <1>6 DEF UseIndex, OnlyHandler

-----------------------------------------------------------------------------
(* The mappings, step by step.                                             *)

(* No record comes to use a mapping, and mutexes stay where they are. *)
UsesShrink ==
    \A r \in Rec, m \in Map : Uses(r, m)' => Uses(r, m) /\ repo'[r].root = repo[r].root

OpenShrinks == \A m \in Map : Open(m)' => Open(m)

(* A step that opens no mapping keeps the accounting of readers. *)
LEMMA ShrinkKeepsMutex ==
    ASSUME OneMutex, UsesShrink, OpenShrinks
    PROVE  OneMutex'
<1> SUFFICES ASSUME NEW m \in Map, Open(m)', NEW r \in Rec, NEW q \in Rec,
                    Uses(r, m)', Uses(q, m)'
             PROVE  repo'[r].root = repo'[q].root
  BY DEF OneMutex
<1>1. Open(m) /\ Uses(r, m) /\ Uses(q, m)
  BY DEF UsesShrink, OpenShrinks
<1>2. repo[r].root = repo[q].root
  BY <1>1 DEF OneMutex
<1> QED BY <1>2 DEF UsesShrink

Reading == {"building", "reviving", "reading"}

(* While the mutex of the group's record is free nobody reads a mapping:   *)
(* every mapping that is open is the group's, so that whoever reads one    *)
(* has that mutex.                                                         *)
LEMMA NobodyReads ==
    ASSUME ServerOK, MapInv, group.rec \in Rec, rmuFree(group.rec), NEW h \in Handler
    PROVE  handler[h].pc \notin Reading
<1> USE Numbers
<1> SUFFICES ASSUME handler[h].pc \in Reading PROVE FALSE
  OBVIOUS
<1>1. PICK r \in Rec : r = handler[h].rec
  BY HasRec DEF MapInv, Reading
<1>2. PICK m : Open(m) /\ Uses(r, m)
  BY <1>1 DEF MapInv, NoReadAfterUnmap, Reading, Uses, Holds
<1>3. m \in Map
  <2>1. m \in Map \cup {NoMap}
    <3>1. m \in Holds(r) => m \in Map \cup {NoMap}
      BY <1>1 DEF Holds, ServerOK, RepoOK, Loaded, Index
    <3>2. \A k \in Handler : handler[k].idx.label \in Map \cup {NoMap}
      BY DEF ServerOK, HandlerOK, Handling, Index
    <3>3. loader.new \in Map \cup {NoMap}
      BY DEF ServerOK, LoaderOK, Loading
    <3> QED BY <1>2, <3>1, <3>2, <3>3 DEF Uses
  <2> QED BY <1>2, <2>1 DEF Open
<1>4. m \in {loader.new, repo[group.rec].handle}
  BY <1>2, <1>3 DEF MapInv, NoMappingForgotten
<1>5. Uses(group.rec, m)
  BY <1>4 DEF Uses, Holds
<1>6. repo[r].root = repo[group.rec].root
  BY <1>1, <1>2, <1>3, <1>5 DEF MapInv, OneMutex
<1>7. readerMu[repo[r].root] = h
  BY <1>1 DEF MapInv, MutexInv, Reading
<1> QED BY <1>6, <1>7, HandlerAssumption DEF rmuFree

(* The loader's moves. *)
LEMMA MovesKeepMap ==
    ASSUME GenTypeOK, ServerOK, MapInv,
           \/ BeginReload \/ MissPinned \/ MissEverywhere \/ ReadDocPointer \/ ReadMapPointer
    PROVE  ServerOK' /\ MapInv'
<1>1. /\ loader' \in Loading /\ loader'.new = loader.new
      /\ loader'.pc \in {"idle", "find", "anyref", "load", "map"}
      /\ loader.pc \notin {"reset", "publish"}
      /\ loader'.pc = "find" => group.at = "resident" /\ ~down
      /\ loader'.pc \in {"anyref", "load", "map"} => loader.pc # "idle"
      /\ loader'.pc \in {"load", "map"} => loader.pc \in {"doc", "reader"}
      /\ UNCHANGED <<diskVars, repo, map, group, handler, gate, down, evicts, readerMu>>
  BY LoaderMoves, LoaderValues DEF MapInv, LoaderInv, ServerOK
<1>2. ServerOK'
  BY <1>1 DEF ServerOK, RepoOK, MapOK, GroupOK, LoaderOK, MutexOK, HandlerOK, OthersOK
<1>3. LoaderInv' /\ HandlerInv' /\ MutexInv'
  BY <1>1 DEF MapInv, LoaderInv, HandlerInv, MutexInv
<1>4. UsesShrink /\ OpenShrinks
  BY <1>1 DEF UsesShrink, OpenShrinks, Uses, Holds, Open
<1>5. OneMutex'
  BY <1>4, ShrinkKeepsMutex DEF MapInv
<1>6. ServedOpen' /\ NoReadAfterUnmap' /\ NoMappingForgotten'
  BY <1>1 DEF MapInv, ServedOpen, NoReadAfterUnmap, NoMappingForgotten, Open
<1> QED BY <1>2, <1>3, <1>5, <1>6 DEF MapInv

(* FindGraph, which may take a record that nobody has. *)
LEMMA FindKeepsMap ==
    ASSUME GenTypeOK, ServerOK, MapInv, NEW p \in Path, FindGraph(p)
    PROVE  ServerOK' /\ MapInv'
<1> USE Numbers
<1>1. PICK r \in Rec, old \in Loaded :
        /\ \/ group.rec # NoRec /\ r = group.rec /\ old = repo[r]
           \/ group.rec = NoRec /\ r \in FreeRecs /\ old = Fresh(p, r)
        /\ loader.pc \in {"find", "anyref"}
        /\ group' \in Grouped /\ group'.rec = r /\ group'.at = group.at
        /\ repo' \in [Rec -> Loaded] /\ OnlyRec(r)
        /\ repo'[r].label = old.label /\ repo'[r].handle = old.handle
        /\ repo'[r].bm25 = old.bm25 /\ repo'[r].root = old.root
        /\ loader' \in Loading /\ loader'.new = NoMap
        /\ loader'.pc \in {"idle", "doc"}
        /\ UNCHANGED <<diskVars, map, handler, gate, down, evicts, readerMu>>
  BY FindFacts
<1>2. ServerOK'
  BY <1>1 DEF ServerOK, RepoOK, MapOK, GroupOK, LoaderOK, MutexOK, HandlerOK, OthersOK
<1>3. loader.new = NoMap /\ group.at = "resident" /\ ~down
  BY <1>1 DEF MapInv, LoaderInv
<1>4. LoaderInv'
  BY <1>1, <1>3 DEF MapInv, LoaderInv
<1>5. HandlerInv'
  BY <1>1, <1>3 DEF MapInv, HandlerInv
<1>6. r # group.rec => \A h \in Handler : handler[h].rec # r
  BY <1>1 DEF FreeRecs, Reached
<1>7. \A h \in Handler : handler[h].rec \in Rec =>
        /\ repo'[handler[h].rec].root = repo[handler[h].rec].root
        /\ repo'[handler[h].rec].handle = repo[handler[h].rec].handle
  BY <1>1, <1>6 DEF OnlyRec
<1>8. \A h \in Handler : handler[h].pc # "idle" => handler[h].rec \in Rec
  BY HasRec DEF MapInv
<1>9. MutexInv' /\ NoReadAfterUnmap'
  BY <1>1, <1>7, <1>8 DEF MapInv, MutexInv, NoReadAfterUnmap, Open
<1>10. UsesShrink
  <2> SUFFICES ASSUME NEW q \in Rec, NEW m \in Map, Uses(q, m)'
               PROVE  Uses(q, m) /\ repo'[q].root = repo[q].root
    BY DEF UsesShrink
  <2>1. CASE q # r \/ r = group.rec
    BY <1>1, <1>3, <2>1 DEF Uses, Holds, OnlyRec
  <2>2. CASE q = r /\ r # group.rec
    BY <1>1, <1>3, <1>6, <2>2 DEF Uses, Holds, Fresh, NoIndex
  <2> QED BY <2>1, <2>2
<1>11. OpenShrinks
  BY <1>1 DEF OpenShrinks, Open
<1>12. OneMutex'
  BY <1>10, <1>11, ShrinkKeepsMutex DEF MapInv
<1>13. repo'[r].handle = IF group.rec = NoRec THEN NoMap ELSE repo[group.rec].handle
  BY <1>1 DEF Fresh
<1>14. ServedOpen' /\ NoMappingForgotten'
  BY <1>1, <1>3, <1>13 DEF MapInv, ServedOpen, NoMappingForgotten, Open
<1> QED BY <1>2, <1>4, <1>5, <1>9, <1>12, <1>14 DEF MapInv

(* Stamping the record, and dropping its search index. *)
LEMMA StampsKeepMap ==
    ASSUME GenTypeOK, ServerOK, MapInv, ResetIndexes \/ \E g \in Path : LoadDoc(g)
    PROVE  ServerOK' /\ MapInv'
<1> USE Numbers
<1>1. /\ loader.pc \in {"load", "reset"} /\ group.rec \in Rec
      /\ repo' \in [Rec -> Loaded] /\ OnlyRec(group.rec)
      /\ repo'[group.rec].label = repo[group.rec].label
      /\ repo'[group.rec].handle = repo[group.rec].handle
      /\ repo'[group.rec].bm25 \in {repo[group.rec].bm25, NoIndex}
      /\ repo'[group.rec].root = repo[group.rec].root
      /\ loader' \in Loading /\ loader'.new = loader.new
      /\ loader'.pc \in {"idle", "reader", "publish"}
      /\ loader'.pc = "publish" <=> loader.pc = "reset"
      /\ UNCHANGED <<diskVars, map, group, handler, gate, down, evicts, readerMu>>
  <2>1. CASE ResetIndexes
    BY <2>1, ResetFacts DEF MapInv
  <2>2. ASSUME NEW g \in Path, LoadDoc(g)
        PROVE  /\ loader.pc = "load" /\ loader'.new = NoMap /\ loader'.pc \in {"idle", "reader"}
               /\ group.rec \in Rec
               /\ repo' \in [Rec -> Loaded] /\ OnlyRec(group.rec)
               /\ repo'[group.rec].label = repo[group.rec].label
               /\ repo'[group.rec].handle = repo[group.rec].handle
               /\ repo'[group.rec].bm25 = repo[group.rec].bm25
               /\ repo'[group.rec].root = repo[group.rec].root
               /\ loader' \in Loading
               /\ UNCHANGED <<diskVars, map, group, handler, gate, down, evicts, readerMu>>
    BY <2>2, LoadFacts, LoaderValues DEF MapInv
  <2>3. loader.pc = "load" => loader.new = NoMap
    BY DEF MapInv, LoaderInv
  <2> QED BY <2>1, <2>2, <2>3
<1>2. ServerOK'
  BY <1>1 DEF ServerOK, RepoOK, MapOK, GroupOK, LoaderOK, MutexOK, HandlerOK, OthersOK
<1>3. LoaderInv' /\ HandlerInv'
  BY <1>1 DEF MapInv, LoaderInv, HandlerInv
<1>4. \A q \in Rec : /\ repo'[q].root = repo[q].root /\ repo'[q].handle = repo[q].handle
                     /\ Holds(q)' \subseteq Holds(q) \cup {NoMap}
  BY <1>1 DEF OnlyRec, Holds, NoIndex
<1>5. \A h \in Handler : handler[h].pc # "idle" => handler[h].rec \in Rec
  BY HasRec DEF MapInv
<1>6. MutexInv' /\ NoReadAfterUnmap'
  BY <1>1, <1>4, <1>5 DEF MapInv, MutexInv, NoReadAfterUnmap, Open
<1>7. UsesShrink /\ OpenShrinks
  BY <1>1, <1>4 DEF UsesShrink, OpenShrinks, Uses, Open
<1>8. OneMutex'
  BY <1>7, ShrinkKeepsMutex DEF MapInv
<1>9. ServedOpen' /\ NoMappingForgotten'
  BY <1>1, <1>4 DEF MapInv, ServedOpen, NoMappingForgotten, Open
<1> QED BY <1>2, <1>3, <1>6, <1>8, <1>9 DEF MapInv

(* What OpenReader maps nobody else uses. *)
LEMMA OpenKeepsMap ==
    ASSUME GenTypeOK, ServerOK, MapInv, NEW g \in Path, OpenReader(g)
    PROVE  ServerOK' /\ MapInv'
<1> USE Numbers
<1>1. PICK m \in Map \cup {NoMap} :
        /\ loader.pc = "map" /\ group.rec \in Rec
        /\ \/ g = Absent /\ m = NoMap /\ map' = map
           \/ g # Absent /\ m \in FreeMaps /\ map' = [map EXCEPT ![m] = g]
        /\ map' \in [Map -> {Unmapped, Flat} \cup Gen]
        /\ loader' \in Loading /\ loader'.pc = "reset" /\ loader'.new = m
        /\ repo' \in [Rec -> Loaded] /\ OnlyRec(group.rec)
        /\ repo'[group.rec].label = m
        /\ repo'[group.rec].handle = repo[group.rec].handle
        /\ repo'[group.rec].bm25 = repo[group.rec].bm25
        /\ repo'[group.rec].root = repo[group.rec].root
        /\ UNCHANGED <<diskVars, group, handler, gate, down, evicts, readerMu>>
  BY OpenFacts DEF MapInv
<1>2. ServerOK'
  BY <1>1 DEF ServerOK, RepoOK, MapOK, GroupOK, LoaderOK, MutexOK, HandlerOK, OthersOK
<1>3. LoaderInv' /\ HandlerInv'
  BY <1>1 DEF MapInv, LoaderInv, HandlerInv
<1>4. loader.new = NoMap
  BY <1>1 DEF MapInv, LoaderInv
<1>5. \A q \in Rec : repo'[q].root = repo[q].root /\ repo'[q].handle = repo[q].handle
  BY <1>1 DEF OnlyRec
<1>6. m # NoMap => /\ map[m] = Unmapped /\ map'[m] # Unmapped
                   /\ \A q \in Rec : m \notin Holds(q)
                   /\ \A h \in Handler : handler[h].idx.label # m
  <2> SUFFICES ASSUME m # NoMap
               PROVE  /\ map[m] = Unmapped /\ map'[m] # Unmapped
                      /\ \A q \in Rec : m \notin Holds(q)
                      /\ \A h \in Handler : handler[h].idx.label # m
    OBVIOUS
  <2>1. m \in FreeMaps /\ m \in Map /\ map' = [map EXCEPT ![m] = g]
    BY <1>1
  <2>2. map[m] = Unmapped /\ (\A q \in Rec : m \notin Holds(q))
        /\ \A h \in Handler : handler[h].idx.label # m
    <3>1. /\ map[m] = Unmapped /\ m \notin UNION {Holds(q) : q \in Rec}
          /\ m \notin {handler[h].idx.label : h \in Handler}
      BY <2>1, Zenon DEF FreeMaps
    <3>2. \A q \in Rec : m \notin Holds(q)
      BY <3>1
    <3> QED BY <3>1, <3>2
  <2>3. map'[m] = g /\ g # Unmapped
    BY <2>1 DEF ServerOK, MapOK, Path, Unmapped, Absent, Flat, Gen
  <2> QED BY <2>2, <2>3
<1>7. \A k \in Map : k # m => map'[k] = map[k]
  BY <1>1 DEF ServerOK, MapOK
<1>8. \A h \in Handler : handler[h].pc # "idle" => handler[h].rec \in Rec
  BY HasRec DEF MapInv
<1>9. MutexInv'
  BY <1>1, <1>5, <1>8 DEF MapInv, MutexInv
<1>10. \A k : Open(k) /\ k \in Map \cup {NoMap} => Open(k)'
  BY <1>6, <1>7 DEF Open
<1>11. \A h \in Handler : handler[h].idx.label \in Map \cup {NoMap}
  BY DEF ServerOK, HandlerOK, Handling, Index
<1>12. \A q \in Rec : repo[q].handle \in Map \cup {NoMap}
  BY DEF ServerOK, RepoOK, Loaded
<1>13. NoReadAfterUnmap'
  BY <1>1, <1>5, <1>8, <1>10, <1>11, <1>12 DEF MapInv, NoReadAfterUnmap
<1>14. OneMutex'
  <2> SUFFICES ASSUME NEW k \in Map, Open(k)', NEW r \in Rec, NEW q \in Rec,
                      Uses(r, k)', Uses(q, k)'
               PROVE  repo'[r].root = repo'[q].root
    BY DEF OneMutex
  <2>1. CASE k = m
    <3>1. \A x \in Rec : Uses(x, m)' => x = group.rec
      BY <1>1, <1>6, <2>1 DEF Uses, Holds, OnlyRec
    <3> QED BY <2>1, <3>1
  <2>2. CASE k # m
    <3>1. \A x \in Rec : Uses(x, k)' => Uses(x, k)
      BY <1>1, <2>2 DEF Uses, Holds, OnlyRec
    <3>2. Open(k)
      BY <1>7, <2>2 DEF Open
    <3>3. repo[r].root = repo[q].root
      BY <3>1, <3>2 DEF MapInv, OneMutex
    <3> QED BY <1>5, <3>3
  <2> QED BY <2>1, <2>2
<1>15. ServedOpen'
  <2>1. repo[group.rec].handle # NoMap => Open(repo[group.rec].handle)'
    BY <1>1, <1>10, <1>12 DEF MapInv, ServedOpen
  <2>2. m # NoMap => Open(m)' /\ repo[group.rec].handle # m
    BY <1>1, <1>6 DEF Open, Holds
  <2> QED BY <1>1, <2>1, <2>2 DEF ServedOpen
<1>16. NoMappingForgotten'
  <2> SUFFICES ASSUME NEW k \in Map, Open(k)', k # m PROVE k = repo'[group.rec].handle
    BY <1>1 DEF NoMappingForgotten
  <2>1. Open(k)
    BY <1>7 DEF Open
  <2> QED BY <1>1, <1>4, <2>1 DEF MapInv, NoMappingForgotten, Open
<1> QED BY <1>2, <1>3, <1>9, <1>13, <1>14, <1>15, <1>16 DEF MapInv

(* What publishHandle retires nobody is reading. *)
LEMMA PublishKeepsMap ==
    ASSUME GenTypeOK, ServerOK, MapInv, PublishHandle
    PROVE  ServerOK' /\ MapInv'
<1> USE Numbers
<1>1. /\ loader.pc = "publish" /\ group.rec \in Rec /\ rmuFree(group.rec)
      /\ loader' \in Loading /\ loader'.pc = "idle" /\ loader'.new = NoMap
      /\ map' \in [Map -> {Unmapped, Flat} \cup Gen]
      /\ \A k \in Map : map'[k] = IF k = repo[group.rec].handle THEN Unmapped ELSE map[k]
      /\ repo' \in [Rec -> Loaded] /\ OnlyRec(group.rec)
      /\ repo'[group.rec].label = repo[group.rec].label
      /\ repo'[group.rec].handle = loader.new
      /\ repo'[group.rec].bm25 = repo[group.rec].bm25
      /\ repo'[group.rec].root = repo[group.rec].root
      /\ UNCHANGED <<diskVars, group, handler, gate, down, evicts, readerMu>>
  BY PublishFacts, LoaderValues DEF MapInv
<1>2. ServerOK'
  BY <1>1 DEF ServerOK, RepoOK, MapOK, GroupOK, LoaderOK, MutexOK, HandlerOK, OthersOK
<1>3. LoaderInv' /\ HandlerInv'
  BY <1>1 DEF MapInv, LoaderInv, HandlerInv
<1>4. \A h \in Handler : handler'[h].pc \notin Reading
  BY <1>1, NobodyReads
<1>5. MutexInv' /\ NoReadAfterUnmap'
  BY <1>4 DEF MutexInv, NoReadAfterUnmap, Reading
<1>6. UsesShrink
  BY <1>1 DEF UsesShrink, Uses, Holds, OnlyRec
<1>7. OpenShrinks
  BY <1>1 DEF OpenShrinks, Open
<1>8. OneMutex'
  BY <1>6, <1>7, ShrinkKeepsMutex DEF MapInv
<1>9. loader.new \in Map \cup {NoMap}
  BY DEF ServerOK, LoaderOK, Loading
<1>10. ServedOpen'
  BY <1>1, <1>9 DEF MapInv, ServedOpen, Open
<1>11. NoMappingForgotten'
  BY <1>1 DEF MapInv, NoMappingForgotten, Open
<1> QED BY <1>2, <1>3, <1>5, <1>8, <1>10, <1>11 DEF MapInv

(* The shell uses what the group's record used, under the same mutex. *)
LEMMA ShellKeepsMap ==
    ASSUME ServerOK, MapInv, EvictKeepingReader
    PROVE  ServerOK' /\ MapInv'
<1> USE Numbers
<1>1. PICK shell \in FreeRecs :
        /\ loader.pc = "idle" /\ ~down /\ group.at = "resident" /\ group.rec \in Rec
        /\ group' \in Grouped /\ group'.at = "cold" /\ group'.rec = shell
        /\ repo' \in [Rec -> Loaded] /\ OnlyRec(shell)
        /\ repo'[shell].label = NoMap /\ repo'[shell].bm25 = NoIndex
        /\ repo'[shell].handle = repo[group.rec].handle
        /\ repo'[shell].root = repo[group.rec].root
        /\ evicts' \in 0..MaxEvicts
        /\ UNCHANGED <<diskVars, map, loader, readerMu, handler, gate, down>>
  BY ShellFacts DEF MapInv
<1>2. /\ shell \in Rec /\ shell # group.rec /\ \A h \in Handler : handler[h].rec # shell
  BY <1>1 DEF FreeRecs, Reached
<1>3. ServerOK'
  BY <1>1 DEF ServerOK, RepoOK, MapOK, GroupOK, LoaderOK, MutexOK, HandlerOK, OthersOK
<1>4. loader.new = NoMap
  BY <1>1 DEF MapInv, LoaderInv
<1>5. LoaderInv'
  BY <1>1, <1>2, <1>4 DEF LoaderInv
<1>6. HandlerInv'
  BY <1>1 DEF MapInv, HandlerInv
<1>7. \A h \in Handler : handler[h].pc # "idle" =>
        /\ handler[h].rec \in Rec /\ repo'[handler[h].rec] = repo[handler[h].rec]
  BY <1>1, <1>2, HasRec DEF MapInv, OnlyRec
<1>8. MutexInv' /\ NoReadAfterUnmap'
  BY <1>1, <1>7 DEF MapInv, MutexInv, NoReadAfterUnmap, Open
<1>9. OneMutex'
  <2> SUFFICES ASSUME NEW m \in Map, Open(m)', NEW r \in Rec, NEW q \in Rec,
                      Uses(r, m)', Uses(q, m)'
               PROVE  repo'[r].root = repo'[q].root
    BY DEF OneMutex
  <2>1. ASSUME NEW x \in Rec, Uses(x, m)'
        PROVE  \E y \in Rec : Uses(y, m) /\ repo[y].root = repo'[x].root
    <3>1. CASE x = shell
      <4>1. m \in Holds(shell)'
        BY <1>1, <1>2, <1>4, <2>1, <3>1 DEF Uses
      <4>2. m = repo[group.rec].handle
        BY <1>1, <4>1 DEF Holds, NoIndex
      <4> QED BY <1>1, <3>1, <4>2 DEF Uses, Holds
    <3>2. CASE x # shell
      <4>1. Uses(x, m) /\ repo'[x] = repo[x]
        BY <1>1, <1>4, <2>1, <3>2 DEF Uses, Holds, OnlyRec
      <4> QED BY <4>1
    <3> QED BY <3>1, <3>2
  <2>2. Open(m)
    BY <1>1 DEF Open
  <2> QED BY <2>1, <2>2 DEF MapInv, OneMutex
<1>10. /\ group.rec # NoRec /\ group'.rec # NoRec /\ loader'.new = NoMap
       /\ repo'[group'.rec].handle = repo[group.rec].handle
       /\ \A k \in Map \cup {NoMap} : Open(k)' <=> Open(k)
  BY <1>1, <1>2, <1>4 DEF Open
<1>11. ServedOpen'
  <2>1. repo[group.rec].handle \in Map \cup {NoMap}
    BY <1>1 DEF ServerOK, RepoOK, Loaded
  <2> QED BY <1>10, <2>1 DEF MapInv, ServedOpen
<1>12. NoMappingForgotten'
  BY <1>4, <1>10 DEF MapInv, NoMappingForgotten
<1> QED BY <1>3, <1>5, <1>6, <1>8, <1>9, <1>11, <1>12 DEF MapInv

(* After what the group served from is retired nothing is open. *)
LEMMA NothingIsOpen ==
    ASSUME MapInv, loader.new = NoMap, loader'.new = NoMap, group.rec \in Rec,
           \A k \in Map : map'[k] = IF k = repo[group.rec].handle THEN Unmapped ELSE map[k]
    PROVE  (\A m \in Map : ~Open(m)') /\ OneMutex' /\ NoMappingForgotten'
<1>1. ASSUME NEW m \in Map PROVE ~Open(m)'
  <2> SUFFICES ASSUME Open(m)' PROVE FALSE
    OBVIOUS
  <2>1. Open(m) /\ m # repo[group.rec].handle
    BY DEF Open
  <2>2. m \in {NoMap, repo[group.rec].handle}
    BY <2>1, Numbers DEF MapInv, NoMappingForgotten
  <2> QED BY <2>1, <2>2 DEF Open
<1> QED BY <1>1 DEF OneMutex, NoMappingForgotten

(* A full eviction. *)
LEMMA EvictKeepsMap ==
    ASSUME ServerOK, MapInv, EvictFully
    PROVE  ServerOK' /\ MapInv'
<1> USE Numbers
<1>1. /\ loader.pc = "idle" /\ ~down /\ group.rec \in Rec /\ rmuFree(group.rec)
      /\ group.at = "resident"
      /\ group' \in Grouped /\ group'.at = "gone" /\ group'.rec = NoRec
      /\ map' \in [Map -> {Unmapped, Flat} \cup Gen]
      /\ \A k \in Map : map'[k] = IF k = repo[group.rec].handle THEN Unmapped ELSE map[k]
      /\ repo' \in [Rec -> Loaded]
      /\ evicts' \in 0..MaxEvicts
      /\ UNCHANGED <<diskVars, loader, readerMu, handler, gate, down>>
  BY EvictFacts DEF MapInv
<1>2. ServerOK'
  BY <1>1 DEF ServerOK, RepoOK, MapOK, GroupOK, LoaderOK, MutexOK, HandlerOK, OthersOK
<1>3. loader.new = NoMap
  BY <1>1 DEF MapInv, LoaderInv
<1>4. LoaderInv' /\ HandlerInv'
  BY <1>1, <1>3 DEF MapInv, LoaderInv, HandlerInv
<1>5. \A h \in Handler : handler'[h].pc \notin Reading
  BY <1>1, NobodyReads
<1>6. MutexInv' /\ NoReadAfterUnmap'
  BY <1>5 DEF MutexInv, NoReadAfterUnmap, Reading
<1>7. OneMutex' /\ NoMappingForgotten'
  BY <1>1, <1>3, NothingIsOpen
<1>8. ServedOpen'
  BY <1>1, <1>3 DEF ServedOpen
<1> QED BY <1>2, <1>4, <1>6, <1>7, <1>8 DEF MapInv

(* Close. *)
LEMMA CloseKeepsMap ==
    ASSUME ServerOK, MapInv, Close
    PROVE  ServerOK' /\ MapInv'
<1> USE Numbers
<1>1. /\ loader.pc = "idle" /\ down'
      /\ map' \in [Map -> {Unmapped, Flat} \cup Gen]
      /\ repo' \in [Rec -> Loaded]
      /\ UNCHANGED <<diskVars, group, loader, readerMu, handler, gate, evicts>>
  BY CloseFacts DEF MapInv
<1>2. ServerOK'
  BY <1>1 DEF ServerOK, RepoOK, MapOK, GroupOK, LoaderOK, MutexOK, HandlerOK, OthersOK
<1>3. loader.new = NoMap
  BY <1>1 DEF MapInv, LoaderInv
<1>4. LoaderInv' /\ HandlerInv'
  BY <1>1, <1>3 DEF MapInv, LoaderInv, HandlerInv
<1>5. CASE group.rec = NoRec
  <2>1. map' = map /\ repo' = repo
    BY <1>5, CloseFacts
  <2>2. UsesShrink /\ OpenShrinks
    BY <1>1, <2>1 DEF UsesShrink, OpenShrinks, Uses, Holds, Open
  <2>3. OneMutex'
    BY <2>2, ShrinkKeepsMutex DEF MapInv
  <2>4. MutexInv' /\ ServedOpen' /\ NoReadAfterUnmap' /\ NoMappingForgotten'
    BY <1>1, <2>1 DEF MapInv, MutexInv, ServedOpen, NoReadAfterUnmap, NoMappingForgotten, Open
  <2> QED BY <1>2, <1>4, <2>3, <2>4 DEF MapInv
<1>6. CASE group.rec # NoRec
  <2>1. /\ group.rec \in Rec /\ rmuFree(group.rec) /\ repo'[group.rec].handle = NoMap
        /\ \A k \in Map : map'[k] = IF k = repo[group.rec].handle THEN Unmapped ELSE map[k]
    BY <1>6, CloseFacts
  <2>2. \A h \in Handler : handler'[h].pc \notin Reading
    BY <1>1, <2>1, NobodyReads
  <2>3. MutexInv' /\ NoReadAfterUnmap'
    BY <2>2 DEF MutexInv, NoReadAfterUnmap, Reading
  <2>4. OneMutex' /\ NoMappingForgotten'
    BY <1>1, <1>3, <2>1, NothingIsOpen
  <2>5. ServedOpen'
    BY <1>1, <1>3, <2>1 DEF ServedOpen
  <2> QED BY <1>2, <1>4, <2>3, <2>4, <2>5 DEF MapInv
<1> QED BY <1>5, <1>6

(* Un-gating a group after a full eviction. *)
LEMMA ReviveKeepsMap ==
    ASSUME GenTypeOK, ServerOK, MapInv, ReviveFully
    PROVE  ServerOK' /\ MapInv'
<1> USE Numbers
<1>1. /\ ~down /\ group.at = "gone" /\ group'.at = "resident" /\ group'.rec = NoRec
      /\ group' \in Grouped
      /\ UNCHANGED <<diskVars, repo, map, readerMu, handler, gate, down, evicts>>
  BY DEF ReviveFully, Grouped
<1>2. /\ loader.pc = "idle" /\ loader' \in Loading /\ loader'.pc = "find"
      /\ loader'.new = loader.new
  BY ReadFacts DEF ReviveFully, ServerOK
<1>3. ServerOK'
  BY <1>1, <1>2 DEF ServerOK, RepoOK, MapOK, GroupOK, LoaderOK, MutexOK, HandlerOK, OthersOK
<1>4. loader.new = NoMap /\ group.rec = NoRec
  BY <1>1, <1>2 DEF MapInv, LoaderInv
<1>5. LoaderInv' /\ HandlerInv' /\ MutexInv'
  BY <1>1, <1>2, <1>4 DEF MapInv, LoaderInv, HandlerInv, MutexInv
<1>6. UsesShrink /\ OpenShrinks
  BY <1>1, <1>2, <1>4 DEF UsesShrink, OpenShrinks, Uses, Holds, Open
<1>7. OneMutex'
  BY <1>6, ShrinkKeepsMutex DEF MapInv
<1>8. ServedOpen' /\ NoReadAfterUnmap' /\ NoMappingForgotten'
  BY <1>1, <1>2, <1>4 DEF MapInv, ServedOpen, NoReadAfterUnmap, NoMappingForgotten, Open
<1> QED BY <1>3, <1>5, <1>7, <1>8 DEF MapInv

(* A handler that comes in. *)
LEMMA EnterKeepsMap ==
    ASSUME ServerOK, MapInv, NEW h \in Handler, Lookup(h) \/ BeginRevive(h)
    PROVE  ServerOK' /\ MapInv'
<1> USE Numbers
<1>1. /\ handler[h].pc = "idle" /\ ~down /\ loader.pc = "idle" /\ group.rec \in Rec
      /\ handler' \in [Handler -> Handling] /\ OnlyOne(h)
      /\ handler'[h].rec = group.rec /\ handler'[h].idx = NoIndex
      /\ \/ handler'[h].pc = "have" /\ gate' = gate
         \/ handler'[h].pc = "revive" /\ group.at = "cold" /\ gate = None /\ gate' = h
      /\ UNCHANGED <<diskVars, repo, map, group, loader, readerMu, down, evicts>>
  BY EnterFacts DEF MapInv
<1>2. ServerOK'
  BY <1>1 DEF ServerOK, RepoOK, MapOK, GroupOK, LoaderOK, MutexOK, HandlerOK, OthersOK
<1>3. LoaderInv'
  BY <1>1 DEF MapInv, LoaderInv
<1>4. HandlerInv'
  BY <1>1, HandlerAssumption DEF MapInv, HandlerInv, OnlyOne
<1>5. MutexInv' /\ NoReadAfterUnmap'
  BY <1>1 DEF MapInv, MutexInv, NoReadAfterUnmap, OnlyOne, Open
<1>6. UsesShrink /\ OpenShrinks
  BY <1>1 DEF UsesShrink, OpenShrinks, Uses, Holds, Open, OnlyOne, NoIndex
<1>7. OneMutex'
  BY <1>6, ShrinkKeepsMutex DEF MapInv
<1>8. ServedOpen' /\ NoMappingForgotten'
  BY <1>1 DEF MapInv, ServedOpen, NoMappingForgotten, Open
<1> QED BY <1>2, <1>3, <1>4, <1>5, <1>7, <1>8 DEF MapInv

(* A handler that takes the mutex to read a mapping that is open, or goes  *)
(* on without a mapping.                                                   *)
LEMMA LockKeepsMap ==
    ASSUME ServerOK, MapInv, NEW h \in Handler,
           \/ Rematerialize(h) \/ BuildIndex(h)
           \/ Resolve(h) /\ Open(handler[h].idx.label)
    PROVE  ServerOK' /\ MapInv'
<1> USE Numbers
<1>1. PICK to \in {"reviving", "revived", "building", "reading"} :
        /\ handler[h].pc # "idle" /\ handler[h].rec \in Rec
        /\ handler[h].pc = "revive" <=> to \in {"reviving", "revived"}
        /\ Goto(h, to) /\ rmuFree(handler[h].rec)
        /\ IF to = "revived" THEN readerMu' = readerMu ELSE Lock(h)
        /\ to = "reviving" => repo[handler[h].rec].handle # NoMap
        /\ to = "building" => Open(repo[handler[h].rec].handle)
        /\ to = "reading" => Open(handler[h].idx.label)
        /\ UNCHANGED <<diskVars, map, loader, down, evicts, repo, group, gate>>
  <2>1. CASE Rematerialize(h)
    BY <2>1, HasRec DEF Rematerialize, OnlyHandler, MapInv
  <2>2. CASE BuildIndex(h)
    BY <2>2, HasRec DEF BuildIndex, OnlyHandler, MapInv
  <2>3. CASE Resolve(h) /\ Open(handler[h].idx.label)
    BY <2>3, HasRec DEF Resolve, OnlyHandler, MapInv
  <2> QED BY <2>1, <2>2, <2>3
<1>2. /\ handler' \in [Handler -> Handling] /\ OnlyOne(h)
      /\ handler'[h].pc = to /\ handler'[h].rec = handler[h].rec
      /\ handler'[h].idx = handler[h].idx
  BY <1>1, GotoFacts DEF ServerOK
<1>3. PICK x \in Rec : x = repo[handler[h].rec].root
  BY <1>1, LockFacts
<1>4. /\ readerMu' \in [Rec -> Handler \cup {None}] /\ readerMu[x] = None
      /\ to # "revived" => readerMu'[x] = h
      /\ \A y \in Rec : y # x => readerMu'[y] = readerMu[y]
  BY <1>1, <1>3, LockFacts DEF rmuFree, ServerOK, MutexOK
<1>5. ServerOK'
  BY <1>1, <1>2, <1>4 DEF ServerOK, RepoOK, MapOK, GroupOK, LoaderOK, MutexOK, HandlerOK, OthersOK
<1>6. LoaderInv'
  BY <1>1 DEF MapInv, LoaderInv
<1>7. HandlerInv'
  BY <1>1, <1>2 DEF MapInv, HandlerInv, OnlyOne
<1>8. MutexInv'
  <2> SUFFICES ASSUME NEW k \in Handler, handler'[k].pc \in {"building", "reviving", "reading"}
               PROVE  readerMu'[repo'[handler'[k].rec].root] = k
    BY DEF MutexInv
  <2>1. CASE k = h
    BY <1>1, <1>2, <1>3, <1>4, <2>1
  <2>2. CASE k # h
    <3>1. handler'[k] = handler[k] /\ handler[k].pc # "idle"
      BY <1>2, <2>2 DEF OnlyOne
    <3>2. handler[k].rec \in Rec /\ repo[handler[k].rec].root \in Rec
      BY <3>1, HasRec DEF MapInv, ServerOK, RepoOK, Loaded
    <3>3. readerMu[repo[handler[k].rec].root] = k
      BY <3>1 DEF MapInv, MutexInv
    <3>4. repo[handler[k].rec].root # x
      BY <1>4, <3>3, HandlerAssumption
    <3> QED BY <1>1, <1>4, <3>1, <3>2, <3>3, <3>4
  <2> QED BY <2>1, <2>2
<1>9. to = "reviving" => Open(repo[handler[h].rec].handle)
  BY <1>1 DEF MapInv, HandlerInv, ServedOpen
<1>10. NoReadAfterUnmap'
  BY <1>1, <1>2, <1>9 DEF MapInv, NoReadAfterUnmap, OnlyOne, Open
<1>11. UsesShrink /\ OpenShrinks
  BY <1>1, <1>2 DEF UsesShrink, OpenShrinks, Uses, Holds, Open, OnlyOne
<1>12. OneMutex'
  BY <1>11, ShrinkKeepsMutex DEF MapInv
<1>13. ServedOpen' /\ NoMappingForgotten'
  BY <1>1 DEF MapInv, ServedOpen, NoMappingForgotten, Open
<1> QED BY <1>5, <1>6, <1>7, <1>8, <1>10, <1>12, <1>13 DEF MapInv

(* A handler that gives the mutex up leaves it to the others. *)
LEMMA UnlockFacts ==
    ASSUME ServerOK, MapInv, NEW h \in Handler, handler[h].rec \in Rec,
           handler[h].pc \in Reading, Unlock(h), OnlyOne(h),
           NEW k \in Handler, k # h, handler'[k].pc \in Reading
    PROVE  readerMu'[repo[handler'[k].rec].root] = k
<1> USE Numbers
<1>1. handler'[k] = handler[k] /\ handler[k].pc # "idle"
  BY DEF OnlyOne, Reading
<1>2. handler[k].rec \in Rec /\ repo[handler[k].rec].root \in Rec
  BY <1>1, HasRec DEF MapInv, ServerOK, RepoOK, Loaded
<1>3. readerMu[repo[handler[k].rec].root] = k /\ readerMu[repo[handler[h].rec].root] = h
  BY <1>1 DEF MapInv, MutexInv, Reading
<1>4. repo[handler[k].rec].root # repo[handler[h].rec].root
  BY <1>3
<1> QED BY <1>1, <1>2, <1>3, <1>4, LockFacts

(* A shell's label index is built over the mapping it serves from. *)
LEMMA RematerializeKeepsMap ==
    ASSUME ServerOK, MapInv, NEW h \in Handler, EndRematerialize(h)
    PROVE  ServerOK' /\ MapInv'
<1> USE Numbers
<1>1. PICK r \in Rec :
        /\ r = handler[h].rec /\ handler[h].pc = "reviving"
        /\ repo' \in [Rec -> Loaded] /\ OnlyRec(r) /\ Serves(r)
        /\ repo'[r].label = repo[r].handle /\ repo'[r].bm25 = repo[r].bm25
        /\ Goto(h, "revived") /\ Unlock(h)
        /\ UNCHANGED <<diskVars, map, group, loader, gate, down, evicts>>
  BY EndRematerializeFacts DEF MapInv
<1>2. /\ handler' \in [Handler -> Handling] /\ OnlyOne(h)
      /\ handler'[h].pc = "revived" /\ handler'[h].rec = handler[h].rec
      /\ handler'[h].idx = handler[h].idx
  BY <1>1, GotoFacts DEF ServerOK
<1>3. readerMu' \in [Rec -> Handler \cup {None}]
  BY <1>1, LockFacts
<1>4. ServerOK'
  BY <1>1, <1>2, <1>3 DEF ServerOK, RepoOK, MapOK, GroupOK, LoaderOK, MutexOK, HandlerOK, OthersOK
<1>5. LoaderInv' /\ HandlerInv'
  BY <1>1, <1>2 DEF MapInv, LoaderInv, HandlerInv, OnlyOne
<1>6. \A q \in Rec : /\ repo'[q].root = repo[q].root /\ repo'[q].handle = repo[q].handle
                     /\ Holds(q)' \subseteq Holds(q)
  BY <1>1 DEF OnlyRec, Serves, Holds
<1>7. \A k \in Handler : handler'[k].pc \in Reading =>
        k # h /\ handler'[k] = handler[k] /\ handler[k].rec \in Rec
  BY <1>2, HasRec DEF MapInv, OnlyOne, Reading
<1>8. MutexInv'
  <2> SUFFICES ASSUME NEW k \in Handler, handler'[k].pc \in Reading
               PROVE  readerMu'[repo'[handler'[k].rec].root] = k
    BY DEF MutexInv, Reading
  <2>1. readerMu'[repo[handler'[k].rec].root] = k
    BY <1>1, <1>2, <1>7, UnlockFacts DEF Reading
  <2> QED BY <1>6, <1>7, <2>1
<1>9. NoReadAfterUnmap'
  BY <1>1, <1>6, <1>7 DEF MapInv, NoReadAfterUnmap, Reading, Open
<1>10. UsesShrink /\ OpenShrinks
  BY <1>1, <1>2, <1>6 DEF UsesShrink, OpenShrinks, Uses, Open, OnlyOne
<1>11. OneMutex'
  BY <1>10, ShrinkKeepsMutex DEF MapInv
<1>12. ServedOpen' /\ NoMappingForgotten'
  BY <1>1, <1>6 DEF MapInv, ServedOpen, NoMappingForgotten, Open, LoaderInv, GroupOK, Grouped,
                    ServerOK
<1> QED BY <1>4, <1>5, <1>8, <1>9, <1>11, <1>12 DEF MapInv

(* A search index is built over the record's own label index. *)
LEMMA BuildKeepsMap ==
    ASSUME ServerOK, MapInv, NEW h \in Handler, EndBuild(h) \/ BuildEmpty(h)
    PROVE  ServerOK' /\ MapInv'
<1> USE Numbers
<1>1. PICK r \in Rec :
        /\ r = handler[h].rec /\ handler[h].pc \in {"building", "have"}
        /\ repo' \in [Rec -> Loaded] /\ OnlyRec(r) /\ Serves(r)
        /\ repo'[r].label = repo[r].label
        /\ repo'[r].bm25.label \in {NoMap, repo[r].label}
        /\ handler' \in [Handler -> Handling] /\ OnlyOne(h)
        /\ handler'[h].pc = "resolve" /\ handler'[h].rec = handler[h].rec
        /\ handler'[h].idx.label \in {handler[h].idx.label, repo[r].label}
        /\ \/ handler[h].pc = "building" /\ Unlock(h)
           \/ handler[h].pc = "have" /\ readerMu' = readerMu
        /\ UNCHANGED <<diskVars, map, group, loader, gate, down, evicts>>
  BY BuildFacts DEF MapInv
<1>2. readerMu' \in [Rec -> Handler \cup {None}]
  BY <1>1, LockFacts DEF ServerOK, MutexOK
<1>3. ServerOK'
  BY <1>1, <1>2 DEF ServerOK, RepoOK, MapOK, GroupOK, LoaderOK, MutexOK, HandlerOK, OthersOK
<1>4. LoaderInv' /\ HandlerInv'
  BY <1>1 DEF MapInv, LoaderInv, HandlerInv, OnlyOne
<1>5. \A q \in Rec : /\ repo'[q].root = repo[q].root /\ repo'[q].handle = repo[q].handle
                     /\ Holds(q)' \subseteq Holds(q) \cup {NoMap}
  BY <1>1 DEF OnlyRec, Serves, Holds
<1>6. \A k \in Handler : handler'[k].pc \in Reading =>
        k # h /\ handler'[k] = handler[k] /\ handler[k].rec \in Rec
  BY <1>1, HasRec DEF MapInv, OnlyOne, Reading
<1>7. MutexInv'
  <2> SUFFICES ASSUME NEW k \in Handler, handler'[k].pc \in Reading
               PROVE  readerMu'[repo'[handler'[k].rec].root] = k
    BY DEF MutexInv, Reading
  <2>1. readerMu'[repo[handler'[k].rec].root] = k
    <3>1. CASE handler[h].pc = "building" /\ Unlock(h)
      BY <1>1, <1>6, <3>1, UnlockFacts DEF Reading
    <3>2. CASE readerMu' = readerMu
      BY <1>6, <3>2 DEF MapInv, MutexInv, Reading
    <3> QED BY <1>1, <3>1, <3>2
  <2> QED BY <1>5, <1>6, <2>1
<1>8. NoReadAfterUnmap'
  BY <1>1, <1>5, <1>6 DEF MapInv, NoReadAfterUnmap, Reading, Open
<1>9. UsesShrink
  <2> SUFFICES ASSUME NEW q \in Rec, NEW m \in Map, Uses(q, m)'
               PROVE  Uses(q, m)
    BY <1>5 DEF UsesShrink
  <2>1. CASE m \in Holds(q)'
    BY <1>5, <2>1 DEF Uses
  <2>2. CASE \E k \in Handler : handler'[k].rec = q /\ handler'[k].idx.label = m
    <3>1. PICK k \in Handler : handler'[k].rec = q /\ handler'[k].idx.label = m
      BY <2>2
    <3>2. CASE k # h
      BY <1>1, <3>1, <3>2 DEF Uses, OnlyOne
    <3>3. CASE k = h /\ m = handler[h].idx.label
      BY <1>1, <3>1, <3>3 DEF Uses
    <3>4. CASE k = h /\ m = repo[r].label
      BY <1>1, <3>1, <3>4 DEF Uses, Holds
    <3> QED BY <1>1, <3>1, <3>2, <3>3, <3>4
  <2>3. CASE q = group'.rec /\ loader'.new = m
    BY <1>1, <2>3 DEF Uses
  <2> QED BY <2>1, <2>2, <2>3 DEF Uses
<1>10. OpenShrinks
  BY <1>1 DEF OpenShrinks, Open
<1>11. OneMutex'
  BY <1>9, <1>10, ShrinkKeepsMutex DEF MapInv
<1>12. ServedOpen' /\ NoMappingForgotten'
  BY <1>1, <1>5 DEF MapInv, ServedOpen, NoMappingForgotten, Open, LoaderInv, GroupOK, Grouped,
                    ServerOK
<1> QED BY <1>3, <1>4, <1>7, <1>8, <1>11, <1>12 DEF MapInv

(* An index that is there is the record's. *)
LEMMA UseKeepsMap ==
    ASSUME ServerOK, MapInv, NEW h \in Handler, UseIndex(h)
    PROVE  ServerOK' /\ MapInv'
<1> USE Numbers
<1>1. PICK r \in Rec :
        /\ r = handler[h].rec /\ handler[h].pc = "have"
        /\ handler' \in [Handler -> Handling] /\ OnlyOne(h)
        /\ handler'[h].pc = "resolve" /\ handler'[h].rec = r
        /\ handler'[h].idx = repo[r].bm25
        /\ UNCHANGED <<diskVars, repo, map, group, loader, readerMu, gate, down, evicts>>
  BY UseFacts DEF MapInv
<1>2. ServerOK'
  BY <1>1 DEF ServerOK, RepoOK, MapOK, GroupOK, LoaderOK, MutexOK, HandlerOK, OthersOK
<1>3. LoaderInv' /\ HandlerInv'
  BY <1>1 DEF MapInv, LoaderInv, HandlerInv, OnlyOne
<1>4. MutexInv' /\ NoReadAfterUnmap'
  BY <1>1 DEF MapInv, MutexInv, NoReadAfterUnmap, OnlyOne, Open
<1>5. UsesShrink
  BY <1>1 DEF UsesShrink, Uses, Holds, OnlyOne
<1>6. OpenShrinks
  BY <1>1 DEF OpenShrinks, Open
<1>7. OneMutex'
  BY <1>5, <1>6, ShrinkKeepsMutex DEF MapInv
<1>8. ServedOpen' /\ NoMappingForgotten'
  BY <1>1 DEF MapInv, ServedOpen, NoMappingForgotten, Open
<1> QED BY <1>2, <1>3, <1>4, <1>7, <1>8 DEF MapInv

(* A handler that is through with the revive, or with the search.          *)
LEMMA DoneKeepsMap ==
    ASSUME ServerOK, MapInv, NEW h \in Handler,
           \/ Revived(h) \/ EndRead(h)
           \/ Resolve(h) /\ ~Open(handler[h].idx.label)
    PROVE  ServerOK' /\ MapInv'
<1> USE Numbers
<1>1. /\ handler[h].rec \in Rec
      /\ \/ Leave(h) \/ (Goto(h, "have") /\ repo' = repo)
      /\ \/ handler[h].pc = "revived" /\ loader.pc = "idle" /\ readerMu' = readerMu
            /\ group' = [group EXCEPT !.at = "resident"] /\ gate' = None
         \/ handler[h].pc = "reading" /\ Unlock(h) /\ group' = group /\ gate' = gate
         \/ handler[h].pc = "resolve" /\ readerMu' = readerMu /\ group' = group /\ gate' = gate
      /\ UNCHANGED <<diskVars, map, loader, down, evicts>>
  <2>1. CASE Revived(h)
    BY <2>1, HasRec DEF Revived, Unlocked, OnlyHandler, MapInv
  <2>2. CASE EndRead(h)
    BY <2>2, HasRec DEF EndRead, OnlyHandler, MapInv
  <2>3. CASE Resolve(h) /\ ~Open(handler[h].idx.label)
    BY <2>3, HasRec DEF Resolve, OnlyHandler, MapInv
  <2> QED BY <2>1, <2>2, <2>3
<1>2. /\ handler' \in [Handler -> Handling] /\ OnlyOne(h)
      /\ \/ handler'[h] = NoHandler
         \/ handler'[h].pc = "have" /\ handler'[h].rec = handler[h].rec
            /\ handler'[h].idx = handler[h].idx /\ repo' = repo
      /\ repo' \in [Rec -> Loaded] /\ Collected(h)
  <2>1. CASE Leave(h)
    BY <2>1, LeaveFacts
  <2>2. CASE Goto(h, "have") /\ repo' = repo
    BY <2>2, GotoFacts DEF Collected, ServerOK, RepoOK
  <2> QED BY <1>1, <2>1, <2>2
<1>3. readerMu' \in [Rec -> Handler \cup {None}]
  BY <1>1, LockFacts DEF ServerOK, MutexOK
<1>4. /\ group' \in Grouped /\ group'.rec = group.rec
      /\ \/ group'.at = group.at /\ handler[h].pc # "revived"
         \/ handler[h].pc = "revived" /\ group'.at = "resident"
      /\ gate' \in Handler \cup {None}
  BY <1>1 DEF ServerOK, GroupOK, Grouped, OthersOK
<1>5. ServerOK'
  BY <1>1, <1>2, <1>3, <1>4
     DEF ServerOK, RepoOK, MapOK, GroupOK, LoaderOK, MutexOK, HandlerOK, OthersOK
<1>6. handler[h].pc = "revived" => gate = h /\ group.at = "cold" /\ loader.pc = "idle"
  BY <1>1 DEF MapInv, HandlerInv
<1>7. LoaderInv'
  BY <1>1, <1>4, <1>6 DEF MapInv, LoaderInv
<1>8. \A k \in Handler : k # h /\ handler[k].pc \in {"revive", "reviving", "revived"} =>
        handler[h].pc # "revived"
  BY <1>6 DEF MapInv, HandlerInv
<1>9. HandlerInv'
  BY <1>1, <1>2, <1>4, <1>8 DEF MapInv, HandlerInv, OnlyOne, NoHandler
<1>10. \A k \in Handler : k # h /\ handler[k].pc # "idle" =>
         /\ handler[k].rec \in Rec /\ repo'[handler[k].rec] = repo[handler[k].rec]
  BY <1>2, HasRec DEF MapInv, Collected
<1>11. \A k \in Handler : handler'[k].pc \in Reading => k # h /\ handler'[k] = handler[k]
                                                       /\ handler[k].pc # "idle"
  BY <1>2 DEF OnlyOne, Reading, NoHandler
<1>12. MutexInv'
  <2> SUFFICES ASSUME NEW k \in Handler, handler'[k].pc \in Reading
               PROVE  readerMu'[repo'[handler'[k].rec].root] = k
    BY DEF MutexInv, Reading
  <2>1. readerMu'[repo[handler'[k].rec].root] = k
    <3>1. CASE handler[h].pc = "reading" /\ Unlock(h)
      BY <1>1, <1>2, <1>11, <3>1, UnlockFacts DEF Reading
    <3>2. CASE readerMu' = readerMu
      BY <1>11, <3>2 DEF MapInv, MutexInv, Reading
    <3> QED BY <1>1, <3>1, <3>2
  <2> QED BY <1>10, <1>11, <2>1
<1>13. NoReadAfterUnmap'
  BY <1>1, <1>10, <1>11 DEF MapInv, NoReadAfterUnmap, Reading, Open
<1>14. UsesShrink
  <2> SUFFICES ASSUME NEW q \in Rec, NEW m \in Map, Uses(q, m)'
               PROVE  Uses(q, m) /\ repo'[q].root = repo[q].root
    BY DEF UsesShrink
  <2>1. CASE repo'[q] = repo[q]
    <3>1. \A k \in Handler : handler'[k].rec = q /\ handler'[k].idx.label = m
            => handler[k].rec = q /\ handler[k].idx.label = m
      BY <1>2 DEF OnlyOne, NoHandler
    <3> QED BY <1>1, <1>4, <2>1, <3>1 DEF Uses, Holds
  <2>2. CASE repo'[q] = Fresh(Absent, q) /\ repo'[q] # repo[q]
    <3>1. /\ q # group.rec /\ \A k \in Handler : k # h => handler[k].rec # q
          /\ handler'[h] = NoHandler
      BY <1>2, <2>2 DEF Collected
    <3>2. \A k \in Handler : handler'[k].rec # q
      BY <1>2, <3>1 DEF OnlyOne, NoHandler
    <3>3. m \notin Holds(q)'
      BY <2>2 DEF Holds, Fresh, NoIndex
    <3> QED BY <1>4, <3>1, <3>2, <3>3 DEF Uses
  <2> QED BY <1>2, <2>1, <2>2 DEF Collected
<1>15. OpenShrinks
  BY <1>1 DEF OpenShrinks, Open
<1>16. OneMutex'
  BY <1>14, <1>15, ShrinkKeepsMutex DEF MapInv
<1>17. group.rec \in Rec => repo'[group.rec] = repo[group.rec]
  BY <1>2 DEF Collected
<1>18. ServedOpen' /\ NoMappingForgotten'
  BY <1>1, <1>4, <1>17 DEF MapInv, ServedOpen, NoMappingForgotten, Open, LoaderInv, GroupOK,
                           Grouped, ServerOK
<1> QED BY <1>5, <1>7, <1>9, <1>12, <1>13, <1>16, <1>18 DEF MapInv

(* The server starts with nothing mapped and nobody in. *)
LEMMA InitMap == Init => ServerOK /\ MapInv
<1> USE Numbers
<1> SUFFICES ASSUME Init PROVE ServerOK /\ MapInv
  OBVIOUS
<1>1. \A r \in Rec : Fresh(Absent, r) \in Loaded
  BY DEF Fresh, Loaded
<1>2. NoHandler \in Handling
  BY DEF NoHandler, Handling
<1>3. ServerOK
  <2>1. RepoOK /\ HandlerOK
    BY <1>1, <1>2 DEF Init, RepoOK, HandlerOK
  <2>2. MapOK /\ MutexOK /\ OthersOK
    <3>1. MapOK
      BY DEF Init, MapOK
    <3>2. MutexOK
      BY DEF Init, MutexOK
    <3>3. OthersOK
      <4>1. gate = None /\ down = FALSE /\ evicts = 0
        BY DEF Init
      <4>2. evicts \in 0..MaxEvicts
        BY <4>1
      <4>3. gate \in Handler \cup {None} /\ down \in BOOLEAN
        BY <4>1
      <4> QED BY <4>2, <4>3 DEF OthersOK
    <3> QED BY <3>1, <3>2, <3>3
  <2>3. GroupOK /\ LoaderOK
    BY LoaderValues DEF Init, GroupOK, Grouped, LoaderOK
  <2> QED BY <2>1, <2>2, <2>3 DEF ServerOK
<1>4. /\ group.rec = NoRec /\ group.at = "resident" /\ loader.pc = "idle" /\ loader.new = NoMap
      /\ \A h \in Handler : handler[h] = NoHandler
      /\ \A m \in Map : ~Open(m)
  BY LoaderValues DEF Init, Open
<1>5. LoaderInv /\ HandlerInv /\ MutexInv /\ NoReadAfterUnmap
  BY <1>4 DEF LoaderInv, HandlerInv, MutexInv, NoReadAfterUnmap, NoHandler
<1>6. OneMutex /\ ServedOpen /\ NoMappingForgotten
  BY <1>4 DEF OneMutex, ServedOpen, NoMappingForgotten
<1> QED BY <1>3, <1>5, <1>6 DEF MapInv

(* Every step of the server and of the indexer keeps the mappings right. *)
LEMMA NextMap ==
    ASSUME GenTypeOK, ServerOK, MapInv, [Next]_vars
    PROVE  ServerOK' /\ MapInv'
<1>1. ASSUME UNCHANGED <<repo, map, group, loader, readerMu, handler, gate, down, evicts>>
      PROVE  ServerOK' /\ MapInv'
  <2>1. ServerOK'
    BY <1>1 DEF ServerOK, RepoOK, MapOK, GroupOK, LoaderOK, MutexOK, HandlerOK, OthersOK
  <2>2. UsesShrink /\ OpenShrinks
    BY <1>1 DEF UsesShrink, OpenShrinks, Uses, Holds, Open
  <2>3. OneMutex'
    BY <2>2, ShrinkKeepsMutex DEF MapInv
  <2>4. LoaderInv' /\ HandlerInv' /\ MutexInv'
    BY <1>1 DEF MapInv, LoaderInv, HandlerInv, MutexInv
  <2>5. ServedOpen' /\ NoReadAfterUnmap' /\ NoMappingForgotten'
    BY <1>1 DEF MapInv, ServedOpen, NoReadAfterUnmap, NoMappingForgotten, Open
  <2> QED BY <2>1, <2>3, <2>4, <2>5 DEF MapInv
<1>2. CASE LoaderStep
  BY <1>2, MovesKeepMap, FindKeepsMap, StampsKeepMap, OpenKeepsMap, PublishKeepsMap DEF LoaderStep
<1>3. ASSUME NEW h \in Handler, HandlerStep(h) PROVE ServerOK' /\ MapInv'
  BY <1>3, EnterKeepsMap, LockKeepsMap, RematerializeKeepsMap, BuildKeepsMap, UseKeepsMap,
     DoneKeepsMap DEF HandlerStep
<1>4. CASE ReviveFully
  BY <1>4, ReviveKeepsMap
<1>5. CASE EvictKeepingReader
  BY <1>5, ShellKeepsMap
<1>6. CASE EvictFully
  BY <1>6, EvictKeepsMap
<1>7. CASE Close
  BY <1>7, CloseKeepsMap
<1>8. CASE UNCHANGED vars
  BY <1>1, <1>8 DEF vars
<1> QED BY <1>1, <1>2, <1>3, <1>4, <1>5, <1>6, <1>7, <1>8 DEF Next

-----------------------------------------------------------------------------
(* What is current, step by step.                                          *)

(* Numbers of generations compare. *)
LEMMA Ordered ==
    ASSUME GenTypeOK, ServerOK
    PROVE  /\ pointer \in Int /\ pointer \in Path \cap Hash /\ pointer >= 0
           /\ pointer # NoHash /\ pointer # Absent
           /\ loader.saw \in Int /\ loader.path \in Int /\ loader.hash \in Int
           /\ group.rec \in Rec \cup {NoRec}
           /\ \A r \in Rec : /\ repo[r].mtime \in Path /\ repo[r].mtime \in Int
                             /\ repo[r].hash \in Hash /\ repo[r].hash \in Int
                             /\ repo[r].handle \in Map \cup {NoMap}
                             /\ repo[r].label \in Map \cup {NoMap}
<1>1. /\ pointer \in Path \cap Hash /\ pointer >= 0
      /\ pointer # NoHash /\ pointer # Absent
  BY Numbers DEF GenTypeOK, Path, Hash, Flat, NoHash, Absent
<1>2. loader.saw \in Int /\ loader.path \in Int /\ loader.hash \in Int
  BY Numbers DEF ServerOK, LoaderOK, Loading
<1>3. \A r \in Rec : /\ repo[r].mtime \in Path /\ repo[r].hash \in Hash
                     /\ repo[r].handle \in Map \cup {NoMap}
                     /\ repo[r].label \in Map \cup {NoMap}
  BY DEF ServerOK, RepoOK, Loaded
<1>4. group.rec \in Rec \cup {NoRec}
  BY DEF ServerOK, GroupOK, Grouped
<1> QED BY <1>1, <1>2, <1>3, <1>4, Numbers

(* What a loader saw is kept with the loader; what it sees now is whole. *)
LEMMA SeenKept ==
    ASSUME GInv, ServerOK, SeenBehind, OneOvertakingIsSafe, UNCHANGED diskVars,
           \/ loader'.pc \notin {"find", "anyref", "load", "map"}
           \/ loader'.saw = pointer
           \/ loader' = loader
    PROVE  SeenBehind' /\ OneOvertakingIsSafe'
<1>1. pointer' = pointer /\ entry' = entry
  BY DEF diskVars
<1>2. pointer <= pointer
  <2>1. pointer \in Int
    BY Numbers DEF GInv, GenTypeOK, Flat
  <2> QED BY <2>1
<1>3. PointerWhole
  BY DEF GInv
<1> QED BY <1>1, <1>2, <1>3 DEF SeenBehind, OneOvertakingIsSafe, PointerWhole, Whole

(* What the group serves stays as current as it was when neither the       *)
(* loader nor the record's evidence changes.                               *)
LEMMA SameEvidence ==
    ASSUME GInv, ServerOK, FreshInv,
           UNCHANGED <<diskVars, map, loader, group, down>>,
           group.rec \in Rec =>
              Serves(group.rec) /\ repo'[group.rec].label = repo[group.rec].label,
           \A k \in Handler : handler'[k].pc = "revived" => handler[k].pc = "revived",
           LoaderInv
    PROVE  FreshInv'
<1>1. SeenBehind' /\ OneOvertakingIsSafe'
  BY SeenKept DEF FreshInv
<1>2. group.rec \in Rec \cup {NoRec} /\ pointer' = pointer /\ flat' = flat
  BY Ordered DEF diskVars, GInv
<1>3. RecordBehind'
  BY <1>2 DEF FreshInv, RecordBehind, Behind, Serves
<1>4. EvidenceInv'
  BY <1>2 DEF FreshInv, EvidenceInv, Current, Serves, Rows
<1>5. ShellInv'
  BY <1>2 DEF FreshInv, ShellInv, Serves, LoaderInv
<1> QED BY <1>1, <1>3, <1>4, <1>5 DEF FreshInv

(* The indexer moves the pointer past every record, or not at all. *)
LEMMA WriterKeepsFresh ==
    ASSUME GInv, ServerOK, FreshInv, WriterStep,
           UNCHANGED <<repo, map, group, loader, readerMu, handler, gate, down, evicts>>
    PROVE  FreshInv'
<1>1. /\ pointer' >= pointer /\ pointer' \in Int /\ GenTypeOK'
  <2>1. GInv' /\ pointer' >= pointer
    BY GenNextInv
  <2> QED BY <2>1, Numbers DEF GInv, GenTypeOK, Flat
<1>2. flat' = flat
  BY DEF WriterStep, BeginWrite, FinishWrite, FlipPointer, RemoveStale, KeepStale, DieWriting
<1>3. pointer \in Int
  BY Numbers DEF GInv, GenTypeOK, Flat
<1>4. SeenBehind'
  BY <1>1, <1>3, Ordered DEF FreshInv, SeenBehind, GInv
<1>5. OneOvertakingIsSafe'
  <2> SUFFICES ASSUME loader.pc \in {"find", "anyref", "load", "map"}, loader.saw \in Gen,
                      pointer' <= loader.saw + 1
               PROVE  Whole(loader.saw)'
    BY DEF OneOvertakingIsSafe
  <2>1. PICK g \in Gen : g = loader.saw
    OBVIOUS
  <2>2. pointer <= g + 1
    BY <1>1, <1>3, <2>1, Numbers
  <2>3. Whole(g)
    BY <2>1, <2>2 DEF FreshInv, OneOvertakingIsSafe
  <2>4. Whole(g)'
    BY <2>1, <2>3, GenKeepsTwo
  <2>5. loader' = loader
    OBVIOUS
  <2> QED BY <2>1, <2>4, <2>5 DEF Whole
<1>6. RecordBehind'
  BY <1>1, <1>2, <1>3, Ordered DEF FreshInv, RecordBehind, Behind, GInv
<1>7. EvidenceInv'
  <2>1. CASE pointer' = pointer
    BY <2>1 DEF FreshInv, EvidenceInv, Current, Rows
  <2>2. CASE pointer' # pointer
    <3>1. group.rec # NoRec => ~Current(group.rec)'
      BY <1>1, <1>3, <2>2, Ordered DEF FreshInv, RecordBehind, Behind, Current, GInv
    <3> QED BY <3>1 DEF EvidenceInv
  <2> QED BY <2>1, <2>2
<1>8. ShellInv'
  BY DEF FreshInv, ShellInv
<1> QED BY <1>4, <1>5, <1>6, <1>7, <1>8 DEF FreshInv

(* The loader's moves: what it sees from now on is the current pointer. *)
LEMMA MovesKeepFresh ==
    ASSUME GInv, ServerOK, MapInv, FreshInv,
           \/ BeginReload \/ MissPinned \/ MissEverywhere \/ ReadDocPointer \/ ReadMapPointer
    PROVE  FreshInv'
<1>1. /\ \/ /\ \/ loader.pc = "idle" /\ loader'.pc = "find"
               \/ loader.pc = "find" /\ loader'.pc = "anyref"
               \/ loader.pc = "doc" /\ loader'.pc = "load"
               \/ loader.pc = "reader" /\ loader'.pc = "map"
            /\ loader'.saw = pointer /\ loader'.path = loader.path
            /\ loader'.hash = loader.hash
         \/ loader.pc \in {"find", "anyref"} /\ loader'.pc = "idle"
      /\ UNCHANGED <<diskVars, repo, map, group, handler, gate, down, evicts, readerMu>>
  BY LoaderMoves, LoaderValues DEF GInv, ServerOK
<1>2. SeenBehind' /\ OneOvertakingIsSafe'
  BY <1>1, SeenKept DEF FreshInv
<1>3. group.rec \in Rec \cup {NoRec} /\ pointer' = pointer /\ flat' = flat
  BY <1>1, Ordered DEF diskVars, GInv
<1>4. RecordBehind'
  BY <1>1, <1>3 DEF FreshInv, RecordBehind, Behind
<1>5. EvidenceInv'
  BY <1>1, <1>3 DEF FreshInv, EvidenceInv, Current, Rows
<1>6. ShellInv'
  BY <1>1 DEF FreshInv, ShellInv
<1> QED BY <1>2, <1>4, <1>5, <1>6 DEF FreshInv

(* What FindGraph leaves alone is what it found. *)
LEMMA FindKeepsFresh ==
    ASSUME GInv, ServerOK, MapInv, FreshInv, NEW p \in Path, FindGraph(p)
    PROVE  FreshInv'
<1> USE Numbers
<1>1. PICK r \in Rec, old \in Loaded :
        /\ \/ group.rec # NoRec /\ r = group.rec /\ old = repo[r]
           \/ group.rec = NoRec /\ r \in FreeRecs /\ old = Fresh(p, r)
        /\ loader.pc \in {"find", "anyref"} /\ p \in Finds \ {Absent}
        /\ group' \in Grouped /\ group'.rec = r /\ group'.at = group.at
        /\ repo'[r].doc = old.doc /\ repo'[r].hash = old.hash
        /\ repo'[r].label = old.label /\ repo'[r].handle = old.handle
        /\ loader' \in Loading /\ loader'.pc \in {"idle", "doc"}
        /\ \/ loader' = NoLoader /\ repo'[r].mtime = old.mtime /\ old.doc # Absent
           \/ /\ loader' = NoLoader /\ repo'[r].mtime = p
              /\ HashOf(p) # NoHash /\ HashOf(p) = old.hash
           \/ /\ loader'.pc = "doc" /\ loader'.path = p /\ loader'.hash = HashOf(p)
              /\ repo'[r].mtime = old.mtime
        /\ UNCHANGED <<diskVars, map, handler, gate, down, evicts, readerMu>>
  BY FindFacts DEF GInv
<1>2. pointer' = pointer /\ flat' = flat /\ pointer \in Int /\ pointer >= 0
      /\ pointer # NoHash /\ pointer # Absent
  BY <1>1, Ordered DEF diskVars, GInv
<1>3. SeenBehind' /\ OneOvertakingIsSafe'
  BY <1>1, SeenKept DEF FreshInv
<1>4. Behind(p) /\ p \in {Flat} \cup Gen /\ HashOf(p) \in {p, NoHash}
  <2>1. (p = loader.saw /\ p \in Gen) \/ (p = Flat /\ flat)
    BY <1>1, FindsIn DEF GInv, ServerOK
  <2>2. loader.saw <= pointer
    BY <1>1 DEF FreshInv, SeenBehind
  <2>3. HashOf(p) \in {p, NoHash}
    BY <1>1, HashIn
  <2> QED BY <1>2, <2>1, <2>2, <2>3 DEF Behind, Flat
<1>5. Behind(NoHash) /\ Behind(old.mtime) /\ Behind(old.hash)
  <2>1. NoHash <= pointer /\ Absent <= pointer /\ NoHash # Flat /\ Absent # Flat
    BY <1>2 DEF NoHash, Absent, Flat
  <2>2. CASE group.rec # NoRec
    BY <1>1, <2>1, <2>2 DEF FreshInv, RecordBehind, Behind
  <2>3. CASE group.rec = NoRec
    BY <1>1, <2>1, <2>3 DEF Fresh, Behind
  <2> QED BY <2>2, <2>3
<1>6. RecordBehind'
  <2>1. \A x : Behind(x)' <=> Behind(x)
    BY <1>2 DEF Behind
  <2>2. Behind(repo'[r].mtime) /\ Behind(repo'[r].hash)
    BY <1>1, <1>4, <1>5
  <2>3. loader'.pc # "load"
    BY <1>1
  <2>4. loader'.pc = "doc" => loader'.path = p /\ loader'.hash = HashOf(p)
    BY <1>1, LoaderValues
  <2> QED BY <1>1, <1>4, <2>1, <2>2, <2>3, <2>4 DEF RecordBehind
<1>7. EvidenceInv'
  <2> SUFFICES ASSUME ~down, Current(r)'
               PROVE  /\ repo'[r].doc = pointer /\ Rows(old.handle)' = pointer
                      /\ repo'[r].label = repo'[r].handle
    <3>1. Rows(old.handle)' = (Rows(repo[group.rec].handle))'
      BY <1>1 DEF Rows
    <3> QED BY <1>1, <1>2, <3>1 DEF EvidenceInv, Current
  <2>1. CASE group.rec # NoRec
    <3>1. Current(group.rec)
      BY <1>1, <1>2, <1>4, <2>1 DEF Current
    <3>2. /\ repo[r].doc = pointer /\ Rows(repo[r].handle) = pointer
          /\ repo[r].label = repo[r].handle
      BY <1>1, <2>1, <3>1 DEF FreshInv, EvidenceInv, MapInv, LoaderInv
    <3> QED BY <1>1, <2>1, <3>2 DEF Rows
  <2>2. CASE group.rec = NoRec
    <3>1. old.doc = Absent /\ old.mtime = Absent /\ old.hash = NoHash
      BY <1>1, <2>2 DEF Fresh
    <3>2. repo'[r].mtime = Absent /\ repo'[r].hash = NoHash
      BY <1>1, <3>1
    <3> QED BY <1>2, <3>2 DEF Current
  <2> QED BY <2>1, <2>2
<1>8. ShellInv'
  BY <1>1 DEF ShellInv, MapInv, LoaderInv
<1> QED BY <1>3, <1>6, <1>7, <1>8 DEF FreshInv

(* A document stamped with the current path is the current one: the        *)
(* pointer cannot have moved between the path and the document.            *)
LEMMA LoadKeepsFresh ==
    ASSUME GInv, ServerOK, MapInv, FreshInv, NEW g \in Path, LoadDoc(g)
    PROVE  FreshInv'
<1> USE Numbers
<1>1. PICK r \in Rec :
        /\ r = group.rec /\ loader.pc = "load" /\ g \in Opens(loader.saw)
        /\ repo'[r].label = repo[r].label /\ repo'[r].handle = repo[r].handle
        /\ \/ loader' = NoLoader /\ repo' = repo
           \/ /\ g # Absent /\ loader'.pc = "reader"
              /\ repo'[r].doc = g
              /\ repo'[r].mtime = loader.path
              /\ repo'[r].hash = loader.hash
        /\ UNCHANGED <<diskVars, map, group, handler, gate, down, evicts, readerMu>>
  BY LoadFacts DEF GInv, MapInv
<1>2. pointer' = pointer /\ flat' = flat /\ pointer \in Int /\ pointer >= 0
      /\ pointer # NoHash /\ pointer \in Path
  BY <1>1, Ordered DEF diskVars, GInv
<1>3. loader'.pc \in {"idle", "reader"}
  BY <1>1, LoaderValues
<1>4. SeenBehind' /\ OneOvertakingIsSafe'
  BY <1>1, <1>3, SeenKept DEF FreshInv
<1>5. /\ loader.path \in {Flat} \cup Gen /\ Behind(loader.path)
      /\ loader.hash \in {loader.path, NoHash} /\ loader.path <= loader.saw
      /\ loader.saw <= pointer
  BY <1>1 DEF FreshInv, RecordBehind, SeenBehind
<1>6. Behind(loader.hash)
  <2>1. Behind(NoHash)
    BY <1>2 DEF Behind, NoHash, Flat
  <2> QED BY <1>5, <2>1
<1>7. RecordBehind'
  <2>1. \A x : Behind(x)' <=> Behind(x)
    BY <1>2 DEF Behind
  <2>2. Behind(repo'[r].mtime) /\ Behind(repo'[r].hash)
    BY <1>1, <1>5, <1>6 DEF FreshInv, RecordBehind
  <2> QED BY <1>1, <1>3, <2>1, <2>2 DEF RecordBehind
<1>8. loader.path = pointer => g = pointer \/ g = Absent
  <2> SUFFICES ASSUME loader.path = pointer PROVE g = pointer
    OBVIOUS
  <2>1. loader.saw = pointer
    BY <1>2, <1>5, Ordered DEF GInv
  <2>2. pointer = Flat => flat
    BY <1>5 DEF Behind
  <2>3. pointer \in Gen => Whole(pointer)
    BY DEF GInv, PointerWhole
  <2>4. pointer \in Gen \/ pointer = Flat
    BY DEF GInv, GenTypeOK
  <2> QED BY <1>1, <1>2, <2>1, <2>2, <2>3, <2>4, OpensIn DEF GInv
<1>9. EvidenceInv'
  <2>1. CASE loader' = NoLoader /\ repo' = repo
    BY <1>1, <1>2, <1>3, <2>1, LoaderValues DEF FreshInv, EvidenceInv, Current, Rows
  <2>2. CASE g # Absent /\ loader'.pc = "reader"
    <3>1. repo'[r].doc = g /\ repo'[r].mtime = loader.path /\ repo'[r].hash = loader.hash
      BY <1>1, <2>2, LoaderValues
    <3>2. Current(r)' => repo'[r].doc = pointer
      BY <1>2, <1>5, <1>8, <2>2, <3>1 DEF Current
    <3> QED BY <1>1, <1>2, <2>2, <3>2 DEF EvidenceInv, Current
  <2> QED BY <1>1, <2>1, <2>2
<1>10. ShellInv'
  BY <1>1 DEF ShellInv, MapInv, LoaderInv
<1> QED BY <1>4, <1>7, <1>9, <1>10 DEF FreshInv

(* A mapping opened beside a current record is of the current generation.  *)
LEMMA OpenKeepsFresh ==
    ASSUME GInv, ServerOK, MapInv, FreshInv, NEW g \in Path, OpenReader(g)
    PROVE  FreshInv'
<1> USE Numbers
<1>1. PICK r \in Rec, m \in Map \cup {NoMap} :
        /\ r = group.rec /\ loader.pc = "map" /\ g \in Opens(loader.saw)
        /\ \/ g = Absent /\ m = NoMap /\ map' = map
           \/ g # Absent /\ m \in FreeMaps /\ map' = [map EXCEPT ![m] = g]
        /\ loader'.pc = "reset" /\ loader'.new = m
        /\ repo'[r].doc = repo[r].doc /\ repo'[r].mtime = repo[r].mtime
        /\ repo'[r].hash = repo[r].hash /\ repo'[r].label = m
        /\ UNCHANGED <<diskVars, group, handler, gate, down, evicts, readerMu>>
  BY OpenFacts DEF GInv, MapInv
<1>2. pointer' = pointer /\ flat' = flat /\ pointer \in Int /\ pointer \in Path
      /\ pointer # NoHash
  BY <1>1, Ordered DEF diskVars, GInv
<1>3. SeenBehind' /\ OneOvertakingIsSafe'
  BY <1>1, SeenKept DEF FreshInv
<1>4. RecordBehind'
  BY <1>1, <1>2 DEF FreshInv, RecordBehind, Behind
<1>5. ASSUME ~down, Current(r)'
      PROVE  repo'[r].doc = pointer /\ Rows(m)' = pointer
  <2>1. Current(r)
    BY <1>1, <1>2, <1>5 DEF Current
  <2>2. repo[r].doc = pointer /\ loader.saw = pointer
    BY <1>1, <1>5, <2>1 DEF FreshInv, EvidenceInv
  <2>3. pointer = Flat => flat
    BY <1>1, <1>2, <2>1 DEF Current, FreshInv, RecordBehind, Behind
  <2>4. pointer \in Gen => Whole(pointer)
    BY DEF GInv, PointerWhole
  <2>5. pointer \in Gen \/ pointer = Flat
    BY DEF GInv, GenTypeOK
  <2>6. g = pointer
    BY <1>1, <1>2, <2>2, <2>3, <2>4, <2>5, OpensIn DEF GInv
  <2>7. g # Absent
    BY <2>6, Ordered DEF GInv
  <2>8. map' = [map EXCEPT ![m] = g] /\ m \in Map
    BY <1>1, <2>7, TakesFree
  <2>9. map'[m] = g
    BY <2>8 DEF ServerOK, MapOK
  <2> QED BY <1>1, <2>2, <2>6, <2>8, <2>9 DEF Rows
<1>6. EvidenceInv'
  BY <1>1, <1>2, <1>5 DEF EvidenceInv, Current, Rows
<1>7. ShellInv'
  BY <1>1 DEF ShellInv, MapInv, LoaderInv
<1> QED BY <1>3, <1>4, <1>6, <1>7 DEF FreshInv

(* Dropping the search index, and publishing the mapping that was opened. *)
LEMMA PublishKeepsFresh ==
    ASSUME GInv, ServerOK, MapInv, FreshInv, ResetIndexes \/ PublishHandle
    PROVE  FreshInv'
<1> USE Numbers
<1>1. PICK r \in Rec :
        /\ r = group.rec
        /\ repo'[r].doc = repo[r].doc /\ repo'[r].mtime = repo[r].mtime
        /\ repo'[r].hash = repo[r].hash /\ repo'[r].label = repo[r].label
        /\ \/ /\ loader.pc = "reset" /\ loader'.pc = "publish" /\ loader'.new = loader.new
              /\ map' = map
           \/ /\ loader.pc = "publish" /\ loader'.pc = "idle"
              /\ repo'[r].handle = loader.new
              /\ \A k \in Map : map'[k] = IF k = repo[r].handle THEN Unmapped ELSE map[k]
        /\ UNCHANGED <<diskVars, group, handler, gate, down, evicts, readerMu>>
  <2>1. CASE ResetIndexes
    BY <2>1, ResetFacts DEF GInv, MapInv
  <2>2. CASE PublishHandle
    BY <2>2, PublishFacts, LoaderValues DEF GInv, MapInv
  <2> QED BY <2>1, <2>2
<1>2. pointer' = pointer /\ flat' = flat /\ pointer # Absent
  BY <1>1, Ordered DEF diskVars, GInv
<1>3. SeenBehind' /\ OneOvertakingIsSafe'
  BY <1>1, SeenKept DEF FreshInv
<1>4. RecordBehind'
  BY <1>1, <1>2 DEF FreshInv, RecordBehind, Behind
<1>5. EvidenceInv'
  <2> PICK m \in Map \cup {NoMap} : m = loader.new
    BY DEF ServerOK, LoaderOK, Loading
  <2>1. ASSUME ~down, Current(r)
        PROVE  /\ repo'[r].doc = pointer /\ Rows(m)' = pointer /\ repo'[r].label = m
    <3>1. /\ repo[r].doc = pointer /\ Rows(m) = pointer /\ repo[r].label = m
      BY <1>1, <2>1 DEF FreshInv, EvidenceInv
    <3>2. CASE loader.pc = "publish"
      <4>1. m \in Map /\ m # repo[r].handle
        BY <1>1, <1>2, <3>1 DEF Rows, MapInv, ServedOpen
      <4>2. map'[m] = map[m]
        BY <1>1, <3>2, <4>1
      <4> QED BY <1>1, <3>1, <4>1, <4>2 DEF Rows
    <3>3. CASE loader.pc = "reset"
      BY <1>1, <3>1, <3>3 DEF Rows
    <3> QED BY <1>1, <3>2, <3>3
  <2>2. Current(r)' <=> Current(r)
    BY <1>1, <1>2 DEF Current
  <2>3. CASE loader'.pc = "idle" /\ repo'[r].handle = m
    BY <1>1, <1>2, <2>1, <2>2, <2>3 DEF EvidenceInv, Rows
  <2>4. CASE loader'.pc = "publish" /\ loader'.new = m
    BY <1>1, <1>2, <2>1, <2>2, <2>4 DEF EvidenceInv, Rows
  <2> QED BY <1>1, <2>3, <2>4
<1>6. ShellInv'
  <2>1. group'.at = "resident"
    BY <1>1 DEF MapInv, LoaderInv
  <2> QED BY <2>1 DEF ShellInv
<1> QED BY <1>3, <1>4, <1>5, <1>6 DEF FreshInv

(* A shell is as current as the record it stands for. *)
LEMMA ShellKeepsFresh ==
    ASSUME GInv, ServerOK, MapInv, FreshInv, EvictKeepingReader
    PROVE  FreshInv'
<1> USE Numbers
<1>1. PICK shell \in Rec, r \in Rec :
        /\ r = group.rec /\ loader.pc = "idle" /\ ~down /\ group.at = "resident"
        /\ group'.at = "cold" /\ group'.rec = shell
        /\ repo'[shell].doc = repo[r].doc /\ repo'[shell].mtime = repo[r].mtime
        /\ repo'[shell].hash = repo[r].hash /\ repo'[shell].label = NoMap
        /\ repo'[shell].handle = repo[r].handle
        /\ UNCHANGED <<diskVars, map, loader, readerMu, handler, gate, down>>
  BY ShellFacts, TakesFree
<1>2. pointer' = pointer /\ flat' = flat
  BY <1>1 DEF diskVars
<1>3. SeenBehind' /\ OneOvertakingIsSafe'
  BY <1>1, SeenKept DEF FreshInv
<1>4. RecordBehind'
  BY <1>1, <1>2 DEF FreshInv, RecordBehind, Behind
<1>5. EvidenceInv'
  <2>1. Current(shell)' <=> Current(r)
    BY <1>1, <1>2 DEF Current
  <2>2. Current(r) => repo[r].doc = pointer /\ Rows(repo[r].handle) = pointer
    BY <1>1 DEF FreshInv, EvidenceInv
  <2> QED BY <1>1, <1>2, <2>1, <2>2 DEF EvidenceInv, Rows, Current
<1>6. \A h \in Handler : handler'[h].pc # "revived"
  BY <1>1 DEF MapInv, HandlerInv
<1>7. ShellInv'
  BY <1>1, <1>6 DEF ShellInv
<1> QED BY <1>3, <1>4, <1>5, <1>7 DEF FreshInv

(* After a full eviction or Close there is nothing to be current. *)
LEMMA GoneKeepsFresh ==
    ASSUME GInv, ServerOK, MapInv, FreshInv, EvictFully \/ Close \/ ReviveFully
    PROVE  FreshInv'
<1> USE Numbers
<1>1. /\ UNCHANGED diskVars
      /\ loader' = loader \/ loader'.saw = pointer
      /\ loader'.pc \in {"idle", "find"}
      /\ \/ group'.rec = NoRec /\ group'.at # "cold"
         \/ /\ group' = group /\ down'
            /\ group.rec \in Rec => /\ repo'[group.rec].mtime = repo[group.rec].mtime
                                    /\ repo'[group.rec].hash = repo[group.rec].hash
  <2>1. CASE EvictFully
    BY <2>1, EvictFacts
  <2>2. CASE Close
    BY <2>2, CloseFacts DEF ServerOK, RepoOK
  <2>3. CASE ReviveFully
    BY <2>3, ReadFacts DEF ReviveFully, GInv, ServerOK
  <2> QED BY <2>1, <2>2, <2>3
<1>2. pointer' = pointer /\ flat' = flat /\ group.rec \in Rec \cup {NoRec}
  BY <1>1, Ordered DEF diskVars, GInv
<1>3. SeenBehind' /\ OneOvertakingIsSafe'
  BY <1>1, SeenKept DEF FreshInv
<1>4. RecordBehind'
  BY <1>1, <1>2 DEF FreshInv, RecordBehind, Behind
<1>5. EvidenceInv' /\ ShellInv'
  BY <1>1 DEF EvidenceInv, ShellInv
<1> QED BY <1>3, <1>4, <1>5 DEF FreshInv

(* A handler changes neither the loader nor the evidence; one that revives *)
(* a shell gives it a label index over its mapping first.                  *)
LEMMA HandlerKeepsFresh ==
    ASSUME GInv, ServerOK, MapInv, FreshInv, NEW h \in Handler, HandlerStep(h)
    PROVE  FreshInv'
<1> USE Numbers
<1>1. CASE Lookup(h) \/ BeginRevive(h)
  <2>1. /\ UNCHANGED <<diskVars, map, loader, group, down, repo>>
        /\ \A k \in Handler : handler'[k].pc = "revived" => handler[k].pc = "revived"
    BY <1>1, EnterFacts DEF OnlyOne, MapInv
  <2> QED BY <2>1, SameEvidence DEF Serves, MapInv
<1>2. CASE EndBuild(h) \/ BuildEmpty(h)
  <2>1. /\ UNCHANGED <<diskVars, map, loader, group, down>>
        /\ handler[h].rec \in Rec /\ OnlyRec(handler[h].rec) /\ Serves(handler[h].rec)
        /\ repo'[handler[h].rec].label = repo[handler[h].rec].label
        /\ OnlyOne(h) /\ handler'[h].pc = "resolve"
    BY <1>2, BuildFacts DEF MapInv
  <2>2. group.rec \in Rec =>
          Serves(group.rec) /\ repo'[group.rec].label = repo[group.rec].label
    BY <2>1 DEF Serves, OnlyRec
  <2>3. \A k \in Handler : handler'[k].pc = "revived" => handler[k].pc = "revived"
    BY <2>1 DEF OnlyOne
  <2> QED BY <2>1, <2>2, <2>3, SameEvidence DEF MapInv
<1>3. CASE UseIndex(h)
  <2>1. /\ UNCHANGED <<diskVars, map, loader, group, down, repo>>
        /\ \A k \in Handler : handler'[k].pc = "revived" => handler[k].pc = "revived"
    BY <1>3, UseFacts DEF OnlyOne, MapInv
  <2> QED BY <2>1, SameEvidence DEF Serves, MapInv
<1>4. CASE BuildIndex(h) \/ (Resolve(h) /\ Open(handler[h].idx.label))
  <2>1. PICK to \in {"building", "reading"} :
          /\ Goto(h, to) /\ UNCHANGED <<diskVars, map, loader, group, down, repo>>
    BY <1>4 DEF BuildIndex, Resolve, OnlyHandler
  <2>2. \A k \in Handler : handler'[k].pc = "revived" => handler[k].pc = "revived"
    BY <2>1, GotoFacts DEF OnlyOne, ServerOK
  <2> QED BY <2>1, <2>2, SameEvidence DEF Serves, MapInv
<1>5. CASE EndRead(h) \/ (Resolve(h) /\ ~Open(handler[h].idx.label))
  <2>1. Leave(h) /\ UNCHANGED <<diskVars, map, loader, group, down>>
    BY <1>5 DEF EndRead, Resolve, OnlyHandler
  <2>2. Collected(h) /\ OnlyOne(h) /\ handler'[h] = NoHandler
    BY <2>1, LeaveFacts
  <2>3. group.rec \in Rec => repo'[group.rec] = repo[group.rec]
    BY <2>2 DEF Collected
  <2>4. \A k \in Handler : handler'[k].pc = "revived" => handler[k].pc = "revived"
    BY <2>2 DEF OnlyOne, NoHandler
  <2> QED BY <2>1, <2>3, <2>4, SameEvidence DEF Serves, MapInv
<1>6. CASE Rematerialize(h) \/ EndRematerialize(h) \/ Revived(h)
  <2>1. /\ handler[h].pc \in {"revive", "reviving", "revived"} /\ group.at = "cold"
        /\ group.rec = handler[h].rec /\ group.rec \in Rec /\ loader.pc = "idle"
        /\ gate = h
    BY <1>6, HasRec DEF Rematerialize, EndRematerialize, Revived, MapInv, HandlerInv, LoaderInv
  <2>2. /\ UNCHANGED <<diskVars, map, loader, down>> /\ group'.rec = group.rec
        /\ group'.at \in {"cold", "resident"}
        /\ Serves(group.rec)
        /\ \/ repo'[group.rec].label = repo[group.rec].label
           \/ repo'[group.rec].label = repo[group.rec].handle
        /\ group'.at = "resident" => handler[h].pc = "revived"
                                  /\ repo'[group.rec].label = repo[group.rec].label
        /\ \A k \in Handler : handler'[k].pc = "revived" =>
             \/ handler[k].pc = "revived" /\ repo'[group.rec].label = repo[group.rec].label
             \/ repo'[group.rec].label = repo[group.rec].handle
             \/ repo[group.rec].handle = NoMap /\ repo' = repo
    <3>1. CASE Rematerialize(h)
      <4>1. PICK to \in {"reviving", "revived"} :
              /\ Goto(h, to) /\ UNCHANGED <<diskVars, map, loader, group, down, repo>>
              /\ to = "revived" => repo[group.rec].handle = NoMap
        BY <2>1, <3>1 DEF Rematerialize, OnlyHandler
      <4>2. OnlyOne(h) /\ handler'[h].pc = to
        BY <4>1, GotoFacts DEF ServerOK
      <4> QED BY <2>1, <4>1, <4>2 DEF Serves, OnlyOne
    <3>2. CASE EndRematerialize(h)
      BY <2>1, <3>2, EndRematerializeFacts DEF MapInv
    <3>3. CASE Revived(h)
      <4>1. /\ Leave(h) \/ (Goto(h, "have") /\ repo' = repo)
            /\ group' = [group EXCEPT !.at = "resident"] /\ handler[h].pc = "revived"
            /\ UNCHANGED <<diskVars, map, loader, down>>
        BY <3>3 DEF Revived, OnlyHandler
      <4>2. /\ OnlyOne(h) /\ handler'[h].pc # "revived"
            /\ repo'[group.rec] = repo[group.rec]
        <5>1. CASE Leave(h)
          BY <2>1, <5>1, LeaveFacts DEF Collected, NoHandler
        <5>2. CASE Goto(h, "have") /\ repo' = repo
          BY <5>2, GotoFacts DEF ServerOK
        <5> QED BY <4>1, <5>1, <5>2
      <4>3. group'.rec = group.rec /\ group'.at = "resident"
        BY <4>1 DEF ServerOK, GroupOK, Grouped
      <4> QED BY <4>1, <4>2, <4>3 DEF Serves, OnlyOne
    <3> QED BY <1>6, <3>1, <3>2, <3>3
  <2>3. pointer' = pointer /\ flat' = flat
    BY <2>2 DEF diskVars
  <2>4. SeenBehind' /\ OneOvertakingIsSafe'
    BY <2>2, SeenKept DEF FreshInv
  <2>5. RecordBehind'
    BY <2>1, <2>2, <2>3 DEF FreshInv, RecordBehind, Behind, Serves
  <2>6. ~down => /\ repo[group.rec].label \in {NoMap, repo[group.rec].handle}
                 /\ \A k \in Handler : handler[k].pc = "revived" =>
                      repo[group.rec].label = repo[group.rec].handle
    BY <2>1 DEF FreshInv, ShellInv
  <2>7. EvidenceInv'
    BY <2>1, <2>2, <2>3, <2>6 DEF FreshInv, EvidenceInv, Current, Serves, Rows
  <2>8. ShellInv'
    BY <2>1, <2>2, <2>6 DEF ShellInv, Serves
  <2> QED BY <2>4, <2>5, <2>7, <2>8 DEF FreshInv
<1> QED BY <1>1, <1>2, <1>3, <1>4, <1>5, <1>6 DEF HandlerStep

(* To begin with there is nothing to be current. *)
LEMMA InitFresh == Init => FreshInv
<1> SUFFICES ASSUME Init PROVE FreshInv
  OBVIOUS
<1>1. group.rec = NoRec /\ group.at = "resident" /\ loader.pc = "idle"
  BY LoaderValues DEF Init
<1>2. SeenBehind /\ OneOvertakingIsSafe /\ RecordBehind
  BY <1>1 DEF SeenBehind, OneOvertakingIsSafe, RecordBehind
<1>3. EvidenceInv /\ ShellInv
  BY <1>1 DEF EvidenceInv, ShellInv
<1> QED BY <1>2, <1>3 DEF FreshInv

(* Every step keeps what is known of what is current. *)
LEMMA NextFresh ==
    ASSUME GInv, ServerOK, MapInv, FreshInv, [Next]_vars
    PROVE  FreshInv'
<1>1. CASE WriterStep /\ UNCHANGED <<repo, map, group, loader, readerMu, handler, gate,
                                     down, evicts>>
  BY <1>1, WriterKeepsFresh
<1>2. CASE LoaderStep
  BY <1>2, MovesKeepFresh, FindKeepsFresh, LoadKeepsFresh, OpenKeepsFresh, PublishKeepsFresh
     DEF LoaderStep
<1>3. ASSUME NEW h \in Handler, HandlerStep(h) PROVE FreshInv'
  BY <1>3, HandlerKeepsFresh
<1>4. CASE ReviveFully \/ EvictFully \/ Close
  BY <1>4, GoneKeepsFresh
<1>5. CASE EvictKeepingReader
  BY <1>5, ShellKeepsFresh
<1>6. CASE UNCHANGED vars
  BY <1>6, SameEvidence DEF vars, Serves, MapInv
<1> QED BY <1>1, <1>2, <1>3, <1>4, <1>5, <1>6 DEF Next

-----------------------------------------------------------------------------
(* The invariant of the server beside the indexer, for every number of     *)
(* handlers, records, mappings, generations, deaths and evictions.         *)
THEOREM SpecRInv == Spec => []RInv
<1> DEFINE Inv == GInv /\ ServerOK /\ MapInv /\ FreshInv
<1>1. Init => Inv
  BY GenInitInv, InitMap, InitFresh DEF Init
<1>2. Inv /\ [Next]_vars => Inv'
  <2> SUFFICES ASSUME Inv, [Next]_vars PROVE Inv'
    OBVIOUS
  <2>1. GInv'
    BY OnlyTheWriterWrites, GenNextInv
  <2>2. ServerOK' /\ MapInv'
    BY NextMap DEF GInv
  <2>3. FreshInv'
    BY NextFresh
  <2> QED BY <2>1, <2>2, <2>3
<1>3. Inv => RInv
  BY TypeParts DEF GInv, RInv
<1> QED BY <1>1, <1>2, <1>3, PTL DEF Spec

(* Every variable keeps its type.  That the generation a search index was  *)
(* built from is one rests on NoReadAfterUnmap.                            *)
THEOREM ServerTypes == Spec => []TypeOK
<1>1. RInv => TypeOK
  BY DEF RInv
<1> QED BY SpecRInv, <1>1, PTL

(* No handler reads a mapping after it was unmapped, however evictions,    *)
(* shells, revives, reloads and Close interleave with it.                  *)
THEOREM ReadersAreSafe == Spec => []NoReadAfterUnmap
<1>1. RInv => NoReadAfterUnmap
  BY DEF RInv, MapInv
<1> QED BY SpecRInv, <1>1, PTL

(* Every mapping that is open is the one the group serves from, or is      *)
(* about to be.                                                            *)
THEOREM MappingsAreKept == Spec => []NoMappingForgotten
<1>1. RInv => NoMappingForgotten
  BY DEF RInv, MapInv
<1> QED BY SpecRInv, <1>1, PTL

(* A reader finds the generation it read the pointer for, unless the       *)
(* pointer has moved twice since.                                          *)
THEOREM OvertakenOnceIsFound == Spec => []OneOvertakingIsSafe
<1>1. RInv => OneOvertakingIsSafe
  BY DEF RInv, FreshInv
<1> QED BY SpecRInv, <1>1, PTL

(* What a reload leaves alone is current: document, mapping and labels.    *)
LEMMA SettledIsCurrent == RInv => NothingStaleIsSkipped
<1> SUFFICES ASSUME RInv, NEW r \in Rec, Settled(r)
             PROVE  /\ repo[r].doc = pointer /\ Rows(repo[r].handle) = pointer
                    /\ repo[r].label = repo[r].handle
  BY DEF NothingStaleIsSkipped
<1>1. GenTypeOK /\ ServerOK
  BY TypeParts DEF RInv
<1>2. pointer \in Path /\ pointer # Absent
  BY <1>1, Ordered
<1>3. HashOf(pointer) \in {pointer, NoHash}
  BY <1>2, HashIn
<1>4. /\ Current(r) /\ group.rec = r /\ ~down /\ loader.pc = "idle" /\ group.at = "resident"
  BY <1>3 DEF Settled, Current, Unlocked
<1>5. r # NoRec
  BY Numbers
<1> QED BY <1>4, <1>5 DEF RInv, FreshInv, EvidenceInv

(* What a reload finds is there, and what it leaves alone is current,      *)
(* although it resolves "current" three times while indexers move it.      *)
THEOREM ReloadsAreSound == Spec => []ReloadSeesWhatIs
<1>1. RInv => ReloadSeesWhatIs
  BY SettledIsCurrent DEF RInv, GInv, ReloadSeesWhatIs
<1> QED BY SpecRInv, <1>1, PTL
=============================================================================
