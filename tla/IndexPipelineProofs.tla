------------------------- MODULE IndexPipelineProofs -------------------------
(***************************************************************************)
(* The hash rows of IndexPipeline say what the graph holds: RowsMatchGraph *)
(* for any files, calls, coupling, versions, and any number of runs,       *)
(* edits, cancels, crashes, failed reads and failed writes.                *)
(*                                                                         *)
(* The property speaks of the database alone, and is not inductive: what a *)
(* run will dump and write as rows is decided long before.  RunFits says   *)
(* of a run at work that its buffer holds what the rows are going to say:  *)
(* the old row for a skipped file, the version on disk for one that was    *)
(* looked at and not edited since, and nothing of any other file.          *)
(***************************************************************************)
EXTENDS IndexPipeline, TLAPS

\* A run before it has looked at any file, and one that has.
BeforeWork == {"discover", "route", "classify", "structure"}
AtWork     == {"extract", "history", "predump", "beforeDump", "dump", "dumping", "clear", "rows"}

RunTypes ==
    [mode : Modes, persist : BOOLEAN, route : {"none", "full", "incremental"},
     found : SUBSET Files, changed : SUBSET Files, kept : SUBSET Files, todo : SUBSET Files,
     failed : SUBSET Files, buf : Graphs, saved : SUBSET Edges, old : Graphs, hash : [Files -> Versions],
     open : SUBSET Files, adr : BOOLEAN, had : BOOLEAN, rc : {0, 1}]

Typed ==
    /\ disk \in [Files -> Versions] /\ last \in [Files -> Versions]
    /\ db \in Dbs /\ zst \in Dbs
    /\ run \in RunTypes
    /\ touched \subseteq Files
    /\ cancelled \in BOOLEAN /\ struck \in BOOLEAN

\* RowsMatchGraph of any database.
Match(d) == Whole(d) => \A f \in Files \ d.open : d.hash[f] = d.graph.ver[f]

\* A cancel is remembered, and one that came before extraction ended as such.
CancelSeen ==
    /\ struck => cancelled
    /\ cancelled /\ pc \in {"discover", "route", "classify", "extract"} => struck

\* The files the run has looked at: those it did not have to parse and those
\* it has parsed without failing.
Parsed == IF pc = "extract" THEN run.changed \ (run.todo \cup run.failed)
          ELSE IF struck THEN {} ELSE run.changed \ run.failed
LookedAt == (run.found \ (run.changed \cup run.open)) \cup Parsed

RunFits ==
    /\ run.kept \cap run.found = {}
    /\ run.changed \subseteq run.found
    /\ \A f \in Files \ (Rows \cup run.open) : run.buf.ver[f] = 0
    /\ \A f \in run.kept \ run.open : run.buf.ver[f] = run.hash[f]
    /\ \A f \in LookedAt \ touched : run.buf.ver[f] = disk[f]

\* What is dumped is the buffer, and a file the rows may be wrong about is
\* still open when its row is written.
DumpFits ==
    /\ Whole(db) /\ db.graph = run.buf
    /\ pc = "clear" => Rows \subseteq db.open
    /\ pc = "rows" => run.todo \subseteq db.open \cap Rows

RowsInv ==
    /\ Typed
    /\ Match(db) /\ Match(zst)
    /\ CancelSeen
    /\ pc \in BeforeWork => run.kept = {} /\ run.open = {}
    /\ pc = "classify" => Whole(db)
    /\ pc \in AtWork => RunFits
    /\ pc = "extract" => run.todo \subseteq run.changed
    /\ pc \in {"clear", "rows"} => DumpFits

-----------------------------------------------------------------------------
(* What the operators on graphs and databases return.                       *)

LEMMA Constants ==
    /\ 0 \in Versions
    /\ EmptyGraph \in Graphs /\ EmptyGraph.ver = [f \in Files |-> 0]
    /\ NoDb \in Dbs /\ Torn \in Dbs /\ ~Whole(NoDb) /\ ~Whole(Torn)
    /\ NoRun \in RunTypes /\ NoRun.kept = {} /\ NoRun.open = {}
<1>1. 0 \in Versions
  BY BoundsAssumption DEF Versions
<1>2. EmptyGraph \in Graphs /\ EmptyGraph.ver = [f \in Files |-> 0]
  BY <1>1 DEF EmptyGraph, Graphs
<1>3. NoDb \in Dbs /\ Torn \in Dbs /\ ~Whole(NoDb) /\ ~Whole(Torn)
  BY <1>1, <1>2 DEF NoDb, Torn, DbOf, Dbs, Whole
<1>4. NoRun \in RunTypes /\ NoRun.kept = {} /\ NoRun.open = {}
  BY <1>1, <1>2 DEF NoRun, RunTypes, Modes
<1>. QED
  BY <1>1, <1>2, <1>3, <1>4

LEMMA DbOfType ==
    ASSUME NEW g \in Graphs
    PROVE  /\ DbOf(g) \in Dbs /\ DbOf(g).graph = g /\ Whole(DbOf(g))
           /\ DbOf(g).hash = [f \in Files |-> 0]
BY Constants DEF DbOf, Dbs, Whole

\* The structure pass makes File nodes and no definitions.
LEMMA StructuredType ==
    ASSUME NEW S \in SUBSET Files
    PROVE  Structured(S) \in Graphs /\ Structured(S).ver = [f \in Files |-> 0]
<1>. DEFINE E == {<<"CONTAINS_FILE", Root, f>> : f \in S}
<1>1. E \in SUBSET Edges
  BY DEF Edges
<1>. HIDE DEF E
<1>2. Structured(S) = [EmptyGraph EXCEPT !.has = S, !.root = Root, !.edges = E]
  BY DEF Structured, E
<1>. QED
  BY <1>1, <1>2, Constants DEF EmptyGraph, Graphs

\* A file's definitions are its own version, and nothing of another file.
LEMMA DefinedType ==
    ASSUME NEW g \in Graphs, NEW f \in Files, NEW v \in Versions
    PROVE  LET h == Defined(g, f, v)
           IN /\ h \in Graphs /\ h.ver = [g.ver EXCEPT ![f] = v]
              /\ h.has = g.has /\ h.edges = g.edges
              /\ h.root = IF f \in Packages /\ v # 0 THEN f ELSE g.root
BY DEF Defined, Graphs

\* A purge forgets the definitions of just the files it is given.
LEMMA PurgedType ==
    ASSUME NEW g \in Graphs, NEW S \in SUBSET Files
    PROVE  /\ Purged(g, S) \in Graphs
           /\ \A f \in Files : Purged(g, S).ver[f] = IF f \in S THEN 0 ELSE g.ver[f]
BY Constants DEF Purged, Graphs

\* What the passes after extraction add are edges.
OnlyEdges(g, h) == h \in Graphs /\ h.ver = g.ver /\ h.has = g.has /\ h.root = g.root

LEMMA EdgePasses ==
    ASSUME NEW g \in Graphs, NEW S \in SUBSET Files, NEW saved \in SUBSET Edges
    PROVE  /\ OnlyEdges(g, Resolved(g, S))
           /\ OnlyEdges(g, Historied(g))
           /\ OnlyEdges(g, WithSimilar(g))
           /\ OnlyEdges(g, Restored(g, saved))
<1>1. OnlyEdges(g, Resolved(g, S))
  BY FilesAssumption DEF OnlyEdges, Resolved, Graphs, Edges
<1>2. OnlyEdges(g, Historied(g))
  BY FilesAssumption DEF OnlyEdges, Historied, Graphs, Edges
<1>3. OnlyEdges(g, WithSimilar(g))
  BY DEF OnlyEdges, WithSimilar, Graphs, Edges
<1>4. OnlyEdges(g, Restored(g, saved))
  BY DEF OnlyEdges, Restored, Graphs
<1>. QED
  BY <1>1, <1>2, <1>3, <1>4

LEMMA CapturedType ==
    ASSUME NEW g \in Graphs, NEW S \in SUBSET Files
    PROVE  Captured(g, S) \in SUBSET Edges
BY DEF Captured, Graphs

\* An import yields the artifact's content or nothing (cbm_artifact_import).
LEMMA BootstrappedIs == Bootstrapped \in {db, zst, NoDb}
BY DEF Bootstrapped, Import

-----------------------------------------------------------------------------
(* Kinds of steps.                                                          *)

\* The run's files, rows and definitions stay what they are.
SameRun ==
    /\ run'.found = run.found /\ run'.kept = run.kept /\ run'.changed = run.changed
    /\ run'.open = run.open /\ run'.hash = run.hash /\ run'.buf.ver = run.buf.ver
    /\ run'.failed = run.failed

\* A run that looks at nothing more still fits.
LEMMA FitsOn ==
    ASSUME Typed, Typed', RunFits, SameRun, disk' = disk,
           (LookedAt \ touched)' \subseteq LookedAt \ touched
    PROVE  RunFits'
BY DEF RunFits, SameRun, Rows

\* What Finish and the end of a process leave of a run.
LEMMA Ending ==
    ASSUME RowsInv, pc' = "idle", Typed', Match(db)', Match(zst)', struck' => cancelled'
    PROVE  RowsInv'
BY DEF RowsInv, CancelSeen, BeforeWork, AtWork

LEMMA FinishType ==
    ASSUME Typed, NEW rc \in {0, 1}, Finish(rc)
    PROVE  pc' = "idle" /\ run' \in RunTypes
BY DEF Typed, Finish, RunTypes

\* A run that ends without writing anything.
LEMMA QuietEnd ==
    ASSUME RowsInv, NEW rc \in {0, 1}, Finish(rc),
           UNCHANGED <<db, disk, last, cancelled, touched, struck>>, zst' \in {zst, db, NoDb}
    PROVE  RowsInv'
<1>1. Typed'
  BY FinishType, Constants DEF RowsInv, Typed
<1>2. Match(db)' /\ Match(zst)'
  BY Constants DEF RowsInv, Match, Whole
<1>. QED
  BY <1>1, <1>2, FinishType, Ending DEF RowsInv, CancelSeen

\* One pass after another: no file is looked at again, and the database is not
\* yet written or not yet complete.
LEMMA WorkGoesOn ==
    ASSUME RowsInv, pc \in AtWork, pc' \in {"history", "predump", "beforeDump", "dump", "dumping"},
           Typed', SameRun, UNCHANGED <<disk, zst, cancelled, touched, struck>>, Match(db)',
           pc = "extract" => run.todo = {} \/ cancelled
    PROVE  RowsInv'
<1>1. Parsed' \subseteq Parsed
  <2>1. CASE pc = "extract" /\ cancelled
    BY <2>1 DEF RowsInv, CancelSeen, Parsed
  <2>2. CASE ~(pc = "extract" /\ cancelled)
    BY <2>2 DEF Parsed, SameRun
  <2>. QED
    BY <2>1, <2>2
<1>2. RunFits'
  BY <1>1, FitsOn DEF RowsInv, LookedAt, SameRun
<1>. QED
  BY <1>2 DEF RowsInv, CancelSeen, BeforeWork, AtWork, Match, Whole

-----------------------------------------------------------------------------
(* The steps of a run, in their order.                                      *)

\* A run begins with the database, the artifact's content, or nothing.
LEMMA BeginKeeps ==
    ASSUME RowsInv, NEW m \in Modes, NEW persist \in BOOLEAN, Begin(m, persist)
    PROVE  RowsInv'
<1>1. db' \in {db, zst, NoDb}
  BY BootstrappedIs DEF Begin
<1>2. db' \in Dbs /\ Match(db)'
  BY <1>1, Constants DEF RowsInv, Typed, Match, Whole
<1>3. run' \in RunTypes /\ run'.kept = {} /\ run'.open = {}
  <2>1. (Whole(Bootstrapped) /\ Bootstrapped.adr) \in BOOLEAN
    BY <1>2 DEF Begin, Dbs
  <2>. QED
    BY <2>1, Constants DEF Begin, RunTypes
<1>4. pc' = "discover" /\ cancelled' = FALSE /\ touched' = {} /\ struck' = FALSE
      /\ UNCHANGED <<disk, last, zst>>
  BY DEF Begin, Step
<1>5. Typed'
  BY <1>2, <1>3, <1>4 DEF RowsInv, Typed
<1>6. Match(zst)'
  BY <1>4 DEF RowsInv, Match, Whole
<1>. QED
  BY <1>2, <1>3, <1>4, <1>5, <1>6 DEF RowsInv, CancelSeen, AtWork

\* Before a run has looked at any file it keeps nothing.
LEMMA NotYet ==
    ASSUME RowsInv, pc \in BeforeWork, pc' \in BeforeWork, run' \in RunTypes,
           run'.kept = run.kept, run'.open = run.open, db' \in {db, NoDb},
           pc # "structure", pc' = "classify" => Whole(db'),
           UNCHANGED <<zst, disk, last, cancelled, touched, struck>>
    PROVE  RowsInv'
<1>1. Typed' /\ Match(db)' /\ Match(zst)'
  BY Constants DEF RowsInv, Typed, Match, Whole
<1>. QED
  BY <1>1 DEF RowsInv, CancelSeen, BeforeWork, AtWork

LEMMA RoutingKeeps ==
    ASSUME RowsInv, Discover \/ RouteIncremental \/ RouteFull \/ LoadFails
    PROVE  RowsInv'
<1>1. CASE Discover
  <2>1. Discovered(run.mode) \in SUBSET Files
    BY DEF Discovered
  <2>. QED
    BY <1>1, <2>1, NotYet DEF Discover, Keep, BeforeWork, RowsInv, Typed, RunTypes
<1>2. CASE RouteIncremental
  BY <1>2, NotYet DEF RouteIncremental, Incremental, Whole, Step, Keep, BeforeWork, RowsInv, Typed, RunTypes
<1>3. CASE RouteFull
  <2>1. (Whole(db) /\ db.adr) \in BOOLEAN
    BY DEF RowsInv, Typed, Dbs
  <2>. QED
    BY <1>3, <2>1, NotYet DEF RouteFull, Step, Keep, BeforeWork, RowsInv, Typed, RunTypes
<1>4. CASE LoadFails
  BY <1>4, NotYet DEF LoadFails, Step, BeforeWork, RowsInv, Typed, RunTypes
<1>. QED
  BY <1>1, <1>2, <1>3, <1>4

\* The purge leaves in the buffer what the rows say of the files that are kept
\* and of those that did not change, and nothing of the files that are gone.
LEMMA LoadKeeps ==
    ASSUME RowsInv, LoadAndPurge
    PROVE  RowsInv'
<1>. DEFINE changed == Changed(db, run.found)
            gone    == Gone(db, run.found)
            kept    == ModeSkipped(db, run.found)
            g       == Purged(db.graph, changed \cup gone)
<1>1. /\ pc = "classify" /\ pc' = "extract" /\ touched' = {}
      /\ UNCHANGED <<db, disk, last, zst, cancelled, struck>>
  BY DEF LoadAndPurge, Step
<1>2. run' = [run EXCEPT !.changed = changed, !.todo = changed, !.kept = kept,
                         !.old = db.graph, !.hash = db.hash, !.open = db.open,
                         !.saved = Captured(db.graph, changed),
                         !.buf = [g EXCEPT !.has = @ \cup changed]]
  BY DEF LoadAndPurge
<1>3. /\ changed \in SUBSET Files /\ gone \in SUBSET Files /\ kept \in SUBSET Files
      /\ db.graph \in Graphs /\ db.hash \in [Files -> Versions] /\ db.open \in SUBSET Files
      /\ run.found \in SUBSET Files
  BY DEF Changed, Gone, ModeSkipped, RowsInv, Typed, Dbs, RunTypes
<1>4. /\ g \in Graphs
      /\ \A f \in Files : g.ver[f] = IF f \in changed \cup gone THEN 0 ELSE db.graph.ver[f]
  BY <1>3, PurgedType
<1>5. [g EXCEPT !.has = @ \cup changed] \in Graphs
  BY <1>3, <1>4 DEF Graphs
<1>6. Captured(db.graph, changed) \in SUBSET Edges
  BY <1>3, CapturedType
<1>. HIDE DEF changed, gone, kept, g
<1>7. run' \in RunTypes
  BY <1>2, <1>3, <1>5, <1>6 DEF RowsInv, Typed, RunTypes
<1>8. /\ run'.found = run.found /\ run'.changed = changed /\ run'.todo = changed
      /\ run'.kept = kept /\ run'.open = db.open /\ run'.hash = db.hash
      /\ run'.buf.ver = g.ver
  BY <1>2, <1>4 DEF RowsInv, Typed, RunTypes, Graphs
<1>9. \A f \in Files \ db.open : db.hash[f] = db.graph.ver[f]
  BY <1>1 DEF RowsInv, Match
<1>10. RunFits'
  <2>1. kept \cap run.found = {} /\ changed \subseteq run.found
    BY DEF kept, changed, ModeSkipped, Changed
  <2>2. ASSUME NEW f \in Files, f \notin run.found \cup kept \cup db.open
        PROVE  g.ver[f] = 0
    BY <2>2, <1>4, <1>9 DEF kept, gone, ModeSkipped, Gone
  <2>3. ASSUME NEW f \in kept, f \notin db.open
        PROVE  g.ver[f] = db.hash[f]
    BY <2>3, <2>1, <1>3, <1>4, <1>9 DEF kept, gone, ModeSkipped, Gone
  <2>4. ASSUME NEW f \in run.found, f \notin changed \cup db.open
        PROVE  g.ver[f] = disk[f]
    BY <2>4, <1>3, <1>4, <1>9 DEF changed, gone, Changed, Gone
  <2>5. LookedAt' = run.found \ (changed \cup db.open)
    BY <1>1, <1>8 DEF LookedAt, Parsed
  <2>6. run'.buf.ver = g.ver /\ Rows' = run.found \cup kept /\ disk' = disk
    BY <1>1, <1>8 DEF Rows
  <2>. QED
    BY <1>8, <2>1, <2>2, <2>3, <2>4, <2>5, <2>6 DEF RunFits
<1>11. Typed'
  BY <1>1, <1>7 DEF RowsInv, Typed
<1>12. Match(db)' /\ Match(zst)' /\ CancelSeen'
  BY <1>1 DEF RowsInv, Match, Whole, CancelSeen
<1>. QED
  BY <1>1, <1>8, <1>10, <1>11, <1>12 DEF RowsInv, BeforeWork, AtWork

\* A full run starts with no definitions and looks at all it has found.
LEMMA StructureKeeps ==
    ASSUME RowsInv, Structure
    PROVE  RowsInv'
<1>1. /\ pc = "structure" /\ pc' = "extract" /\ ~cancelled
      /\ UNCHANGED <<db, disk, last, zst, cancelled, touched, struck>>
      /\ run' = [run EXCEPT !.buf = Structured(run.found),
                            !.changed = run.found, !.todo = run.found]
  BY DEF Structure, Keep
<1>2. Structured(run.found) \in Graphs /\ Structured(run.found).ver = [f \in Files |-> 0]
  BY StructuredType DEF RowsInv, Typed, RunTypes
<1>3. /\ run' \in RunTypes
      /\ run'.found = run.found /\ run'.changed = run.found /\ run'.todo = run.found
      /\ run'.kept = {} /\ run'.open = {} /\ run'.buf.ver = [f \in Files |-> 0]
  BY <1>1, <1>2 DEF RowsInv, Typed, RunTypes, BeforeWork
<1>4. RunFits'
  BY <1>1, <1>3 DEF RunFits, LookedAt, Parsed, Rows
<1>5. Typed' /\ Match(db)' /\ Match(zst)' /\ CancelSeen'
  BY <1>1, <1>3 DEF RowsInv, Typed, Match, Whole, CancelSeen
<1>. QED
  BY <1>1, <1>3, <1>4, <1>5 DEF RowsInv, BeforeWork, AtWork

\* A file that is parsed is looked at, and its definitions are the disk's.
LEMMA ExtractKeeps ==
    ASSUME RowsInv, NEW f \in Files, ExtractFile(f)
    PROVE  RowsInv'
<1>1. /\ pc = "extract" /\ pc' = "extract" /\ f \in run.todo
      /\ touched' = touched \ {f}
      /\ UNCHANGED <<db, disk, last, zst, cancelled, struck>>
      /\ run' = [run EXCEPT !.todo = @ \ {f}, !.buf = Defined(@, f, disk[f])]
  BY DEF ExtractFile
<1>2. /\ run' \in RunTypes
      /\ run'.found = run.found /\ run'.changed = run.changed /\ run'.kept = run.kept
      /\ run'.open = run.open /\ run'.hash = run.hash
      /\ run'.todo = run.todo \ {f} /\ run'.failed = run.failed
      /\ run'.buf.ver = [run.buf.ver EXCEPT ![f] = disk[f]]
      /\ run.buf.ver \in [Files -> Versions]
  <2>1. run.buf \in Graphs /\ disk[f] \in Versions
    BY DEF RowsInv, Typed, RunTypes
  <2>2. LET h == Defined(run.buf, f, disk[f])
        IN h \in Graphs /\ h.ver = [run.buf.ver EXCEPT ![f] = disk[f]]
    BY <2>1, DefinedType
  <2>. QED
    BY <1>1, <2>1, <2>2 DEF RowsInv, Typed, RunTypes, Graphs
<1>3. RunFits /\ f \in run.changed /\ f \in run.found /\ f \notin run.kept
  BY <1>1 DEF RowsInv, AtWork, RunFits
<1>4. RunFits'
  <2>1. \A h \in Files : run'.buf.ver[h] = IF h = f THEN disk[f] ELSE run.buf.ver[h]
    BY <1>2
  <2>2. LookedAt' \subseteq LookedAt \cup {f}
    BY <1>1, <1>2 DEF LookedAt, Parsed
  <2>3. LookedAt' \subseteq Files
    BY <1>2 DEF LookedAt, Parsed, RunTypes
  <2>4. \A h \in LookedAt' \ touched' : run'.buf.ver[h] = disk'[h]
    BY <1>1, <1>3, <2>1, <2>2, <2>3 DEF RunFits
  <2>5. \A h \in Files \ (Rows' \cup run'.open) : run'.buf.ver[h] = 0
    BY <1>2, <1>3, <2>1 DEF RunFits, Rows
  <2>6. \A h \in run'.kept \ run'.open : run'.buf.ver[h] = run'.hash[h]
    BY <1>2, <1>3, <2>1 DEF RunFits, RunTypes
  <2>. QED
    BY <1>2, <1>3, <2>4, <2>5, <2>6 DEF RunFits
<1>5. Typed' /\ Match(db)' /\ Match(zst)' /\ CancelSeen'
  BY <1>1, <1>2 DEF RowsInv, Typed, Match, Whole, CancelSeen
<1>. QED
  BY <1>1, <1>2, <1>4, <1>5 DEF RowsInv, BeforeWork, AtWork

\* A file that fails is not looked at, and its row will not settle it.
LEMMA ExtractFailsKeeps ==
    ASSUME RowsInv, NEW f \in Files, ExtractFails(f)
    PROVE  RowsInv'
<1>1. /\ pc = "extract" /\ pc' = "extract" /\ f \in run.todo
      /\ UNCHANGED <<db, disk, last, zst, cancelled, touched, struck>>
      /\ run' = [run EXCEPT !.todo = @ \ {f}, !.failed = @ \cup {f}]
  BY DEF ExtractFails
<1>2. /\ run' \in RunTypes
      /\ run'.found = run.found /\ run'.changed = run.changed /\ run'.kept = run.kept
      /\ run'.open = run.open /\ run'.hash = run.hash /\ run'.buf = run.buf
      /\ run'.todo = run.todo \ {f} /\ run'.failed = run.failed \cup {f}
  BY <1>1 DEF RowsInv, Typed, RunTypes
<1>3. RunFits
  BY <1>1 DEF RowsInv, AtWork
<1>4. LookedAt' \subseteq LookedAt
  BY <1>1, <1>2 DEF LookedAt, Parsed
<1>5. RunFits'
  BY <1>1, <1>2, <1>3, <1>4 DEF RunFits, Rows
<1>6. Typed' /\ Match(db)' /\ Match(zst)' /\ CancelSeen'
  BY <1>1, <1>2 DEF RowsInv, Typed, Match, Whole, CancelSeen
<1>. QED
  BY <1>1, <1>2, <1>5, <1>6 DEF RowsInv, BeforeWork, AtWork

\* The passes over the buffer add edges.
LEMMA PassesKeep ==
    ASSUME RowsInv, ResolveFull \/ ResolveIncremental \/ HistoryPass \/ Predump
    PROVE  RowsInv'
<1>. DEFINE Adds(h) == OnlyEdges(run.buf, h)
<1>1. run.buf \in Graphs /\ run.changed \in SUBSET Files /\ run.saved \in SUBSET Edges
  BY DEF RowsInv, Typed, RunTypes
<1>2. Adds(run.buf)
  BY <1>1 DEF OnlyEdges
<1>3. ASSUME NEW h, Adds(h)
      PROVE  /\ \A S \in SUBSET run.changed : Adds(Resolved(h, S))
             /\ Adds(Historied(h)) /\ Adds(WithSimilar(h)) /\ Adds(Restored(h, run.saved))
  BY <1>1, <1>3, EdgePasses DEF OnlyEdges
<1>4. ASSUME NEW h, Adds(h), run' = [run EXCEPT !.buf = h] \/ run' = [run EXCEPT !.buf = h, !.todo = {}]
      PROVE  run' \in RunTypes /\ SameRun
  BY <1>4 DEF RowsInv, Typed, RunTypes, SameRun, OnlyEdges
<1>. HIDE DEF Adds
<1>5. CASE ResolveFull
  <2>1. PICK S \in SUBSET run.changed : run' = [run EXCEPT !.buf = Resolved(@, S)]
    BY <1>5 DEF ResolveFull
  <2>2. run' \in RunTypes /\ SameRun
    BY <1>2, <1>3, <1>4, <2>1
  <2>3. Typed' /\ Match(db)'
    BY <1>5, <2>2 DEF ResolveFull, Step, RowsInv, Typed, Match, Whole
  <2>. QED
    BY <1>5, <2>2, <2>3, WorkGoesOn DEF ResolveFull, Step, AtWork
<1>6. CASE ResolveIncremental
  <2>. DEFINE s(S) == IF run.mode = "fast" THEN Resolved(run.buf, S) ELSE WithSimilar(Resolved(run.buf, S))
  <2>1. PICK S \in SUBSET run.changed : run' = [run EXCEPT !.buf = Restored(s(S), run.saved), !.todo = {}]
    BY <1>6 DEF ResolveIncremental
  <2>2. Adds(Resolved(run.buf, S))
    BY <1>2, <1>3
  <2>3. Adds(s(S))
    BY <2>2, <1>3
  <2>. HIDE DEF s
  <2>4. run' \in RunTypes /\ SameRun
    BY <2>1, <2>3, <1>3, <1>4
  <2>5. Typed' /\ Match(db)'
    BY <1>6, <2>4 DEF ResolveIncremental, Step, RowsInv, Typed, Match, Whole
  <2>. QED
    BY <1>6, <2>4, <2>5, WorkGoesOn DEF ResolveIncremental, Step, AtWork
<1>7. CASE HistoryPass
  <2>1. run' \in RunTypes /\ SameRun
    BY <1>2, <1>3, <1>4, <1>7 DEF HistoryPass
  <2>2. Typed' /\ Match(db)'
    BY <1>7, <2>1 DEF HistoryPass, Keep, RowsInv, Typed, Match, Whole
  <2>. QED
    BY <1>7, <2>1, <2>2, WorkGoesOn DEF HistoryPass, Keep, AtWork
<1>8. CASE Predump
  <2>1. run' \in RunTypes /\ SameRun
    BY <1>2, <1>3, <1>4, <1>8 DEF Predump
  <2>2. Typed' /\ Match(db)'
    BY <1>8, <2>1 DEF Predump, Step, Keep, RowsInv, Typed, Match, Whole
  <2>. QED
    BY <1>8, <2>1, <2>2, WorkGoesOn DEF Predump, Step, Keep, AtWork
<1>. QED
  BY <1>5, <1>6, <1>7, <1>8

\* The dump begins unless the run was cancelled, and leaves a torn file at first.
LEMMA DumpBeginsKeeps ==
    ASSUME RowsInv, CheckBeforeDump \/ DumpBegins
    PROVE  RowsInv'
<1>1. CASE CheckBeforeDump /\ cancelled
  BY <1>1, QuietEnd DEF CheckBeforeDump, Keep
<1>2. CASE CheckBeforeDump /\ ~cancelled
  BY <1>2, WorkGoesOn DEF CheckBeforeDump, Keep, AtWork, SameRun, RowsInv, Typed, Match, Whole
<1>3. CASE DumpBegins
  <2>1. Typed' /\ Match(db)'
    BY <1>3, Constants DEF DumpBegins, Keep, RowsInv, Typed, Match
  <2>. QED
    BY <1>3, <2>1, WorkGoesOn DEF DumpBegins, Step, Keep, AtWork, SameRun
<1>. QED
  BY <1>1, <1>2, <1>3

\* The dump writes the buffer: nothing of a file that is neither open nor gets a row.
LEMMA DumpEndsKeeps ==
    ASSUME RowsInv, DumpEnds
    PROVE  RowsInv'
<1>. DEFINE open == Rows \cup {f \in Files : f \in run.open /\ run.buf.ver[f] # 0}
<1>1. /\ pc = "dumping" /\ pc' = "clear"
      /\ db' = [DbOf(run.buf) EXCEPT !.open = open]
      /\ UNCHANGED <<run, disk, last, zst, cancelled, touched, struck>>
  BY DEF DumpEnds, Step, Keep
<1>2. run.buf \in Graphs /\ open \in SUBSET Files
  BY DEF RowsInv, Typed, RunTypes, Rows
<1>3. RunFits
  BY <1>1 DEF RowsInv, AtWork
<1>4. \A f \in Files \ open : run.buf.ver[f] = 0
  BY <1>3 DEF RunFits
<1>. HIDE DEF open
<1>5. /\ db' \in Dbs /\ Whole(db') /\ db'.graph = run.buf /\ db'.open = open
      /\ db'.hash = [f \in Files |-> 0]
  BY <1>1, <1>2, DbOfType DEF Dbs, Whole
<1>6. Match(db)'
  BY <1>4, <1>5 DEF Match
<1>7. DumpFits'
  <2>1. Rows \subseteq open
    BY DEF open
  <2>. QED
    BY <1>1, <1>5, <2>1 DEF DumpFits, Rows
<1>8. RunFits'
  BY <1>1, <1>3 DEF RunFits, LookedAt, Parsed, Rows
<1>9. Typed' /\ Match(zst)' /\ CancelSeen'
  BY <1>1, <1>5 DEF RowsInv, Typed, Match, Whole, CancelSeen
<1>. QED
  BY <1>1, <1>6, <1>7, <1>8, <1>9 DEF RowsInv, BeforeWork, AtWork

LEMMA ClearKeeps ==
    ASSUME RowsInv, ClearRows
    PROVE  RowsInv'
<1>1. /\ pc = "clear" /\ pc' = "rows"
      /\ db' = [db EXCEPT !.adr = @ \/ run.adr] /\ run' = [run EXCEPT !.todo = Rows]
      /\ UNCHANGED <<disk, last, zst, cancelled, touched, struck>>
  BY DEF ClearRows, Step, Keep
<1>2. /\ run' \in RunTypes /\ SameRun /\ run'.buf = run.buf /\ run'.todo = Rows
  BY <1>1 DEF RowsInv, Typed, RunTypes, SameRun, Rows
<1>3. /\ db' \in Dbs /\ db'.file = db.file /\ db'.graph = db.graph /\ db'.hash = db.hash
      /\ db'.open = db.open
  BY <1>1 DEF RowsInv, Typed, RunTypes, Dbs
<1>4. Typed' /\ Match(db)' /\ Match(zst)' /\ CancelSeen'
  BY <1>1, <1>2, <1>3 DEF RowsInv, Typed, Match, Whole, CancelSeen
<1>5. RunFits'
  BY <1>1, <1>2, <1>4, FitsOn DEF RowsInv, AtWork, LookedAt, Parsed, SameRun
<1>6. DumpFits'
  BY <1>1, <1>2, <1>3 DEF RowsInv, DumpFits, SameRun, Rows, Whole
<1>. QED
  BY <1>1, <1>4, <1>5, <1>6 DEF RowsInv, BeforeWork, AtWork

\* A row that settles its file says what the graph holds; one that does not
\* leaves the file open, which it was.
LEMMA RowKeeps ==
    ASSUME RowsInv, NEW f \in Files, PersistRow(f)
    PROVE  RowsInv'
<1>. DEFINE row == IF f \in run.kept THEN run.hash[f] ELSE disk[f]
<1>1. /\ pc = "rows" /\ pc' = "rows" /\ f \in run.todo
      /\ run' = [run EXCEPT !.todo = @ \ {f}]
      /\ db' = [db EXCEPT !.hash[f] = row, !.open = IF Settled(f) THEN @ \ {f} ELSE @]
      /\ UNCHANGED <<disk, last, zst, cancelled, touched, struck>>
  BY DEF PersistRow, Keep
<1>2. RunFits /\ DumpFits
  BY <1>1 DEF RowsInv, AtWork
<1>3. f \in Rows /\ f \in db.open /\ db.graph = run.buf /\ Whole(db)
  BY <1>1, <1>2 DEF DumpFits
<1>4. row \in Versions
  BY DEF RowsInv, Typed, RunTypes
<1>5. Settled(f) => row = run.buf.ver[f]
  <2>1. CASE f \in run.kept
    BY <1>2, <2>1 DEF Settled, RunFits
  <2>2. CASE f \notin run.kept
    BY <1>1, <1>2, <1>3, <2>2 DEF Settled, RunFits, Rows, LookedAt, Parsed
  <2>. QED
    BY <2>1, <2>2
<1>. HIDE DEF row
<1>6. /\ db' \in Dbs /\ db'.file = db.file /\ db'.graph = db.graph
      /\ \A h \in Files : db'.hash[h] = IF h = f THEN row ELSE db.hash[h]
      /\ db'.open = IF Settled(f) THEN db.open \ {f} ELSE db.open
  BY <1>1, <1>4 DEF RowsInv, Typed, Dbs
<1>7. Match(db)'
  BY <1>3, <1>5, <1>6 DEF RowsInv, Match, Whole
<1>8. /\ run' \in RunTypes /\ SameRun /\ run'.buf = run.buf /\ run'.todo = run.todo \ {f}
  BY <1>1 DEF RowsInv, Typed, RunTypes, SameRun
<1>9. Typed' /\ Match(zst)' /\ CancelSeen'
  BY <1>1, <1>6, <1>8 DEF RowsInv, Typed, Match, Whole, CancelSeen
<1>10. RunFits'
  BY <1>1, <1>2, <1>8, <1>9, FitsOn DEF RowsInv, LookedAt, Parsed, SameRun
<1>11. DumpFits'
  BY <1>1, <1>2, <1>6, <1>8 DEF DumpFits, SameRun, Rows, Whole
<1>. QED
  BY <1>1, <1>7, <1>9, <1>10, <1>11 DEF RowsInv, BeforeWork, AtWork

LEMMA RowFailsKeeps ==
    ASSUME RowsInv, NEW f \in Files, PersistRowFails(f)
    PROVE  RowsInv'
<1>1. /\ pc = "rows" /\ pc' = "rows" /\ run' = [run EXCEPT !.todo = @ \ {f}]
      /\ UNCHANGED <<db, disk, last, zst, cancelled, touched, struck>>
  BY DEF PersistRowFails
<1>2. /\ run' \in RunTypes /\ SameRun /\ run'.buf = run.buf /\ run'.todo = run.todo \ {f}
  BY <1>1 DEF RowsInv, Typed, RunTypes, SameRun
<1>3. Typed' /\ Match(db)' /\ Match(zst)' /\ CancelSeen'
  BY <1>1, <1>2 DEF RowsInv, Typed, Match, Whole, CancelSeen
<1>4. RunFits'
  BY <1>1, <1>2, <1>3, FitsOn DEF RowsInv, AtWork, LookedAt, Parsed, SameRun
<1>5. DumpFits'
  BY <1>1, <1>2 DEF RowsInv, DumpFits, SameRun, Rows, Whole
<1>. QED
  BY <1>1, <1>3, <1>4, <1>5 DEF RowsInv, BeforeWork, AtWork

\* Once the rows are written, or the dump has failed, only the database counts.
LEMMA AfterRows ==
    ASSUME RowsInv, pc' \in {"export", "metadata", "idle"},
           Typed', Match(db)', Match(zst)', UNCHANGED <<cancelled, struck>>
    PROVE  RowsInv'
BY DEF RowsInv, CancelSeen, BeforeWork, AtWork

LEMMA WritingEnds ==
    ASSUME RowsInv, DumpFails \/ RebuildFts \/ ExportContent
    PROVE  RowsInv'
<1>1. CASE DumpFails
  <2>1. CASE run.route = "full"
    BY <1>1, <2>1, QuietEnd DEF DumpFails
  <2>2. CASE run.route # "full"
    <3>1. pc' = "export" /\ UNCHANGED <<run, db, disk, last, zst, cancelled, touched, struck>>
      BY <1>1, <2>2 DEF DumpFails
    <3>. QED
      BY <3>1, AfterRows DEF RowsInv, Typed, Match, Whole
  <2>. QED
    BY <2>1, <2>2
<1>2. CASE RebuildFts
  <2>1. /\ pc' = "export" /\ db' = [db EXCEPT !.fts = db.graph.has]
        /\ UNCHANGED <<run, disk, last, zst, cancelled, touched, struck>>
    BY <1>2 DEF RebuildFts, Step, Keep
  <2>2. /\ db' \in Dbs /\ db'.file = db.file /\ db'.graph = db.graph
        /\ db'.hash = db.hash /\ db'.open = db.open
    BY <2>1 DEF RowsInv, Typed, Dbs, Graphs
  <2>. QED
    BY <2>1, <2>2, AfterRows DEF RowsInv, Typed, Match, Whole
<1>3. CASE ExportContent
  BY <1>3, AfterRows DEF ExportContent, Step, RowsInv, Typed, Match, Whole
<1>. QED
  BY <1>1, <1>2, <1>3

LEMMA RunsEnd ==
    ASSUME RowsInv, StopCancelled \/ NothingToDo \/ NoExport \/ ExportMetadata \/ ExportFails
    PROVE  RowsInv'
<1>1. CASE StopCancelled
  BY <1>1, QuietEnd DEF StopCancelled, Keep
<1>2. CASE NothingToDo
  BY <1>2, QuietEnd DEF NothingToDo, Keep
<1>3. CASE NoExport
  BY <1>3, QuietEnd DEF NoExport, Keep
<1>4. CASE ExportMetadata
  BY <1>4, QuietEnd DEF ExportMetadata
<1>5. CASE ExportFails
  BY <1>5, QuietEnd DEF ExportFails
<1>. QED
  BY <1>1, <1>2, <1>3, <1>4, <1>5

-----------------------------------------------------------------------------
(* The steps of the world.                                                  *)

\* A file that changes behind the run's back is touched.
LEMMA ChangeKeeps ==
    ASSUME RowsInv, NEW f \in Files, NEW v \in Versions,
           disk' = [disk EXCEPT ![f] = v], last' \in [Files -> Versions],
           touched' = touched \cup {f}, UNCHANGED <<db, zst, pc, run, cancelled, struck>>
    PROVE  RowsInv'
<1>1. Typed' /\ Match(db)' /\ Match(zst)' /\ CancelSeen'
  BY DEF RowsInv, Typed, Match, Whole, CancelSeen
<1>2. ASSUME RunFits PROVE RunFits'
  <2>1. LookedAt' = LookedAt /\ Rows' = Rows /\ LookedAt \subseteq Files
    BY DEF LookedAt, Parsed, Rows, RowsInv, Typed, RunTypes
  <2>2. \A h \in Files : h # f => disk'[h] = disk[h]
    BY DEF RowsInv, Typed
  <2>. QED
    BY <1>2, <2>1, <2>2 DEF RunFits
<1>3. ASSUME DumpFits PROVE DumpFits'
  BY <1>3 DEF DumpFits, Whole, Rows
<1>. QED
  BY <1>1, <1>2, <1>3 DEF RowsInv, BeforeWork, AtWork

LEMMA EditKeeps ==
    ASSUME RowsInv, NEW f \in Files, Edit(f) \/ Remove(f)
    PROVE  RowsInv'
<1>1. CASE Edit(f)
  <2>1. last[f] + 1 \in Versions
    BY <1>1, BoundsAssumption DEF Edit, RowsInv, Typed, Versions
  <2>. QED
    BY <1>1, <2>1, ChangeKeeps DEF Edit, Idle, RowsInv, Typed
<1>2. CASE Remove(f)
  BY <1>2, Constants, ChangeKeeps DEF Remove, Idle, RowsInv, Typed
<1>. QED
  BY <1>1, <1>2

\* A cancel comes to a run that was not cancelled, so nothing it has looked at
\* is taken back except by the cancel itself.
LEMMA CancelKeeps ==
    ASSUME RowsInv, Cancel
    PROVE  RowsInv'
<1>1. /\ ~cancelled /\ ~struck /\ cancelled' = TRUE
      /\ struck' = (pc \in {"discover", "route", "classify", "extract"})
      /\ UNCHANGED <<disk, last, db, zst, pc, run, touched>>
  BY DEF Cancel, RowsInv, CancelSeen, Typed
<1>2. Typed' /\ Match(db)' /\ Match(zst)' /\ CancelSeen'
  <2>1. Match(db)' /\ Match(zst)'
    BY <1>1 DEF RowsInv, Match, Whole
  <2>2. struck' \in BOOLEAN
    BY <1>1
  <2>3. Typed'
    BY <1>1, <2>2 DEF RowsInv, Typed
  <2>4. CancelSeen'
    BY <1>1 DEF CancelSeen
  <2>. QED
    BY <2>1, <2>3, <2>4
<1>3. ASSUME RunFits PROVE RunFits'
  BY <1>1, <1>2, <1>3, FitsOn DEF RowsInv, SameRun, LookedAt, Parsed
<1>4. ASSUME DumpFits PROVE DumpFits'
  BY <1>1, <1>4 DEF DumpFits, Whole, Rows
<1>. QED
  BY <1>1, <1>2, <1>3, <1>4 DEF RowsInv, BeforeWork, AtWork

LEMMA WorldKeeps ==
    ASSUME RowsInv, Crash \/ StoreAdr \/ DeleteProject
    PROVE  RowsInv'
<1>1. CASE Crash
  <2>1. [NoRun EXCEPT !.rc = 1] \in RunTypes
    BY Constants DEF RunTypes
  <2>2. Typed' /\ Match(db)' /\ Match(zst)'
    BY <1>1, <2>1 DEF Crash, RowsInv, Typed, Match, Whole
  <2>. QED
    BY <1>1, <2>2, Ending DEF Crash, RowsInv, CancelSeen
<1>2. CASE StoreAdr
  <2>1. /\ db' \in Dbs /\ db'.file = db.file /\ db'.graph = db.graph
        /\ db'.hash = db.hash /\ db'.open = db.open
    BY <1>2 DEF StoreAdr, RowsInv, Typed, Dbs
  <2>2. UNCHANGED <<disk, last, zst, pc, run, cancelled, touched, struck>>
    BY <1>2 DEF StoreAdr
  <2>3. Typed' /\ Match(db)' /\ Match(zst)' /\ CancelSeen' /\ Whole(db)' = Whole(db)
    BY <2>1, <2>2 DEF RowsInv, Typed, Match, Whole, CancelSeen
  <2>4. (RunFits => RunFits') /\ (DumpFits => DumpFits')
    BY <2>1, <2>2, <2>3 DEF RunFits, DumpFits, LookedAt, Parsed, Rows
  <2>. QED
    BY <2>2, <2>3, <2>4 DEF RowsInv
<1>3. CASE DeleteProject
  <2>1. Typed' /\ Match(db)' /\ Match(zst)'
    BY <1>3, Constants DEF DeleteProject, RowsInv, Typed, Match, Whole
  <2>. QED
    BY <1>3, <2>1, Ending DEF DeleteProject, RowsInv, CancelSeen
<1>. QED
  BY <1>1, <1>2, <1>3

-----------------------------------------------------------------------------
(* The theorems.                                                            *)

LEMMA InitRows == Init => RowsInv
<1>. SUFFICES ASSUME Init PROVE RowsInv
  OBVIOUS
<1>1. Typed
  <2>1. {0, 1} \subseteq Versions
    BY BoundsAssumption DEF Versions
  <2>. QED
    BY <2>1, Constants DEF Init, Typed
<1>2. Match(db) /\ Match(zst)
  BY Constants DEF Init, Match
<1>. QED
  BY <1>1, <1>2 DEF Init, RowsInv, CancelSeen, BeforeWork, AtWork

LEMMA NextRows == RowsInv /\ [Next]_vars => RowsInv'
<1>. SUFFICES ASSUME RowsInv, [Next]_vars PROVE RowsInv'
  OBVIOUS
<1>1. CASE UNCHANGED vars
  <2>1. Typed' /\ Match(db)' /\ Match(zst)' /\ CancelSeen' /\ (RunFits => RunFits') /\ (DumpFits => DumpFits')
    BY <1>1 DEF vars, RowsInv, Typed, Match, Whole, CancelSeen, RunFits, DumpFits, LookedAt, Parsed, Rows
  <2>. QED
    BY <1>1, <2>1 DEF vars, RowsInv, Whole
<1>2. CASE \E m \in Modes, persist \in BOOLEAN : Begin(m, persist)
  BY <1>2, BeginKeeps
<1>3. CASE Discover \/ StopCancelled \/ RouteIncremental \/ RouteFull \/ NothingToDo \/ LoadAndPurge \/ LoadFails
  BY <1>3, RoutingKeeps, RunsEnd, LoadKeeps
<1>4. CASE Structure \/ ResolveFull \/ ResolveIncremental \/ HistoryPass \/ Predump \/ CheckBeforeDump
  BY <1>4, StructureKeeps, PassesKeep, DumpBeginsKeeps
<1>5. CASE DumpBegins \/ DumpEnds \/ DumpFails \/ ClearRows \/ RebuildFts
  BY <1>5, DumpBeginsKeeps, DumpEndsKeeps, WritingEnds, ClearKeeps
<1>6. CASE NoExport \/ ExportContent \/ ExportMetadata \/ ExportFails
  BY <1>6, RunsEnd, WritingEnds
<1>7. CASE Cancel \/ Crash \/ StoreAdr \/ DeleteProject
  BY <1>7, CancelKeeps, WorldKeeps
<1>8. CASE \E f \in Files : \/ ExtractFile(f) \/ ExtractFails(f) \/ PersistRow(f) \/ PersistRowFails(f)
                             \/ Edit(f) \/ Remove(f)
  BY <1>8, ExtractKeeps, ExtractFailsKeeps, RowKeeps, RowFailsKeeps, EditKeeps
<1>. QED
  BY <1>1, <1>2, <1>3, <1>4, <1>5, <1>6, <1>7, <1>8 DEF Next

\* What a hash row says of a file is what the graph holds of it, in every
\* database a run, an import or a crash leaves, except for the files that were
\* edited behind a run's back, cut off by a cancel, skipped in extraction after
\* an error or left without a row (classify_files believes the rows;
\* persist_hashes writes them, also for the files that failed).
THEOREM RowsTellTheGraph == Spec => []RowsMatchGraph
<1>1. RowsInv => RowsMatchGraph
  BY DEF RowsInv, Match, RowsMatchGraph
<1>. QED
  BY <1>1, InitRows, NextRows, PTL DEF Spec

\* Only the start of a dump makes the database unreadable: no import does,
\* whatever a failed run has exported (cbm_artifact_import).
THEOREM DumpsTear == Spec => OnlyDumpsTear
<1>1. Torn # NoDb
  BY DEF Torn, NoDb, DbOf
<1>2. ASSUME RowsInv, [Next]_vars, db' = Torn, db # Torn
      PROVE  pc = "dump"
  <2>1. ASSUME NEW m \in Modes, NEW persist \in BOOLEAN, Begin(m, persist) PROVE FALSE
    BY <1>1, <1>2, <2>1 DEF Begin, Bootstrapped, Import
  <2>2. CASE \E m \in Modes, persist \in BOOLEAN : Begin(m, persist)
    BY <2>1, <2>2
  <2>3. Whole(db') => FALSE
    BY <1>2, Constants
  <2>4. CASE DumpEnds
    <3>1. db'.file = "whole"
      BY <1>2, <2>4, DbOfType DEF DumpEnds, Whole, RowsInv, Typed, RunTypes, Dbs
    <3>. QED
      BY <2>3, <3>1 DEF Whole
  <2>5. CASE ClearRows
    <3>1. Whole(db')
      BY <1>2, <2>5 DEF ClearRows, Step, RowsInv, DumpFits, Whole, Typed, Dbs
    <3>. QED
      BY <2>3, <3>1
  <2>6. ASSUME NEW f \in Files, PersistRow(f) PROVE FALSE
    <3>1. Whole(db')
      BY <1>2, <2>6 DEF PersistRow, RowsInv, DumpFits, Whole, Typed, Dbs
    <3>. QED
      BY <2>3, <3>1
  <2>7. CASE RebuildFts
    <3>1. Whole(db')
      BY <1>2, <2>7 DEF RebuildFts, Step, RowsInv, DumpFits, Whole, Typed, Dbs
    <3>. QED
      BY <2>3, <3>1
  <2>8. CASE StoreAdr
    <3>1. Whole(db')
      BY <1>2, <2>8 DEF StoreAdr, RowsInv, Whole, Typed, Dbs
    <3>. QED
      BY <2>3, <3>1
  <2>9. CASE RouteFull \/ DeleteProject
    BY <1>1, <1>2, <2>9 DEF RouteFull, DeleteProject
  <2>10. CASE DumpBegins
    BY <2>10 DEF DumpBegins, Step
  <2>11. CASE \/ Discover \/ StopCancelled \/ RouteIncremental \/ NothingToDo \/ LoadAndPurge \/ LoadFails
              \/ Structure \/ ResolveFull \/ ResolveIncremental \/ HistoryPass \/ Predump \/ CheckBeforeDump
              \/ DumpFails \/ NoExport \/ ExportContent \/ ExportMetadata \/ ExportFails \/ Cancel \/ Crash
              \/ UNCHANGED vars
              \/ \E f \in Files : ExtractFile(f) \/ ExtractFails(f) \/ PersistRowFails(f) \/ Edit(f) \/ Remove(f)
    <3>1. db' = db
      BY <2>11 DEF Discover, StopCancelled, RouteIncremental, NothingToDo, LoadAndPurge, LoadFails, Structure,
                   ResolveFull, ResolveIncremental, HistoryPass, Predump, CheckBeforeDump, DumpFails, NoExport,
                   ExportContent, ExportMetadata, ExportFails, Cancel, Crash, vars, ExtractFile, ExtractFails,
                   PersistRowFails, Edit, Remove, Idle
    <3>. QED
      BY <1>2, <3>1
  <2>. QED
    BY <1>2, <2>2, <2>4, <2>5, <2>6, <2>7, <2>8, <2>9, <2>10, <2>11 DEF Next
<1>. QED
  BY <1>2, InitRows, NextRows, PTL DEF Spec, OnlyDumpsTear

=============================================================================
