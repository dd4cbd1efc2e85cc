--------------------------- MODULE IndexPipeline ---------------------------
(***************************************************************************)
(* One project's pipeline runs: pipeline.c, pipeline_incremental.c and the *)
(* repository artifact of artifact.c.                                      *)
(*                                                                         *)
(* A run discovers the files, then either rebuilds the database from       *)
(* nothing or loads it, purges what changed, extracts that again and dumps *)
(* the merged graph.  Beside the graph the database keeps one hash row per *)
(* file; the next run believes a row that matches the disk.  The modelled  *)
(* world edits, removes and cancels while a run is on, and may kill it     *)
(* between any two writes.                                                 *)
(*                                                                         *)
(* A file is a version number, 0 when it is absent; a version stands for   *)
(* the content and for its mtime and size.  A file defines one symbol,     *)
(* except in a Hollow version, and always calls the symbols of Calls.      *)
(***************************************************************************)
EXTENDS Naturals, FiniteSets

CONSTANTS
    Files,
    FullOnly,    \* files in directories only mode "full" visits
    Calls,       \* <<f, t>>: f calls the symbol of t
    Coupled,     \* <<f, t>>: f and t change together in the git history
    Hollow,      \* versions that define no symbol
    Packages,    \* files of a language whose module is its directory (Go, Java)
    MaxVersion,  \* bound: versions of a file
    MaxRuns,     \* bound: pipeline runs
    MaxEdits,    \* bound: edits and removals
    MaxFaults    \* bound: cancels, crashes, failed reads and writes

Modes    == {"full", "moderate", "fast"}
Versions == 0 .. MaxVersion
Root     == "root"                  \* the folder node above every file
Nobody   == "nobody"

ASSUME FilesAssumption ==
    /\ FullOnly \subseteq Files /\ Packages \subseteq Files
    /\ Root \notin Files /\ Nobody \notin Files
    /\ Calls \subseteq Files \X Files /\ Coupled \subseteq Files \X Files
    /\ Hollow \subseteq Versions \ {0}

ASSUME BoundsAssumption ==
    MaxVersion \in Nat \ {0} /\ MaxRuns \in Nat /\ MaxEdits \in Nat /\ MaxFaults \in Nat

VARIABLES
    disk,      \* version of every file in the working tree
    last,      \* the newest version each file has had
    db,        \* the project's database file
    zst, meta, \* the artifact's two files: content, recorded size
    pc,        \* control state of the run
    run,       \* the pipeline object and the run's locals
    cancelled, \* p->cancelled
    touched,   \* history: files edited since the run last looked at them
    struck,    \* history: the run was cancelled before it had extracted
    budget     \* [runs, edits, faults] left

vars == <<disk, last, db, zst, meta, pc, run, cancelled, touched, struck, budget>>

-----------------------------------------------------------------------------
(* The graph buffer.                                                        *)

Edges == {"CALLS", "CONTAINS_FILE", "SIMILAR_TO", "FILE_CHANGES_WITH"}
            \X (Files \cup {Root}) \X Files

\* `has': files with a File node; `ver': version their definitions are of;
\* `root': whose path the folder node carries, Nobody when the node is gone.
EmptyGraph == [has |-> {}, ver |-> [f \in Files |-> 0], root |-> Nobody, edges |-> {}]

Graphs == [has : SUBSET Files, ver : [Files -> Versions],
           root : Files \cup {Root, Nobody}, edges : SUBSET Edges]

Nodes(g)   == g.has \cup (IF g.root = Nobody THEN {} ELSE {Root})
Path(g, n) == IF n = Root THEN g.root ELSE n

Symbol(g, f) == g.ver[f] \notin Hollow \cup {0}

\* Structure pass: File nodes and their containment edges.
Structured(S) ==
    [EmptyGraph EXCEPT !.has = S, !.root = Root, !.edges = {<<"CONTAINS_FILE", Root, f>> : f \in S}]

\* What a file's definitions add.  Those of a package have a module named as
\* the folder is, so the upsert leaves the folder node with the file's path.
Defined(g, f, v) ==
    [g EXCEPT !.ver[f] = v, !.root = IF f \in Packages /\ v # 0 THEN f ELSE @]

\* cbm_gbuf_delete_by_file and its cascade over the edges.
Purged(g, S) ==
    [has   |-> g.has \ S,
     ver   |-> [f \in Files |-> IF f \in S THEN 0 ELSE g.ver[f]],
     root  |-> IF g.root \in S THEN Nobody ELSE g.root,
     edges |-> {e \in g.edges : Path(g, e[2]) \notin S /\ e[3] \notin S}]

\* The calls, usages and semantic passes over the files of S.
Resolved(g, S) ==
    [g EXCEPT !.edges = @ \cup
        {<<"CALLS", c[1], c[2]>> : c \in {c \in Calls : c[1] \in S /\ Symbol(g, c[2])}}]

Historied(g) ==
    [g EXCEPT !.edges = @ \cup
        {<<"FILE_CHANGES_WITH", c[1], c[2]>> : c \in
            {c \in Coupled : c[1] \in g.has /\ c[2] \in g.has}}]

\* Equal versions stand for fingerprints above the similarity threshold.
WithSimilar(g) ==
    [g EXCEPT !.edges = @ \cup
        {<<"SIMILAR_TO", c[1], c[2]>> : c \in
            {c \in Files \X Files : /\ c[1] # c[2] /\ g.ver[c[1]] = g.ver[c[2]]
                                    /\ Symbol(g, c[1])}}]

\* A capture that does not ask for the type (mutant of Captured).
CapturedAll(g, S) == {e \in g.edges : e[3] \in S /\ Path(g, e[2]) \notin S}

\* Edges into the files of S from nodes of other files, for the purge would
\* drop them.
Captured(g, S) ==
    {e \in g.edges : /\ e[1] \notin {"SIMILAR_TO", "FILE_CHANGES_WITH"}
                     /\ e[3] \in S /\ Path(g, e[2]) \notin S}

\* A restore that looks for symbols only (mutant of Restored).
RestoredInPart(g, saved) ==
    [g EXCEPT !.edges = @ \cup {e \in saved : e[2] \in g.has /\ Symbol(g, e[3])}]

\* Both endpoints must exist again, a CALLS target as the symbol it was.
Restored(g, saved) ==
    [g EXCEPT !.edges = @ \cup
        {e \in saved : /\ e[2] \in Nodes(g) /\ e[3] \in g.has
                       /\ e[1] = "CALLS" => Symbol(g, e[3])}]

-----------------------------------------------------------------------------
(* Database and artifact.                                                   *)

\* `open': history, files the rows cannot be trusted for (see RowsMatchGraph).
DbOf(g) == [file |-> "whole", graph |-> g, hash |-> [f \in Files |-> 0],
            adr |-> FALSE, fts |-> {}, open |-> Files]

NoDb == [DbOf(EmptyGraph) EXCEPT !.file = "none"]
Torn == [DbOf(EmptyGraph) EXCEPT !.file = "torn"]   \* a dump left it unfinished

Dbs == [file : {"none", "torn", "whole"}, graph : Graphs, hash : [Files -> Versions], adr : BOOLEAN,
        fts : SUBSET Files, open : SUBSET Files]

Whole(d) == d.file = "whole"

Size(d) == IF d = Torn THEN 1
           ELSE 1 + Cardinality(d.graph.has) + Cardinality(d.graph.edges)

\* cbm_artifact_exists: a metadata file of a known schema beside the content.
ArtifactExists == zst # NoDb /\ meta # 0

\* An import without the integrity check (mutant of Import).
ImportUnchecked(content, size) == IF Size(content) <= size THEN content ELSE NoDb

\* cbm_artifact_import: the content must fit the size the metadata gives and
\* open as a sound database; anything else leaves no database.
Import(content, size) ==
    IF Size(content) <= size /\ content # Torn THEN content ELSE NoDb

\* try_artifact_bootstrap, before the pipeline of an MCP request is run.
Bootstrapped == IF db = NoDb /\ ArtifactExists THEN Import(zst, meta) ELSE db

-----------------------------------------------------------------------------
NoRun == [mode |-> "full", persist |-> FALSE, route |-> "none", found |-> {},
          changed |-> {}, kept |-> {}, todo |-> {}, failed |-> {}, buf |-> EmptyGraph,
          saved |-> {}, old |-> EmptyGraph, hash |-> [f \in Files |-> 0],
          open |-> {}, adr |-> FALSE, had |-> FALSE, rc |-> 0]

Init ==
    /\ disk \in [Files -> {0, 1}] /\ last = [f \in Files |-> 1]
    /\ db = NoDb /\ zst = NoDb /\ meta = 0
    /\ pc = "idle" /\ run = NoRun /\ cancelled = FALSE
    /\ touched = {} /\ struck = FALSE
    /\ budget = [runs |-> MaxRuns, edits |-> MaxEdits, faults |-> MaxFaults]

\* The run ends with rc; the pipeline object is freed.
Finish(rc) == pc' = "idle" /\ run' = [run EXCEPT !.rc = rc, !.todo = {}]

Keep == UNCHANGED <<disk, last, zst, meta, cancelled, touched, struck, budget>>

Step(from, to) == pc = from /\ pc' = to

\* A fault the bound counts.
Fault == budget.faults > 0 /\ budget' = [budget EXCEPT !.faults = @ - 1]

-----------------------------------------------------------------------------
(* The run: discovery and routing.                                          *)

\* handle_index_repository: bootstrap from the artifact, make the pipeline.
Begin(m, persist) ==
    /\ Step("idle", "discover")
    /\ budget.runs > 0 /\ budget' = [budget EXCEPT !.runs = @ - 1]
    /\ db' = Bootstrapped
    /\ run' = [NoRun EXCEPT !.mode = m, !.persist = persist,
                            !.had = Whole(Bootstrapped) /\ Bootstrapped.adr]
    /\ cancelled' = FALSE /\ touched' = {} /\ struck' = FALSE
    /\ UNCHANGED <<disk, last, zst, meta>>

Discovered(m) == {f \in Files : disk[f] # 0 /\ (m = "full" \/ f \notin FullOnly)}

Discover ==
    /\ pc = "discover" /\ ~cancelled
    /\ pc' = "route"
    /\ run' = [run EXCEPT !.found = Discovered(run.mode)]
    /\ UNCHANGED db /\ Keep

\* check_cancel at the places where a full run returns CBM_NOT_FOUND.
StopCancelled ==
    /\ \/ pc \in {"discover", "structure", "history"}
       \/ pc = "extract" /\ run.route = "full"
    /\ cancelled
    /\ Finish(1)
    /\ UNCHANGED db /\ Keep

HashCount == Cardinality({f \in Files : db.hash[f] # 0})

Incremental ==
    /\ Whole(db) /\ HashCount > 0
    /\ Cardinality(run.found) <= HashCount + HashCount \div 2

RouteIncremental ==
    /\ Step("route", "classify")
    /\ Incremental
    /\ run' = [run EXCEPT !.route = "incremental"]
    /\ UNCHANGED db /\ Keep

\* The old database is unlinked; its ADR survives in the pipeline's memory.
RouteFull ==
    /\ Step("route", "structure")
    /\ ~Incremental
    /\ run' = [run EXCEPT !.route = "full", !.adr = Whole(db) /\ db.adr]
    /\ db' = NoDb
    /\ Keep

-----------------------------------------------------------------------------
(* Incremental: classify, load, capture, purge.                             *)

\* Rows without their mtime (mutant of Changed).
ChangedByRow(d, F) == {f \in F : d.hash[f] = 0 \/ disk[f] = 0}

\* classify_files: no row, no file, or another mtime or size.
Changed(d, F) == {f \in F : d.hash[f] = 0 \/ disk[f] = 0 \/ disk[f] # d.hash[f]}

\* Rows of skipped files are dropped (mutant of ModeSkipped).
SkippedForgotten(d, F) == {}

\* find_deleted_files: a row the discovery did not visit, by stat.
Gone(d, F)    == {f \in Files \ F : d.hash[f] # 0 /\ disk[f] = 0}
ModeSkipped(d, F) == {f \in Files \ F : d.hash[f] # 0 /\ disk[f] # 0}

NothingToDo ==
    /\ pc = "classify"
    /\ Changed(db, run.found) = {} /\ Gone(db, run.found) = {}
    /\ Finish(0)
    /\ UNCHANGED db /\ Keep

LoadAndPurge ==
    LET changed == Changed(db, run.found)
        gone    == Gone(db, run.found)
        g       == Purged(db.graph, changed \cup gone)
    IN
    /\ Step("classify", "extract")
    /\ changed # {} \/ gone # {}
    /\ run' = [run EXCEPT !.changed = changed, !.todo = changed,
                          !.kept = ModeSkipped(db, run.found),
                          !.old = db.graph, !.hash = db.hash, !.open = db.open,
                          !.saved = Captured(db.graph, changed),
                          !.buf = [g EXCEPT !.has = @ \cup changed]]
    /\ touched' = {}
    /\ UNCHANGED <<db, disk, last, zst, meta, cancelled, struck, budget>>

\* A load that fails falls through to the full route, over the old database.
LoadFails ==
    /\ Step("classify", "structure")
    /\ Changed(db, run.found) # {} \/ Gone(db, run.found) # {}
    /\ Fault
    /\ run' = [run EXCEPT !.route = "full"]
    /\ UNCHANGED <<db, disk, last, zst, meta, cancelled, touched, struck>>

-----------------------------------------------------------------------------
(* Extraction and the passes over the graph buffer.                         *)

Structure ==
    /\ pc = "structure" /\ ~cancelled
    /\ pc' = "extract"
    /\ run' = [run EXCEPT !.buf = Structured(run.found),
                          !.changed = run.found, !.todo = run.found]
    /\ UNCHANGED db /\ Keep

\* A worker reads and parses one file; one that is gone yields nothing.
ExtractFile(f) ==
    /\ pc = "extract" /\ f \in run.todo /\ ~cancelled
    /\ run' = [run EXCEPT !.todo = @ \ {f}, !.buf = Defined(@, f, disk[f])]
    /\ touched' = touched \ {f}
    /\ UNCHANGED <<pc, db, disk, last, zst, meta, cancelled, struck, budget>>

\* A file too large, without memory for it, unreadable, or that the parser gives
\* up on is put on the list of errors, and the run goes on without it.
ExtractFails(f) ==
    /\ pc = "extract" /\ f \in run.todo /\ ~cancelled
    /\ Fault
    /\ run' = [run EXCEPT !.todo = @ \ {f}, !.failed = @ \cup {f}]
    /\ UNCHANGED <<pc, db, disk, last, zst, meta, cancelled, touched, struck>>

\* The files whose calls are found.  The passes after the definitions may read
\* a file again: one that failed before, whose calls then start at its File
\* node, and one that was read before may fail.
CallersFound(S) ==
    /\ \A f \in S : run.buf.ver[f] # 0 \/ disk[f] # 0
    /\ IF {f \in run.changed : run.buf.ver[f] # 0} \subseteq S
       THEN UNCHANGED budget ELSE Fault

ResolveFull ==
    /\ Step("extract", "history")
    /\ run.route = "full" /\ run.todo = {} /\ ~cancelled
    /\ \E S \in SUBSET run.changed :
         /\ CallersFound(S)
         /\ run' = [run EXCEPT !.buf = Resolved(@, S)]
    /\ UNCHANGED <<db, disk, last, zst, meta, cancelled, touched, struck>>

\* The incremental run ignores what its passes return: cancelled ones leave
\* their files unextracted and unresolved, and it goes on to the dump.
ResolveIncremental ==
    /\ Step("extract", "dump")
    /\ run.route = "incremental"
    /\ run.todo = {} \/ cancelled
    /\ \E S \in SUBSET run.changed :
         /\ IF cancelled THEN S = {} /\ UNCHANGED budget ELSE CallersFound(S)
         /\ LET g == Resolved(run.buf, S)
                s == IF run.mode = "fast" THEN g ELSE WithSimilar(g)
            IN run' = [run EXCEPT !.buf = Restored(s, run.saved), !.todo = {}]
    /\ UNCHANGED <<db, disk, last, zst, meta, cancelled, touched, struck>>

HistoryPass ==
    /\ pc = "history" /\ ~cancelled
    /\ pc' = "predump"
    /\ run' = [run EXCEPT !.buf = IF run.mode = "fast" THEN @ ELSE Historied(@)]
    /\ UNCHANGED db /\ Keep

Predump ==
    /\ Step("predump", "beforeDump")
    /\ run' = [run EXCEPT !.buf = IF cancelled \/ run.mode = "fast"
                                  THEN @ ELSE WithSimilar(@)]
    /\ UNCHANGED db /\ Keep

\* run_post_extraction: a cancelled run dumps nothing and still returns 0.
CheckBeforeDump ==
    /\ pc = "beforeDump"
    /\ IF cancelled THEN Finish(0) ELSE pc' = "dump" /\ UNCHANGED run
    /\ UNCHANGED db /\ Keep

-----------------------------------------------------------------------------
(* Dump, hash rows, full-text index, artifact.                              *)

\* The incremental run unlinks the file first; the writer truncates it.
DumpBegins ==
    /\ Step("dump", "dumping")
    /\ db' = Torn
    /\ UNCHANGED run /\ Keep

Rows == run.found \cup run.kept

DumpEnds ==
    /\ Step("dumping", "clear")
    /\ db' = [DbOf(run.buf) EXCEPT !.open =
                Rows \cup {f \in Files : f \in run.open /\ run.buf.ver[f] # 0}]
    /\ UNCHANGED run /\ Keep

\* The full run fails; the incremental run does not look at the dump's rc.
DumpFails ==
    /\ pc = "dumping"
    /\ Fault
    /\ IF run.route = "full" THEN Finish(1) ELSE pc' = "export" /\ UNCHANGED run
    /\ UNCHANGED <<db, disk, last, zst, meta, cancelled, touched, struck>>

\* The store is reopened: old rows deleted and, by a full run, the ADR restored.
ClearRows ==
    /\ Step("clear", "rows")
    /\ db' = [db EXCEPT !.adr = @ \/ run.adr]
    /\ run' = [run EXCEPT !.todo = Rows]
    /\ Keep

Settled(f) == /\ f \notin touched \cup run.failed
              /\ struck => f \notin run.changed
              /\ f \in run.open => f \in run.changed

\* A fresh stat for a file of this discovery, the old row for a skipped one.
PersistRow(f) ==
    /\ pc = "rows" /\ f \in run.todo
    /\ run' = [run EXCEPT !.todo = @ \ {f}]
    /\ db' = [db EXCEPT !.hash[f] = IF f \in run.kept THEN run.hash[f] ELSE disk[f],
                        !.open = IF Settled(f) THEN @ \ {f} ELSE @]
    /\ UNCHANGED pc /\ Keep

PersistRowFails(f) ==
    /\ pc = "rows" /\ f \in run.todo
    /\ Fault
    /\ run' = [run EXCEPT !.todo = @ \ {f}]
    /\ UNCHANGED <<pc, db, disk, last, zst, meta, cancelled, touched, struck>>

RebuildFts ==
    /\ Step("rows", "export")
    /\ run.todo = {}
    /\ db' = [db EXCEPT !.fts = db.graph.has]
    /\ UNCHANGED run /\ Keep

WantsExport == IF run.route = "full" THEN run.persist ELSE ArtifactExists

NoExport ==
    /\ pc = "export" /\ ~WantsExport
    /\ Finish(0)
    /\ UNCHANGED db /\ Keep

\* write_file_atomic of the compressed database, then of the metadata.
ExportContent ==
    /\ Step("export", "metadata")
    /\ WantsExport
    /\ zst' = db
    /\ UNCHANGED <<db, run, disk, last, meta, cancelled, touched, struck, budget>>

ExportMetadata ==
    /\ pc = "metadata"
    /\ meta' = Size(zst)
    /\ Finish(0)
    /\ UNCHANGED <<db, disk, last, zst, cancelled, touched, struck, budget>>

ExportFails ==
    /\ pc \in {"export", "metadata"} /\ WantsExport
    /\ Fault
    /\ zst' = IF pc = "metadata" THEN NoDb ELSE zst
    /\ Finish(IF run.route = "full" THEN 1 ELSE 0)
    /\ UNCHANGED <<db, disk, last, meta, cancelled, touched, struck>>

-----------------------------------------------------------------------------
(* The world around the run.                                                *)

Idle == UNCHANGED <<db, zst, meta, pc, run, cancelled, struck>>

Edit(f) ==
    /\ budget.edits > 0 /\ budget' = [budget EXCEPT !.edits = @ - 1]
    /\ last[f] < MaxVersion
    /\ last' = [last EXCEPT ![f] = @ + 1]
    /\ disk' = [disk EXCEPT ![f] = last[f] + 1]
    /\ touched' = touched \cup {f}
    /\ Idle

Remove(f) ==
    /\ budget.edits > 0 /\ budget' = [budget EXCEPT !.edits = @ - 1]
    /\ disk[f] # 0
    /\ disk' = [disk EXCEPT ![f] = 0]
    /\ touched' = touched \cup {f}
    /\ Idle /\ UNCHANGED last

\* cbm_pipeline_cancel, from a signal or another thread.
Cancel ==
    /\ pc # "idle" /\ ~cancelled
    /\ Fault
    /\ cancelled' = TRUE
    /\ struck' = (pc \in {"discover", "route", "classify", "extract"})
    /\ UNCHANGED <<disk, last, db, zst, meta, pc, run, touched>>

\* The process dies; what was written stays.
Crash ==
    /\ pc # "idle"
    /\ Fault
    /\ pc' = "idle" /\ run' = [NoRun EXCEPT !.rc = 1]
    /\ UNCHANGED <<disk, last, db, zst, meta, cancelled, touched, struck>>

\* manage_adr stores the project's decision record, and takes no lock for it.
StoreAdr ==
    /\ Whole(db) /\ ~db.adr
    /\ db' = [db EXCEPT !.adr = TRUE]
    /\ UNCHANGED <<disk, last, zst, meta, pc, run, cancelled, touched, struck, budget>>

\* handle_delete_project: the database goes, the artifact stays in the repository.
DeleteProject ==
    /\ pc = "idle" /\ db # NoDb
    /\ db' = NoDb
    /\ UNCHANGED <<disk, last, zst, meta, pc, run, cancelled, touched, struck, budget>>

Next ==
    \/ \E m \in Modes, persist \in BOOLEAN : Begin(m, persist)
    \/ Discover \/ StopCancelled \/ RouteIncremental \/ RouteFull
    \/ NothingToDo \/ LoadAndPurge \/ LoadFails
    \/ Structure \/ ResolveFull \/ ResolveIncremental \/ HistoryPass
    \/ Predump \/ CheckBeforeDump
    \/ DumpBegins \/ DumpEnds \/ DumpFails \/ ClearRows \/ RebuildFts
    \/ NoExport \/ ExportContent \/ ExportMetadata \/ ExportFails
    \/ Cancel \/ Crash \/ StoreAdr \/ DeleteProject
    \/ \E f \in Files : \/ ExtractFile(f) \/ ExtractFails(f) \/ PersistRow(f) \/ PersistRowFails(f)
                        \/ Edit(f) \/ Remove(f)

Spec == Init /\ [][Next]_vars

-----------------------------------------------------------------------------
(* Type invariant.                                                          *)

\* No edge dangles and no definitions hang in the air: the ends of an edge and
\* the files with extracted content have their File nodes.
Closed(g) ==
    /\ \A e \in g.edges : {e[2], e[3]} \subseteq Nodes(g)
    /\ \A f \in Files : g.ver[f] # 0 => f \in g.has

\* The shapes of the database, the artifact and the run, and the closed graphs
\* the dump relies on: it drops an edge whose endpoint it cannot map
\* (cbm_gbuf_delete_by_file, cbm_gbuf_dump_to_sqlite).
TypeOK ==
    /\ disk \in [Files -> Versions] /\ last \in [Files -> Versions]
    /\ db \in Dbs
    /\ zst \in Dbs /\ meta \in Nat
    /\ cancelled \in BOOLEAN /\ struck \in BOOLEAN /\ touched \subseteq Files
    /\ run.mode \in Modes /\ run.rc \in {0, 1}
    /\ run.found \cup run.changed \cup run.kept \cup run.todo \cup run.failed \subseteq Files
    /\ run.todo \subseteq run.changed \cup Rows
    /\ run.buf \in Graphs /\ Closed(run.buf)
    /\ run.old \in Graphs /\ Closed(db.graph)
    /\ run.saved \subseteq run.old.edges

(* Safety.                                                                  *)

\* A hash row is for the version the graph holds, and a file without a row
\* has nothing in the graph: through full runs and incremental ones, skipped
\* files, imports and crashes, except for the files of `open': edited after the
\* run had looked at them, cut off from extraction by a cancel or skipped in it
\* after an error, or left without a row by a crash or a failed write, and since
\* then not extracted again (classify_files, persist_hashes).
RowsMatchGraph ==
    Whole(db) => \A f \in Files \ db.open : db.hash[f] = db.graph.ver[f]

\* A run that reports success and was not cancelled leaves the graph of every
\* file it visited at the version on disk, and nothing of a file that is gone,
\* again but for the files edited behind its back and those some run failed on
\* (cbm_pipeline_run).
SuccessIsCurrent ==
    (pc = "idle" /\ run.route # "none" /\ run.rc = 0 /\ ~cancelled /\ Whole(db)) =>
        \A f \in Files \ (touched \cup db.open) :
            (f \in run.found \/ disk[f] = 0) => db.graph.ver[f] = disk[f]

\* An incremental run loses no call and no containment from a node it did not
\* purge: the edge of the loaded graph is in the dumped one when its target is
\* still there and defines what it named, whatever failed or was cancelled in
\* between (incr_capture_inbound_edge, incr_restore_inbound_edges).  A folder
\* whose node carries the path of a changed or removed file is purged with it.
EdgesSurvive ==
    (pc \in {"clear", "rows"} /\ run.route = "incremental") =>
        \A e \in run.old.edges :
            LET path == Path(run.old, e[2])
            IN  (/\ e[1] \in {"CALLS", "CONTAINS_FILE"}
                 /\ path \notin run.changed
                 /\ path \in db.graph.has \cup {Root}
                 /\ e[3] \in db.graph.has
                 /\ e[1] = "CALLS" => Symbol(db.graph, e[3])) => e \in db.graph.edges

\* A similarity edge is never stale: it joins files whose indexed versions are
\* alike, although incremental runs carry edges over and "fast" runs compute
\* none (incr_edge_type_is_recomputed).
SimilarIsCurrent ==
    Whole(db) => \A e \in db.graph.edges :
        e[1] = "SIMILAR_TO" => db.graph.ver[e[2]] = db.graph.ver[e[3]]

\* Only a dump that is under way or broke off leaves an unreadable database:
\* an artifact never brings one in, although a run whose dump failed may have
\* exported one (cbm_artifact_import).
OnlyDumpsTear == [][db' = Torn /\ db # Torn => pc = "dump"]_vars

-----------------------------------------------------------------------------
(* What the documentation says and the code does not do.                    *)

\* pipeline_incremental.c, classify_files: "changed[i] = true if files[i] needs
\* re-parsing".  A file edited between extraction and persist_hashes, and one
\* whose extraction failed, gets a row that matches the disk for a graph that
\* does not.
StaleFilesAreReparsed ==
    (pc = "idle" /\ Whole(db)) => \A f \in Files :
        (disk[f] # 0 /\ db.hash[f] = disk[f]) => db.graph.ver[f] = disk[f]

\* pipeline_incremental.c: "structural containment edges (CONTAINS_FILE,
\* CONTAINS_FOLDER) [...] are preserved precisely by this snapshot".  The folder
\* of a package carries the path of one of its files and goes with it, and the
\* capture leaves out the edges of a source that changed.
FoldersKeepFiles ==
    (pc \in {"clear", "rows"} /\ run.route = "incremental") =>
        \A e \in run.old.edges :
            (e[1] = "CONTAINS_FILE" /\ e[3] \in db.graph.has) => e \in db.graph.edges

\* README-V1.md: manage_adr "persists architectural decisions across sessions".
\* An incremental run that was not cancelled and reports success has dumped a
\* new database without the record.
AdrSurvives ==
    [][(pc # "idle" /\ pc' = "idle" /\ run'.rc = 0 /\ run.had /\ ~cancelled)
        => Whole(db') /\ db'.adr]_vars

=============================================================================
