-------------------------- MODULE IndexGraphProofs --------------------------
(***************************************************************************)
(* The graph that IndexPipeline's runs leave: SimilarIsCurrent,            *)
(* EdgesSurvive and SuccessIsCurrent for any files, calls, coupling and    *)
(* versions, and any number of runs, edits, cancels, crashes, failed reads *)
(* and failed writes.                                                      *)
(*                                                                         *)
(* None of the three is inductive.  An edge is stale or lost in the run's  *)
(* buffer long before a dump puts it into the database, so GraphInv speaks *)
(* of the buffer: Sound of the edges it may hold, Carried of those an      *)
(* incremental run still has to bring back, StaysOpen of the files whose   *)
(* rows are never going to be believed.  RowsInv says the rest.            *)
(***************************************************************************)
EXTENDS IndexPipelineProofs

\* No edge dangles, and those of similarity join what is alike.
Sound(g) ==
    /\ Closed(g)
    /\ \A e \in g.edges : e[1] = "SIMILAR_TO" => e[2] # Root /\ g.ver[e[2]] = g.ver[e[3]]

\* An edge of the old graph whose source is not purged and whose target is to
\* be in the graph g.
Stays(old, changed, g, e) ==
    /\ e[1] \in {"CALLS", "CONTAINS_FILE"}
    /\ Path(old, e[2]) \notin changed
    /\ Path(old, e[2]) \in g.has \cup {Root}
    /\ e[3] \in g.has

\* One that a run must not lose: what it named is there, too.
Lasting(old, changed, g, e) ==
    /\ Stays(old, changed, g, e)
    /\ e[1] = "CALLS" => Symbol(g, e[3])

Survive(old, changed, g) == \A e \in old.edges : Lasting(old, changed, g, e) => e \in g.edges

\* Edges set aside by the capture, none of a kind that is computed anew.
SetAside(saved, old) ==
    \A e \in saved : e \in old.edges /\ e[1] \notin {"SIMILAR_TO", "FILE_CHANGES_WITH"}

\* While files are parsed again: their nodes are there, no similarity edge
\* touches them, and an old edge that stays is in the buffer or set aside, with
\* its source still there.
Carried ==
    /\ run.changed \subseteq run.buf.has
    /\ \A e \in run.buf.edges : e[1] = "SIMILAR_TO" => e[2] \notin run.changed /\ e[3] \notin run.changed
    /\ run.route = "incremental" =>
        /\ Sound(run.old) /\ SetAside(run.saved, run.old)
        /\ \A e \in run.old.edges :
            Stays(run.old, run.changed, run.buf, e) =>
                e \in run.buf.edges \cup run.saved /\ e[2] \in Nodes(run.buf)

\* A file that was open before the run and is not parsed by it is open after,
\* and so is one that failed.
StaysOpen ==
    \A f \in (run.open \ run.changed) \cup run.failed : f \in db.open \/ (f \notin Rows /\ run.buf.ver[f] = 0)

\* The conclusion of SuccessIsCurrent.
Current ==
    Whole(db) => \A f \in Files \ (touched \cup db.open) :
        (f \in run.found \/ disk[f] = 0) => db.graph.ver[f] = disk[f]

\* A run that has written its rows, or ended as a success.
Written == pc \in {"export", "metadata"} \/ (pc = "idle" /\ run.route # "none" /\ run.rc = 0)

GraphInv ==
    /\ RowsInv
    /\ Sound(db.graph) /\ Sound(zst.graph)
    /\ pc \in AtWork => Sound(run.buf) /\ \A f \in run.kept \ touched : disk[f] # 0
    /\ pc \in {"structure", "history", "predump", "beforeDump"} => run.route = "full"
    /\ pc = "extract" => Carried
    /\ pc \in {"dump", "dumping", "clear", "rows"} /\ run.route = "incremental"
         => Survive(run.old, run.changed, run.buf)
    /\ pc = "dumping" => ~Whole(db)
    /\ pc \in {"clear", "rows"} => StaysOpen
    /\ Written /\ ~cancelled => Current

-----------------------------------------------------------------------------
(* What the operators on graphs do to the edges.                            *)

LEMMA EmptyIsSound ==
    /\ Sound(EmptyGraph) /\ NoDb.graph = EmptyGraph /\ Torn.graph = EmptyGraph
    /\ NoDb.file # "whole" /\ Torn.file # "whole"
BY DEF Sound, Closed, EmptyGraph, NoDb, Torn, DbOf

\* The structure pass contains every file in the root and joins no others.
LEMMA StructuredSound ==
    ASSUME NEW S \in SUBSET Files
    PROVE  /\ Sound(Structured(S)) /\ Structured(S).has = S
           /\ \A e \in Structured(S).edges : e[1] # "SIMILAR_TO"
<1>. DEFINE E == {<<"CONTAINS_FILE", Root, f>> : f \in S}
<1>1. \A e \in E : e[1] = "CONTAINS_FILE" /\ e[2] = Root /\ e[3] \in S
  OBVIOUS
<1>2. Structured(S) = [EmptyGraph EXCEPT !.has = S, !.root = Root, !.edges = E]
  BY DEF Structured
<1>. HIDE DEF E
<1>3. /\ Structured(S).has = S /\ Structured(S).edges = E /\ Structured(S).root = Root
      /\ Structured(S).ver = [f \in Files |-> 0]
  BY <1>2 DEF EmptyGraph
<1>4. Root \in Nodes(Structured(S)) /\ S \subseteq Nodes(Structured(S))
  BY <1>3 DEF Nodes, Root, Nobody
<1>. QED
  BY <1>1, <1>3, <1>4 DEF Sound, Closed

\* The purge drops the edges of the files it purges, and no others; the nodes
\* of the files that are going to be parsed come back.
Reopened(g, S, C) == [Purged(g, S) EXCEPT !.has = @ \cup C]

PurgedTo(h, g, S, C) ==
    /\ h \in Graphs /\ Sound(h) /\ h.has = (g.has \ S) \cup C
    /\ \A e : e \in h.edges <=> e \in g.edges /\ Path(g, e[2]) \notin S /\ e[3] \notin S
    /\ \A e \in g.edges : Path(g, e[2]) \notin S => e[2] \in Nodes(h)

LEMMA PurgedSound ==
    ASSUME NEW g \in Graphs, Sound(g), NEW S \in SUBSET Files, NEW C \in SUBSET Files
    PROVE  PurgedTo(Reopened(g, S, C), g, S, C)
<1>. DEFINE h == Reopened(g, S, C)
<1>1. /\ h.has = (g.has \ S) \cup C
      /\ \A e : e \in h.edges <=> e \in g.edges /\ Path(g, e[2]) \notin S /\ e[3] \notin S
      /\ \A f \in Files : h.ver[f] = IF f \in S THEN 0 ELSE g.ver[f]
      /\ h.root = IF g.root \in S THEN Nobody ELSE g.root
      /\ h \in Graphs
  <2>1. /\ Purged(g, S) \in Graphs
        /\ \A f \in Files : Purged(g, S).ver[f] = IF f \in S THEN 0 ELSE g.ver[f]
    BY PurgedType
  <2>2. /\ h \in Graphs /\ h.has = Purged(g, S).has \cup C /\ h.edges = Purged(g, S).edges
        /\ h.ver = Purged(g, S).ver /\ h.root = Purged(g, S).root
    BY <2>1 DEF Reopened, Graphs
  <2>. QED
    BY <2>1, <2>2 DEF Purged
<1>. HIDE DEF h
<1>2. \A e \in h.edges : e \in g.edges /\ e \in Edges /\ Path(g, e[2]) \notin S /\ e[3] \notin S
  BY <1>1 DEF Graphs
<1>3. \A e \in g.edges : e \in Edges /\ e[2] \in Nodes(g) /\ e[3] \in g.has
  <2>1. \A e \in g.edges : e \in Edges /\ {e[2], e[3]} \subseteq Nodes(g)
    BY DEF Sound, Closed, Graphs
  <2>. QED
    BY <2>1, FilesAssumption DEF Nodes, Edges
<1>4. ASSUME NEW e \in g.edges, Path(g, e[2]) \notin S PROVE e[2] \in Nodes(h)
  <2>1. CASE e[2] = Root
    <3>1. g.root # Nobody
      BY <1>3, <2>1, FilesAssumption DEF Nodes, Graphs
    <3>2. h.root = g.root
      BY <1>1, <1>4, <2>1 DEF Path
    <3>. QED
      BY <2>1, <3>1, <3>2 DEF Nodes
  <2>2. CASE e[2] # Root
    <3>1. e[2] \in g.has /\ e[2] \notin S
      BY <1>3, <1>4, <2>2 DEF Nodes, Path
    <3>. QED
      BY <1>1, <3>1 DEF Nodes
  <2>. QED
    BY <2>1, <2>2
<1>5. Closed(h)
  <2>1. \A e \in h.edges : e[2] \in Nodes(h) /\ e[3] \in h.has
    BY <1>1, <1>2, <1>3, <1>4
  <2>2. \A f \in Files : h.ver[f] # 0 => f \in h.has
    BY <1>1 DEF Sound, Closed
  <2>. QED
    BY <2>1, <2>2 DEF Closed, Nodes
<1>6. ASSUME NEW e \in h.edges, e[1] = "SIMILAR_TO"
      PROVE  e[2] # Root /\ h.ver[e[2]] = h.ver[e[3]]
  <2>1. g.ver[e[2]] = g.ver[e[3]] /\ e[2] \in Files /\ e[3] \in Files /\ e[2] # Root
    BY <1>2, <1>6 DEF Sound, Edges
  <2>2. e[2] \notin S
    BY <1>2, <2>1 DEF Path
  <2>. QED
    BY <1>1, <1>2, <2>1, <2>2
<1>7. Sound(h)
  BY <1>5, <1>6 DEF Sound
<1>. QED
  BY <1>1, <1>4, <1>7 DEF h, PurgedTo

\* A pass that adds edges, each of which joins what its kind should.
Fitting(g, e) ==
    /\ {e[2], e[3]} \subseteq Nodes(g)
    /\ e[1] = "SIMILAR_TO" => e[2] # Root /\ g.ver[e[2]] = g.ver[e[3]]

LEMMA AddsSound ==
    ASSUME NEW g \in Graphs, Sound(g), NEW E, \A e \in E : Fitting(g, e),
           NEW h, h = [g EXCEPT !.edges = @ \cup E]
    PROVE  Sound(h) /\ h.edges = g.edges \cup E
<1>1. h.has = g.has /\ h.ver = g.ver /\ h.root = g.root /\ h.edges = g.edges \cup E
  BY DEF Graphs
<1>2. Nodes(h) = Nodes(g)
  BY <1>1 DEF Nodes
<1>. QED
  BY <1>1, <1>2 DEF Sound, Closed, Fitting

\* The calls of files that have their nodes to symbols that are there.
LEMMA ResolvedSound ==
    ASSUME NEW g \in Graphs, Sound(g), NEW S, S \subseteq g.has
    PROVE  Sound(Resolved(g, S)) /\ g.edges \subseteq Resolved(g, S).edges
<1>. DEFINE C == {c \in Calls : c[1] \in S /\ Symbol(g, c[2])}
            E == {<<"CALLS", c[1], c[2]>> : c \in C}
<1>1. ASSUME NEW e \in E PROVE Fitting(g, e)
  <2>1. PICK c \in C : e = <<"CALLS", c[1], c[2]>>
    BY <1>1
  <2>2. c[1] \in g.has /\ c[2] \in Files
    BY FilesAssumption
  <2>3. g.ver[c[2]] # 0
    BY DEF Symbol
  <2>. QED
    BY <2>1, <2>2, <2>3 DEF Fitting, Sound, Closed, Nodes
<1>2. Resolved(g, S) = [g EXCEPT !.edges = @ \cup E]
  BY DEF Resolved
<1>. HIDE DEF C, E
<1>. QED
  BY <1>1, <1>2, AddsSound

LEMMA HistoriedSound ==
    ASSUME NEW g \in Graphs, Sound(g)
    PROVE  Sound(Historied(g)) /\ g.edges \subseteq Historied(g).edges
<1>. DEFINE C == {c \in Coupled : c[1] \in g.has /\ c[2] \in g.has}
            E == {<<"FILE_CHANGES_WITH", c[1], c[2]>> : c \in C}
<1>1. ASSUME NEW e \in E PROVE Fitting(g, e)
  BY DEF Fitting, Nodes
<1>2. Historied(g) = [g EXCEPT !.edges = @ \cup E]
  BY DEF Historied
<1>. HIDE DEF C, E
<1>. QED
  BY <1>1, <1>2, AddsSound

LEMMA WithSimilarSound ==
    ASSUME NEW g \in Graphs, Sound(g)
    PROVE  Sound(WithSimilar(g)) /\ g.edges \subseteq WithSimilar(g).edges
<1>. DEFINE C == {c \in Files \X Files : /\ c[1] # c[2] /\ g.ver[c[1]] = g.ver[c[2]]
                                         /\ Symbol(g, c[1])}
            E == {<<"SIMILAR_TO", c[1], c[2]>> : c \in C}
<1>1. ASSUME NEW e \in E PROVE Fitting(g, e)
  <2>1. PICK c \in C : e = <<"SIMILAR_TO", c[1], c[2]>>
    BY <1>1
  <2>2. c[1] \in Files /\ c[2] \in Files /\ g.ver[c[1]] = g.ver[c[2]] /\ g.ver[c[1]] # 0
    BY DEF Symbol
  <2>. QED
    BY <2>1, <2>2, FilesAssumption DEF Fitting, Sound, Closed, Nodes
<1>2. WithSimilar(g) = [g EXCEPT !.edges = @ \cup E]
  BY DEF WithSimilar
<1>. HIDE DEF C, E
<1>. QED
  BY <1>1, <1>2, AddsSound

\* What the restore brings back are edges of kinds that do not depend on the
\* versions: those whose ends are there.
LEMMA RestoredSound ==
    ASSUME NEW g \in Graphs, Sound(g), NEW old,
           NEW saved \in SUBSET Edges, SetAside(saved, old)
    PROVE  /\ Sound(Restored(g, saved))
           /\ g.edges \subseteq Restored(g, saved).edges
           /\ \A e \in saved : e[2] \in Nodes(g) /\ e[3] \in g.has /\ (e[1] = "CALLS" => Symbol(g, e[3]))
                => e \in Restored(g, saved).edges
<1>. DEFINE E == {e \in saved : /\ e[2] \in Nodes(g) /\ e[3] \in g.has
                                /\ e[1] = "CALLS" => Symbol(g, e[3])}
<1>1. ASSUME NEW e \in E PROVE Fitting(g, e)
  BY DEF Fitting, SetAside, Nodes
<1>2. Restored(g, saved) = [g EXCEPT !.edges = @ \cup E]
  BY DEF Restored
<1>3. \A e \in saved : e[2] \in Nodes(g) /\ e[3] \in g.has /\ (e[1] = "CALLS" => Symbol(g, e[3])) => e \in E
  OBVIOUS
<1>. HIDE DEF E
<1>. QED
  BY <1>1, <1>2, <1>3, AddsSound

-----------------------------------------------------------------------------
(* The steps of a run, in their order.                                      *)

\* The run is away from its work: only the databases count, and the success it
\* reports.
LEMMA AwayFromWork ==
    ASSUME RowsInv', Sound(db.graph)', Sound(zst.graph)', pc' \notin AtWork,
           pc' = "structure" => run'.route = "full",
           (Written /\ ~cancelled)' => Current'
    PROVE  GraphInv'
BY DEF GraphInv, AtWork

LEMMA RoutingDraws ==
    ASSUME GraphInv, RowsInv',
           \/ \E m \in Modes, persist \in BOOLEAN : Begin(m, persist)
           \/ Discover \/ RouteIncremental \/ RouteFull \/ LoadFails
    PROVE  GraphInv'
<1>1. pc' \in {"discover", "route", "classify", "structure"} /\ ~Written'
  BY DEF Begin, Discover, RouteIncremental, RouteFull, LoadFails, Step, Written
<1>2. db' \in {db, zst, NoDb} /\ zst' = zst
  BY BootstrappedIs DEF Begin, Discover, RouteIncremental, RouteFull, LoadFails, Keep
<1>3. Sound(db'.graph) /\ Sound(zst'.graph)
  BY <1>2, EmptyIsSound DEF GraphInv
<1>4. ASSUME pc' = "structure" PROVE run'.route = "full"
  BY <1>4 DEF Begin, Discover, RouteIncremental, RouteFull, LoadFails, Step, GraphInv, RowsInv, Typed, RunTypes
<1>. QED
  BY <1>1, <1>3, <1>4, AwayFromWork DEF AtWork

\* A run that ends without touching the database: cancelled, failed, or with
\* the database current.
LEMMA EndsDraw ==
    ASSUME GraphInv, RowsInv', NEW rc \in {0, 1}, Finish(rc), UNCHANGED <<db, disk, touched, cancelled>>,
           zst' \in {zst, db, NoDb},
           cancelled \/ rc = 1 \/ Current
    PROVE  GraphInv'
<1>1. pc' = "idle" /\ run'.rc = rc /\ run'.found = run.found
  BY DEF Finish, GraphInv, RowsInv, Typed, RunTypes
<1>2. Sound(db'.graph) /\ Sound(zst'.graph)
  BY EmptyIsSound DEF GraphInv
<1>3. Current => Current'
  BY <1>1 DEF Current, Whole
<1>. QED
  BY <1>1, <1>2, <1>3, AwayFromWork DEF Written, AtWork

\* With nothing to do, the rows and so the graph are those of the disk.
LEMMA NothingDraws ==
    ASSUME GraphInv, RowsInv', NothingToDo
    PROVE  GraphInv'
<1>1. Match(db) /\ pc = "classify"
  BY DEF GraphInv, RowsInv, NothingToDo
<1>2. Changed(db, run.found) = {} /\ Gone(db, run.found) = {}
  BY DEF NothingToDo
<1>3. Current
  BY <1>1, <1>2 DEF Current, Match, Changed, Gone
<1>. QED
  BY <1>3, EndsDraw DEF NothingToDo, Keep

LEMMA RunsEndDraw ==
    ASSUME GraphInv, RowsInv', StopCancelled \/ NoExport \/ ExportMetadata \/ ExportFails
    PROVE  GraphInv'
<1>1. CASE StopCancelled
  BY <1>1, EndsDraw DEF StopCancelled, Keep
<1>2. ASSUME pc \in {"export", "metadata"} PROVE cancelled \/ Current
  BY <1>2 DEF GraphInv, Written, RowsInv, Typed
<1>3. CASE NoExport
  BY <1>2, <1>3, EndsDraw DEF NoExport, Keep
<1>4. CASE ExportMetadata
  BY <1>2, <1>4, EndsDraw DEF ExportMetadata
<1>5. CASE ExportFails
  BY <1>2, <1>5, EndsDraw DEF ExportFails
<1>. QED
  BY <1>1, <1>3, <1>4, <1>5

LEMMA ExportDraws ==
    ASSUME GraphInv, RowsInv', ExportContent
    PROVE  GraphInv'
<1>1. /\ pc = "export" /\ pc' = "metadata" /\ zst' = db
      /\ UNCHANGED <<db, run, disk, cancelled, touched>>
  BY DEF ExportContent, Step
<1>2. Current => Current'
  BY <1>1 DEF Current, Whole
<1>. QED
  BY <1>1, <1>2, AwayFromWork DEF GraphInv, Written, AtWork

\* The purge: an edge between nodes that stay is in the buffer, one into a
\* changed file from elsewhere is set aside.
LEMMA LoadDraws ==
    ASSUME GraphInv, RowsInv', LoadAndPurge
    PROVE  GraphInv'
<1>. DEFINE changed == Changed(db, run.found)
            gone    == Gone(db, run.found)
            kept    == ModeSkipped(db, run.found)
            saved   == Captured(db.graph, changed)
            g       == Reopened(db.graph, changed \cup gone, changed)
<1>1. /\ pc = "classify" /\ pc' = "extract" /\ touched' = {}
      /\ UNCHANGED <<db, disk, zst, cancelled, struck>>
      /\ run' = [run EXCEPT !.changed = changed, !.todo = changed, !.kept = kept,
                            !.old = db.graph, !.hash = db.hash, !.open = db.open,
                            !.saved = saved, !.buf = g]
  BY DEF LoadAndPurge, Step, Reopened
<1>2. /\ changed \in SUBSET Files /\ gone \in SUBSET Files /\ db.graph \in Graphs
      /\ \A f \in kept : disk[f] # 0
  BY DEF Changed, Gone, ModeSkipped, GraphInv, RowsInv, Typed, Dbs, RunTypes
<1>3. Sound(db.graph) /\ Sound(zst.graph)
  BY DEF GraphInv
<1>4. PurgedTo(g, db.graph, changed \cup gone, changed)
  <2>. HIDE DEF changed, gone
  <2>1. changed \cup gone \in SUBSET Files
    BY <1>2
  <2>. QED
    BY <1>2, <1>3, <2>1, PurgedSound
<1>5. /\ SetAside(saved, db.graph)
      /\ \A e \in db.graph.edges : e[1] \in {"CALLS", "CONTAINS_FILE"} /\ e[3] \in changed
           /\ Path(db.graph, e[2]) \notin changed => e \in saved
  BY DEF SetAside, Captured
<1>. HIDE DEF changed, gone, kept, saved, g
<1>6. /\ run'.changed = changed /\ run'.kept = kept /\ run'.old = db.graph /\ run'.saved = saved
      /\ run'.buf = g
  BY <1>1 DEF GraphInv, RowsInv, Typed, RunTypes
<1>7. ASSUME NEW e \in db.graph.edges, Stays(db.graph, changed, g, e)
      PROVE  e \in g.edges \cup saved /\ e[2] \in Nodes(g)
  <2>1. /\ Path(db.graph, e[2]) \notin changed /\ Path(db.graph, e[2]) \in g.has \cup {Root}
        /\ e[1] \in {"CALLS", "CONTAINS_FILE"} /\ e[3] \in g.has
    BY <1>7 DEF Stays
  <2>2. Path(db.graph, e[2]) \notin changed \cup gone
    BY <1>2, <1>4, <2>1, FilesAssumption DEF PurgedTo
  <2>3. CASE e[3] \in changed
    BY <2>1, <2>2, <2>3, <1>4, <1>5 DEF PurgedTo
  <2>4. CASE e[3] \notin changed
    BY <2>1, <2>2, <2>4, <1>2, <1>4, FilesAssumption DEF PurgedTo
  <2>. QED
    BY <2>3, <2>4
<1>8. ASSUME NEW e \in g.edges, e[1] = "SIMILAR_TO"
      PROVE  e[2] \notin changed /\ e[3] \notin changed
  <2>1. e[2] # Root
    BY <1>4, <1>8 DEF Sound, PurgedTo
  <2>. QED
    BY <1>4, <2>1 DEF Path, PurgedTo
<1>9. changed \subseteq g.has /\ Sound(g)
  BY <1>4 DEF PurgedTo
<1>10. Carried'
  BY <1>3, <1>5, <1>6, <1>7, <1>8, <1>9 DEF Carried
<1>. QED
  BY <1>1, <1>2, <1>3, <1>6, <1>9, <1>10 DEF GraphInv, Written, AtWork

LEMMA StructureDraws ==
    ASSUME GraphInv, RowsInv', Structure
    PROVE  GraphInv'
<1>1. /\ pc = "structure" /\ pc' = "extract" /\ ~cancelled
      /\ UNCHANGED <<db, disk, zst, cancelled, touched, struck>>
      /\ run' = [run EXCEPT !.buf = Structured(run.found),
                            !.changed = run.found, !.todo = run.found]
  BY DEF Structure, Keep
<1>2. /\ Sound(Structured(run.found)) /\ Structured(run.found).has = run.found
      /\ \A e \in Structured(run.found).edges : e[1] # "SIMILAR_TO"
  BY StructuredSound DEF GraphInv, RowsInv, Typed, RunTypes
<1>3. /\ run'.buf = Structured(run.found) /\ run'.changed = run.found /\ run'.route = "full"
      /\ run'.kept = {}
  BY <1>1 DEF GraphInv, RowsInv, Typed, RunTypes, BeforeWork
<1>4. Carried'
  BY <1>2, <1>3 DEF Carried
<1>. QED
  BY <1>1, <1>2, <1>3, <1>4 DEF GraphInv, Written, AtWork

\* A file that is parsed has its node and no similarity edges, so its new
\* version leaves no edge stale.
LEMMA ExtractDraws ==
    ASSUME GraphInv, RowsInv', NEW f \in Files, ExtractFile(f)
    PROVE  GraphInv'
<1>1. /\ pc = "extract" /\ pc' = "extract" /\ f \in run.todo
      /\ touched' = touched \ {f}
      /\ UNCHANGED <<db, disk, zst, cancelled, struck>>
      /\ run' = [run EXCEPT !.todo = @ \ {f}, !.buf = Defined(@, f, disk[f])]
  BY DEF ExtractFile
<1>2. /\ run'.changed = run.changed /\ run'.kept = run.kept /\ run'.old = run.old
      /\ run'.saved = run.saved /\ run'.route = run.route
      /\ run'.buf.has = run.buf.has /\ run'.buf.edges = run.buf.edges
      /\ run'.buf.root \in {run.buf.root, f}
      /\ \A h \in Files : run'.buf.ver[h] = IF h = f THEN disk[f] ELSE run.buf.ver[h]
  <2>1. run.buf \in Graphs /\ disk[f] \in Versions /\ run \in RunTypes
    BY DEF GraphInv, RowsInv, Typed, RunTypes
  <2>2. LET h == Defined(run.buf, f, disk[f])
        IN /\ h.ver = [run.buf.ver EXCEPT ![f] = disk[f]]
           /\ h.has = run.buf.has /\ h.edges = run.buf.edges /\ h.root \in {run.buf.root, f}
    BY <2>1, DefinedType
  <2>3. run'.buf = Defined(run.buf, f, disk[f])
    BY <1>1, <2>1 DEF RunTypes
  <2>. QED
    BY <1>1, <2>1, <2>2, <2>3 DEF RunTypes, Graphs
<1>3. Carried /\ Sound(run.buf) /\ run.buf \in Graphs /\ f \in run.changed /\ f \notin run.kept
      /\ \A h \in run.kept \ touched : disk[h] # 0
  BY <1>1 DEF GraphInv, RowsInv, RunFits, AtWork, Typed, RunTypes
<1>4. Nodes(run.buf) \subseteq Nodes(run.buf)'
  BY <1>2, FilesAssumption DEF Nodes
<1>5. Carried'
  BY <1>2, <1>3, <1>4 DEF Carried, Stays
<1>6. Sound(run.buf)'
  <2>1. Closed(run.buf)'
    BY <1>2, <1>3, <1>4 DEF Sound, Closed, Carried
  <2>2. ASSUME NEW e \in run.buf.edges, e[1] = "SIMILAR_TO"
        PROVE  run'.buf.ver[e[2]] = run'.buf.ver[e[3]]
    <3>1. e[2] \in Files /\ e[3] \in Files /\ e[2] # f /\ e[3] # f
      BY <1>3, <2>2 DEF Carried, Sound, Graphs, Edges
    <3>2. run.buf.ver[e[2]] = run.buf.ver[e[3]]
      BY <1>3, <2>2 DEF Sound
    <3>. QED
      BY <1>2, <3>1, <3>2
  <2>. QED
    BY <1>2, <1>3, <2>1, <2>2 DEF Sound
<1>. QED
  BY <1>1, <1>2, <1>3, <1>5, <1>6 DEF GraphInv, Written, AtWork

\* A file that fails leaves the buffer as it is.
LEMMA ExtractFailsDraws ==
    ASSUME GraphInv, RowsInv', NEW f \in Files, ExtractFails(f)
    PROVE  GraphInv'
<1>1. /\ pc = "extract" /\ pc' = "extract"
      /\ UNCHANGED <<db, disk, zst, cancelled, touched, struck>>
      /\ run' = [run EXCEPT !.todo = @ \ {f}, !.failed = @ \cup {f}]
  BY DEF ExtractFails
<1>2. /\ run'.changed = run.changed /\ run'.kept = run.kept /\ run'.old = run.old
      /\ run'.saved = run.saved /\ run'.route = run.route /\ run'.buf = run.buf
  BY <1>1 DEF GraphInv, RowsInv, Typed, RunTypes
<1>3. Carried => Carried'
  BY <1>2 DEF Carried, Stays
<1>. QED
  BY <1>1, <1>2, <1>3 DEF GraphInv, Written, AtWork

\* A pass leaves another sound buffer, and the last pass of an incremental run
\* one with every edge that was to last.
LEMMA PassDraws ==
    ASSUME GraphInv, RowsInv', pc \in AtWork, pc' \in {"history", "predump", "beforeDump", "dump"},
           UNCHANGED <<db, zst, disk, cancelled, touched>>,
           NEW h, run' = [run EXCEPT !.buf = h] \/ run' = [run EXCEPT !.buf = h, !.todo = {}], Sound(h),
           run.route = "full" \/ (pc' = "dump" /\ Survive(run.old, run.changed, h))
    PROVE  GraphInv'
<1>1. /\ run'.buf = h /\ run'.old = run.old /\ run'.route = run.route /\ run'.kept = run.kept
      /\ run'.changed = run.changed
  BY DEF GraphInv, RowsInv, Typed, RunTypes
<1>. QED
  BY <1>1 DEF GraphInv, Written, AtWork

LEMMA FullPassesDraw ==
    ASSUME GraphInv, RowsInv', ResolveFull \/ HistoryPass \/ Predump \/ CheckBeforeDump
    PROVE  GraphInv'
<1>1. run \in RunTypes /\ run.buf \in Graphs /\ run.changed \in SUBSET Files
  BY DEF GraphInv, RowsInv, Typed, RunTypes
<1>2. pc \in AtWork /\ Sound(run.buf) /\ run.route = "full"
  BY DEF GraphInv, AtWork, ResolveFull, HistoryPass, Predump, CheckBeforeDump, Step
<1>3. CASE ResolveFull
  <2>1. pc = "extract" /\ pc' = "history" /\ UNCHANGED <<db, zst, disk, cancelled, touched>>
    BY <1>3 DEF ResolveFull, Step
  <2>2. PICK S \in SUBSET run.changed : run' = [run EXCEPT !.buf = Resolved(@, S)]
    BY <1>3 DEF ResolveFull
  <2>3. S \subseteq run.buf.has
    BY <2>1 DEF GraphInv, Carried
  <2>4. Sound(Resolved(run.buf, S))
    BY <1>1, <1>2, <2>3, ResolvedSound
  <2>. QED
    BY <1>2, <2>1, <2>2, <2>4, PassDraws
<1>4. CASE HistoryPass
  <2>. DEFINE h == IF run.mode = "fast" THEN run.buf ELSE Historied(run.buf)
  <2>1. Sound(h)
    BY <1>1, <1>2, HistoriedSound
  <2>. QED
    BY <1>2, <1>4, <2>1, PassDraws DEF HistoryPass, Keep
<1>5. CASE Predump
  <2>. DEFINE h == IF cancelled \/ run.mode = "fast" THEN run.buf ELSE WithSimilar(run.buf)
  <2>1. Sound(h)
    BY <1>1, <1>2, WithSimilarSound
  <2>. QED
    BY <1>2, <1>5, <2>1, PassDraws DEF Predump, Step, Keep
<1>6. CASE CheckBeforeDump /\ ~cancelled
  <2>1. run' = [run EXCEPT !.buf = run.buf]
    BY <1>1, <1>6 DEF CheckBeforeDump, RunTypes
  <2>. QED
    BY <1>2, <1>6, <2>1, PassDraws DEF CheckBeforeDump, Keep
<1>7. CASE CheckBeforeDump /\ cancelled
  BY <1>7, EndsDraw DEF CheckBeforeDump, Keep
<1>. QED
  BY <1>3, <1>4, <1>5, <1>6, <1>7

\* The edges into the changed files from elsewhere are restored: whatever lasts
\* is there.
LEMMA IncrementalDraws ==
    ASSUME GraphInv, RowsInv', ResolveIncremental
    PROVE  GraphInv'
<1>1. /\ pc = "extract" /\ pc' = "dump" /\ run.route = "incremental"
      /\ UNCHANGED <<db, zst, disk, cancelled, touched>>
  BY DEF ResolveIncremental, Step
<1>2. /\ run.buf \in Graphs /\ run.changed \in SUBSET Files /\ run.saved \in SUBSET Edges
  BY DEF GraphInv, RowsInv, Typed, RunTypes
<1>3. Sound(run.buf) /\ Carried /\ SetAside(run.saved, run.old) /\ run.changed \subseteq run.buf.has
  BY <1>1 DEF GraphInv, AtWork, Carried
<1>. DEFINE r(S) == Resolved(run.buf, S)
            s(S) == IF run.mode = "fast" THEN r(S) ELSE WithSimilar(r(S))
<1>4. PICK S \in SUBSET run.changed : run' = [run EXCEPT !.buf = Restored(s(S), run.saved), !.todo = {}]
  BY DEF ResolveIncremental
<1>. DEFINE h == Restored(s(S), run.saved)
<1>5. Sound(r(S)) /\ OnlyEdges(run.buf, r(S)) /\ run.buf.edges \subseteq r(S).edges
  <2>1. S \subseteq run.buf.has /\ S \in SUBSET Files
    BY <1>2, <1>3
  <2>. QED
    BY <1>2, <1>3, <2>1, ResolvedSound, EdgePasses
<1>. HIDE DEF r
<1>6. Sound(s(S)) /\ OnlyEdges(run.buf, s(S)) /\ run.buf.edges \subseteq s(S).edges
  BY <1>5, WithSimilarSound, EdgePasses DEF OnlyEdges
<1>. HIDE DEF s
<1>7. /\ Sound(h) /\ OnlyEdges(run.buf, h) /\ run.buf.edges \subseteq h.edges
      /\ \A e \in run.saved : e[2] \in Nodes(s(S)) /\ e[3] \in s(S).has /\ (e[1] = "CALLS" => Symbol(s(S), e[3]))
            => e \in h.edges
  BY <1>2, <1>3, <1>6, RestoredSound, EdgePasses DEF OnlyEdges
<1>. HIDE DEF h
<1>8. ASSUME NEW e \in run.old.edges, Lasting(run.old, run.changed, h, e)
      PROVE  e \in h.edges
  <2>1. Stays(run.old, run.changed, run.buf, e) /\ e[3] \in run.buf.has
        /\ (e[1] = "CALLS" => Symbol(run.buf, e[3]))
    BY <1>7, <1>8 DEF Lasting, Stays, OnlyEdges, Symbol
  <2>2. e \in run.buf.edges \cup run.saved /\ e[2] \in Nodes(run.buf)
    BY <1>1, <1>3, <2>1 DEF Carried
  <2>3. Nodes(s(S)) = Nodes(run.buf) /\ s(S).has = run.buf.has /\ s(S).ver = run.buf.ver
    BY <1>6 DEF OnlyEdges, Nodes
  <2>. QED
    BY <1>7, <2>1, <2>2, <2>3 DEF Symbol
<1>9. Survive(run.old, run.changed, h)
  BY <1>8 DEF Survive
<1>. QED
  BY <1>1, <1>4, <1>7, <1>9, PassDraws DEF AtWork, h

\* From here on the buffer stays what it is.
LEMMA DumpDraws ==
    ASSUME GraphInv, RowsInv', DumpBegins \/ DumpEnds \/ DumpFails
    PROVE  GraphInv'
<1>1. CASE DumpBegins
  BY <1>1, EmptyIsSound DEF DumpBegins, Step, Keep, GraphInv, AtWork, Written, Whole, Survive
<1>2. CASE DumpEnds
  <2>1. /\ pc = "dumping" /\ pc' = "clear" /\ db' = [DbOf(run.buf) EXCEPT !.open =
              Rows \cup {f \in Files : f \in run.open /\ run.buf.ver[f] # 0}]
        /\ UNCHANGED <<run, zst, disk, cancelled, touched, struck>>
    BY <1>2 DEF DumpEnds, Step, Keep
  <2>2. run.buf \in Graphs /\ run.open \in SUBSET Files
    BY DEF GraphInv, RowsInv, Typed, RunTypes
  <2>3. /\ db'.graph = run.buf
        /\ db'.open = Rows \cup {f \in Files : f \in run.open /\ run.buf.ver[f] # 0}
    BY <2>1 DEF DbOf
  <2>4. \A f \in Files \ (Rows \cup run.open) : run.buf.ver[f] = 0
    BY <2>1 DEF GraphInv, RowsInv, AtWork, RunFits
  <2>5. run.failed \subseteq Files
    BY DEF GraphInv, RowsInv, Typed, RunTypes
  <2>6. StaysOpen'
    BY <2>1, <2>2, <2>3, <2>4, <2>5 DEF StaysOpen, Rows
  <2>. QED
    BY <2>1, <2>3, <2>6 DEF GraphInv, AtWork, Written
<1>3. CASE DumpFails
  <2>1. CASE run.route = "full"
    BY <1>3, <2>1, EndsDraw DEF DumpFails
  <2>2. CASE run.route # "full"
    BY <1>3, <2>2, AwayFromWork DEF DumpFails, GraphInv, AtWork, Current, Whole
  <2>. QED
    BY <2>1, <2>2
<1>. QED
  BY <1>1, <1>2, <1>3

\* A row opens no file and closes only one that the run has looked at.
LEMMA RowsDraw ==
    ASSUME GraphInv, RowsInv',
           ClearRows \/ \E f \in Files : PersistRow(f) \/ PersistRowFails(f)
    PROVE  GraphInv'
<1>1. /\ pc \in {"clear", "rows"} /\ pc' = "rows" /\ UNCHANGED <<zst, disk, cancelled, touched, struck>>
      /\ \E S : run' = [run EXCEPT !.todo = S]
  BY DEF ClearRows, PersistRow, PersistRowFails, Step, Keep
<1>2. /\ run'.buf = run.buf /\ run'.old = run.old /\ run'.route = run.route /\ run'.kept = run.kept
      /\ run'.found = run.found /\ run'.open = run.open /\ run'.changed = run.changed
      /\ run'.failed = run.failed
  BY <1>1 DEF GraphInv, RowsInv, Typed, RunTypes
<1>3. StaysOpen
  BY <1>1 DEF GraphInv
<1>4. db'.graph = db.graph /\ StaysOpen'
  <2>1. ASSUME ClearRows \/ \E f \in Files : PersistRowFails(f)
        PROVE  db'.graph = db.graph /\ db'.open = db.open
    BY <2>1 DEF ClearRows, PersistRowFails, GraphInv, RowsInv, Typed, Dbs
  <2>2. ASSUME NEW f \in Files, PersistRow(f)
        PROVE  db'.graph = db.graph /\ StaysOpen'
    <3>1. /\ db'.graph = db.graph /\ db'.open = IF Settled(f) THEN db.open \ {f} ELSE db.open
      BY <2>2 DEF PersistRow, GraphInv, RowsInv, Typed, Dbs
    <3>2. f \in (run.open \ run.changed) \cup run.failed => ~Settled(f)
      BY DEF Settled
    <3>. QED
      BY <1>2, <1>3, <3>1, <3>2 DEF StaysOpen, Rows
  <2>. QED
    BY <1>2, <1>3, <2>1, <2>2 DEF StaysOpen, Rows
<1>. QED
  BY <1>1, <1>2, <1>4 DEF GraphInv, AtWork, Written, Survive

\* With the rows written, the graph holds the disk's version of every file the
\* run visited and nothing of one that is gone, unless it is open or touched.
LEMMA FtsDraws ==
    ASSUME GraphInv, RowsInv', RebuildFts
    PROVE  GraphInv'
<1>1. /\ pc = "rows" /\ pc' = "export" /\ run.todo = {} /\ db' = [db EXCEPT !.fts = db.graph.has]
      /\ UNCHANGED <<run, zst, disk, cancelled, touched, struck>>
  BY DEF RebuildFts, Step, Keep
<1>2. db'.graph = db.graph /\ db'.open = db.open
  BY <1>1 DEF GraphInv, RowsInv, Typed, Dbs
<1>3. RunFits /\ DumpFits /\ StaysOpen /\ (\A f \in run.kept \ touched : disk[f] # 0)
      /\ (cancelled \/ ~struck)
  BY <1>1 DEF GraphInv, RowsInv, AtWork, CancelSeen, Typed
<1>4. ASSUME ~cancelled, NEW f \in Files \ (touched \cup db.open), f \in run.found \/ disk[f] = 0
      PROVE  db.graph.ver[f] = disk[f]
  <2>1. db.graph = run.buf
        /\ LookedAt = (run.found \ (run.changed \cup run.open)) \cup (run.changed \ run.failed)
    BY <1>1, <1>3, <1>4 DEF DumpFits, LookedAt, Parsed
  <2>2. CASE f \in LookedAt
    BY <1>3, <2>1, <2>2 DEF RunFits
  <2>3. CASE f \notin LookedAt /\ f \in run.found
    BY <1>3, <2>1, <2>3 DEF StaysOpen, Rows
  <2>4. CASE f \notin LookedAt /\ f \notin run.found
    <3>1. disk[f] = 0 /\ f \notin Rows
      BY <1>3, <1>4, <2>4 DEF Rows
    <3>2. run.buf.ver[f] = 0
      BY <1>3, <2>1, <2>4, <3>1 DEF RunFits, StaysOpen
    <3>. QED
      BY <2>1, <3>1, <3>2
  <2>. QED
    BY <2>2, <2>3, <2>4
<1>5. ~cancelled' => Current'
  BY <1>1, <1>2, <1>4 DEF Current
<1>. QED
  BY <1>1, <1>2, <1>5, AwayFromWork DEF GraphInv, AtWork

-----------------------------------------------------------------------------
(* The steps of the world.                                                  *)

\* A file that changes is touched, and nothing is claimed of it any more.
LEMMA EditDraws ==
    ASSUME GraphInv, RowsInv', NEW f \in Files, Edit(f) \/ Remove(f)
    PROVE  GraphInv'
<1>1. /\ touched' = touched \cup {f} /\ UNCHANGED <<db, zst, pc, run, cancelled, struck>>
      /\ \A h \in Files : h # f => disk'[h] = disk[h]
  BY DEF Edit, Remove, Idle, GraphInv, RowsInv, Typed
<1>2. Current => Current'
  BY <1>1 DEF Current, Whole
<1>3. \A h \in run.kept : h \in Files
  BY DEF GraphInv, RowsInv, Typed, RunTypes
<1>. QED
  BY <1>1, <1>2, <1>3 DEF GraphInv, Written, Whole, Carried, StaysOpen, Rows

\* A cancel takes claims back and makes none.
LEMMA CancelDraws ==
    ASSUME GraphInv, RowsInv', Cancel
    PROVE  GraphInv'
<1>1. cancelled' = TRUE /\ UNCHANGED <<disk, db, zst, pc, run, touched>>
  BY DEF Cancel
<1>2. struck' = struck \/ pc \in {"discover", "route", "classify", "extract"}
  BY DEF Cancel, GraphInv, RowsInv, CancelSeen, Typed
<1>. QED
  BY <1>1, <1>2 DEF GraphInv, Written, Whole, Carried, StaysOpen, Rows

LEMMA WorldDraws ==
    ASSUME GraphInv, RowsInv', Crash \/ StoreAdr \/ DeleteProject
    PROVE  GraphInv'
<1>1. CASE Crash
  <2>1. pc' = "idle" /\ run'.rc = 1 /\ UNCHANGED <<db, zst>>
    BY <1>1 DEF Crash, NoRun
  <2>. QED
    BY <2>1, AwayFromWork DEF GraphInv, AtWork, Written
<1>2. CASE StoreAdr
  <2>1. /\ db'.file = db.file /\ db'.graph = db.graph /\ db'.open = db.open
        /\ UNCHANGED <<disk, zst, run, cancelled, touched, pc>>
    BY <1>2 DEF StoreAdr, GraphInv, RowsInv, Typed, Dbs
  <2>2. (Current => Current') /\ (StaysOpen => StaysOpen') /\ (Carried => Carried')
    BY <2>1 DEF Current, Whole, StaysOpen, Rows, Carried
  <2>. QED
    BY <2>1, <2>2 DEF GraphInv, AtWork, Written, Whole
<1>3. CASE DeleteProject
  <2>1. pc' = "idle" /\ db' = NoDb /\ zst' = zst
    BY <1>3 DEF DeleteProject
  <2>. QED
    BY <2>1, EmptyIsSound, AwayFromWork DEF GraphInv, AtWork, Current, Whole
<1>. QED
  BY <1>1, <1>2, <1>3

-----------------------------------------------------------------------------
(* The theorems.                                                            *)

LEMMA InitGraph == Init => GraphInv
BY InitRows, EmptyIsSound DEF Init, GraphInv, NoRun, Written, AtWork

LEMMA NextGraph == GraphInv /\ [Next]_vars => GraphInv'
<1>. SUFFICES ASSUME GraphInv, [Next]_vars PROVE GraphInv'
  OBVIOUS
<1>1. RowsInv'
  BY NextRows DEF GraphInv
<1>2. CASE UNCHANGED vars
  BY <1>1, <1>2 DEF vars, GraphInv, Written, Current, Whole, Carried, StaysOpen, Rows
<1>3. CASE \/ \E m \in Modes, persist \in BOOLEAN : Begin(m, persist)
           \/ Discover \/ RouteIncremental \/ RouteFull \/ LoadFails
  BY <1>1, <1>3, RoutingDraws
<1>4. CASE StopCancelled \/ NothingToDo \/ NoExport \/ ExportMetadata \/ ExportFails \/ ExportContent
  BY <1>1, <1>4, RunsEndDraw, NothingDraws, ExportDraws
<1>5. CASE LoadAndPurge \/ Structure \/ \E f \in Files : ExtractFile(f) \/ ExtractFails(f)
  BY <1>1, <1>5, LoadDraws, StructureDraws, ExtractDraws, ExtractFailsDraws
<1>6. CASE ResolveFull \/ ResolveIncremental \/ HistoryPass \/ Predump \/ CheckBeforeDump
  BY <1>1, <1>6, FullPassesDraw, IncrementalDraws
<1>7. CASE DumpBegins \/ DumpEnds \/ DumpFails \/ RebuildFts
  BY <1>1, <1>7, DumpDraws, FtsDraws
<1>8. CASE ClearRows \/ \E f \in Files : PersistRow(f) \/ PersistRowFails(f)
  BY <1>1, <1>8, RowsDraw
<1>9. CASE Cancel \/ Crash \/ StoreAdr \/ DeleteProject
  BY <1>1, <1>9, CancelDraws, WorldDraws
<1>10. CASE \E f \in Files : Edit(f) \/ Remove(f)
  BY <1>1, <1>10, EditDraws
<1>. QED
  BY <1>2, <1>3, <1>4, <1>5, <1>6, <1>7, <1>8, <1>9, <1>10 DEF Next

\* No database holds a similarity edge between versions that are not alike,
\* although an incremental run carries edges over and a fast run computes none:
\* the purge takes those of a changed file, and the capture sets none aside.
THEOREM SimilarityIsCurrent == Spec => []SimilarIsCurrent
<1>1. GraphInv => SimilarIsCurrent
  BY DEF GraphInv, Sound, SimilarIsCurrent
<1>. QED
  BY <1>1, InitGraph, NextGraph, PTL DEF Spec

\* The dump never meets an edge without its ends, nor definitions without a
\* File node: no database and no artifact holds any, whatever was purged,
\* restored, cut off by a cancel or a crash, or imported.
NoEdgeDangles == Closed(db.graph) /\ Closed(zst.graph)

THEOREM GraphsAreClosed == Spec => []NoEdgeDangles
<1>1. GraphInv => NoEdgeDangles
  BY DEF GraphInv, Sound, NoEdgeDangles
<1>. QED
  BY <1>1, InitGraph, NextGraph, PTL DEF Spec

\* What an incremental run does not purge it does not lose: a call or a
\* containment from a file that did not change, or from a folder whose node
\* does not carry the path of one that did or is gone, is in the graph it has
\* dumped when its target is, whatever failed or was cancelled.
THEOREM IncrementalKeepsEdges == Spec => []EdgesSurvive
<1>1. ASSUME GraphInv, pc \in {"clear", "rows"}, run.route = "incremental"
      PROVE  Survive(run.old, run.changed, run.buf) /\ db.graph = run.buf
  BY <1>1 DEF GraphInv, RowsInv, DumpFits
<1>2. GraphInv => EdgesSurvive
  BY <1>1 DEF EdgesSurvive, Survive, Lasting, Stays
<1>. QED
  BY <1>2, InitGraph, NextGraph, PTL DEF Spec

\* A run that says it succeeded has: the graph holds the disk's version of
\* every file it visited, and nothing of a file that is gone, but for the files
\* that were edited meanwhile or that this or an earlier run failed on.
THEOREM SuccessIsTrue == Spec => []SuccessIsCurrent
<1>1. GraphInv => SuccessIsCurrent
  BY DEF GraphInv, Written, Current, SuccessIsCurrent
<1>. QED
  BY <1>1, InitGraph, NextGraph, PTL DEF Spec

=============================================================================
