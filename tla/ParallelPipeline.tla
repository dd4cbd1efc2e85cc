-------------------------- MODULE ParallelPipeline --------------------------
(***************************************************************************)
(* The parallel run of the indexer: run_parallel_pipeline of pipeline.c,   *)
(* pass_parallel.c and worker_pool.c, from the graph of files and folders  *)
(* to the rows of the database.                                             *)
(*                                                                         *)
(* Workers claim files from a shared counter, extract them into buffers of *)
(* their own and draw ids from a second shared counter.  The buffers are   *)
(* merged, the registry is built, the workers resolve the references of    *)
(* each file against the merged graph and the buffers are merged again.    *)
(* A worker's handling of one file is a step, but for the admission of its *)
(* text to the retained memory, which takes two: ids drawn by other workers *)
(* between would only renumber.                                             *)
(***************************************************************************)
EXTENDS FileEdges

CONSTANTS
    Files,        \* the discovered files, in order
    Source,       \* Source[f]: what file f holds
    Outcomes,     \* what reading and extracting a file may come to
    Folders,      \* the qualified names of the directories
    MaxWorkers,   \* bound: worker_count
    Budget,       \* PP_RETAIN_TOTAL_BUDGET_BYTES
    PerFile,      \* PP_RETAIN_PER_FILE_MAX_BYTES
    CommandsOf(_),  \* what a worker writes for a file, seen in a view
    Expected(_)     \* the edges to compare with, for the files that were read

N       == Len(Files)
Workers == 1 .. MaxWorkers

\* The length of a file's text.
Length(i) == Source[Files[i]].len

ASSUME FilesAssumption == N \in Nat /\ Budget \in Nat /\ \A i \in 1 .. N : Length(i) \in Nat

VARIABLES
    phase,      \* of the run
    ids,        \* shared_ids
    graph,      \* the main buffer
    reg,        \* the registry
    next,       \* next_file_idx
    wk,         \* wk[w]: what worker w does, the file it holds, its buffer, its errors
    threads,    \* threads the pool got, and the caller's own
    cache,      \* the results by file
    retained,   \* retained_bytes
    skipped,    \* the skip list: <<file, phase of the failure>>
    quiet,      \* files left out without an entry: empty ones
    cancelled,
    db          \* the dumped rows

vars == <<phase, ids, graph, reg, next, wk, threads, cache, retained, skipped, quiet,
          cancelled, db>>

Idle == [pc |-> "new", file |-> 0, prior |-> 0, buf |-> EmptyBuffer, errs |-> {}, quiet |-> {}]
NotDumped == Dump(EmptyBuffer)

\* The project, its folders and a node per file.
Structured ==
    LET folder(g, q) == UpsertNode(g, q, "Folder", "")
        project == FoldLeft(folder, UpsertNode(EmptyBuffer, <<Project>>, "Project", ""), Folders)
        file(g, f) == UpsertNode(g, FileNode(Source[f]), "File", f)
    IN FoldLeft(file, project, Files)

Init ==
    /\ phase = "extract" /\ graph = Structured /\ ids = Structured.next /\ reg = <<>>
    /\ next = 1 /\ wk = [w \in Workers |-> Idle] /\ threads \in Workers
    /\ cache = {} /\ retained = 0 /\ skipped = {} /\ quiet = {} /\ cancelled = FALSE
    /\ db = NotDumped

Running == {w \in Workers : wk[w].pc \notin {"new", "exit"}}

\* The pool hands out worker numbers in order, as threads come free.
StartWorker(w) ==
    /\ phase \in {"extract", "resolve"} /\ wk[w].pc = "new"
    /\ \A x \in 1 .. w - 1 : wk[x].pc # "new"
    /\ Cardinality(Running) < threads
    /\ wk' = [wk EXCEPT ![w].pc = "claim"]
    /\ UNCHANGED <<phase, ids, graph, reg, next, threads, cache, retained, skipped, quiet,
                   cancelled, db>>

\* Two workers that read the counter before either writes it (mutant of Claim).
ClaimStale(w) ==
    /\ wk[w].pc = "claim"
    /\ next' \in {next, next + 1}
    /\ wk' = IF next > N \/ cancelled THEN [wk EXCEPT ![w].pc = "exit"]
             ELSE [wk EXCEPT ![w].pc = phase, ![w].file = next]
    /\ UNCHANGED <<phase, ids, graph, reg, threads, cache, retained, skipped, quiet, cancelled, db>>

\* Take the next file.  A worker that finds the run cancelled drops the file it took.
Claim(w) ==
    /\ wk[w].pc = "claim"
    /\ next' = next + 1
    /\ wk' = IF next > N \/ cancelled THEN [wk EXCEPT ![w].pc = "exit"]
             ELSE [wk EXCEPT ![w].pc = phase, ![w].file = next]
    /\ UNCHANGED <<phase, ids, graph, reg, threads, cache, retained, skipped, quiet, cancelled, db>>

-----------------------------------------------------------------------------
(* Extraction.                                                              *)

\* A definition, with the route its decorator declares.
WithDef(f, b, d) ==
    LET r == <<"__route__", "ANY", d.route>>
        n == UpsertNode(b, d.qn, d.label, f)
    IN IF d.route = "" THEN n
       ELSE FoldLeft(LAMBDA x, c : Do(x, x, c), n, <<Nd(r, "Route"), Ed(d.qn, r, "HANDLES")>>)

\* A buffer that counts for itself (mutant of SharingIds).
CountingAlone(b) == b

\* A worker's buffer draws its ids from the shared counter.
SharingIds(b) == [b EXCEPT !.next = ids]

\* A file that cannot be read or parsed is on the list of this worker, an empty
\* one is nowhere; one parsed with errors is on the list and in the graph.
Unreadable(w, outcome) ==
    /\ wk' = [wk EXCEPT ![w].pc = "claim",
                        ![w].errs = @ \cup (IF outcome = "empty" THEN {}
                                            ELSE {<<wk[w].file, outcome>>}),
                        ![w].quiet = @ \cup (IF outcome = "empty" THEN {wk[w].file} ELSE {})]
    /\ UNCHANGED <<ids, retained>>

Extracted(w, outcome) ==
    LET f   == Files[wk[w].file]
        b   == FoldLeft(LAMBDA x, d : WithDef(f, x, d), SharingIds(wk[w].buf),
                        Source[f].defs)
        len == Length(wk[w].file)
    IN /\ ids' = b.next
       /\ retained' = IF len <= PerFile THEN retained + len ELSE retained
       /\ wk' = [wk EXCEPT ![w].pc = IF len <= PerFile THEN "admit" ELSE "store",
                           ![w].prior = retained, ![w].buf = b,
                           ![w].errs = @ \cup (IF outcome = "partial" THEN {<<wk[w].file, outcome>>}
                                               ELSE {})]

Extract(w) ==
    /\ wk[w].pc = "extract"
    /\ \E outcome \in Outcomes :
         IF outcome \in {"ok", "partial"} THEN Extracted(w, outcome) ELSE Unreadable(w, outcome)
    /\ UNCHANGED <<phase, graph, reg, next, threads, cache, skipped, quiet, cancelled, db>>

\* By what was there before alone (mutant of Admitted).
AdmittedAny(w) == wk[w].prior <= Budget

\* The worker that took the room decides by what was taken before it, and gives
\* it back when that is too much.
Admitted(w) == wk[w].prior + Length(wk[w].file) <= Budget

Store(w, kept) ==
    /\ cache' = cache \cup {[file |-> wk[w].file, kept |-> kept]}
    /\ wk' = [wk EXCEPT ![w].pc = "claim"]
    /\ UNCHANGED <<phase, ids, graph, reg, next, threads, skipped, quiet, cancelled, db>>

Admit(w) ==
    /\ wk[w].pc = "admit"
    /\ Admitted(w) /\ Store(w, TRUE)
    /\ UNCHANGED retained

Refuse(w) ==
    /\ wk[w].pc = "admit"
    /\ ~Admitted(w) /\ Store(w, FALSE)
    /\ retained' = retained - Length(wk[w].file)

StoreLarge(w) ==
    /\ wk[w].pc = "store"
    /\ Store(w, FALSE)
    /\ UNCHANGED retained

Cached    == {r.file : r \in cache}
Kept      == {r.file : r \in {r \in cache : r.kept}}
AllLeft   == \A w \in Workers : wk[w].pc = "exit"
MergedAll == FoldLeft(LAMBDA g, w : Merge(g, wk[w].buf), graph, [w \in Workers |-> w])

\* The skip list of the first worker only (mutant of MergeExtracted).
MergeFirstList ==
    /\ phase = "extract" /\ AllLeft
    /\ graph' = IF cancelled THEN MergedAll ELSE [MergedAll EXCEPT !.next = ids]
    /\ skipped' = wk[1].errs
    /\ quiet'   = UNION {wk[w].quiet : w \in Workers}
    /\ phase' = IF cancelled THEN "failed" ELSE "registry"
    /\ wk' = [w \in Workers |-> Idle] /\ next' = 1
    /\ UNCHANGED <<ids, reg, threads, cache, retained, cancelled, db>>

\* The pool has joined: merge buffers and skip lists in the order of the workers.
MergeExtracted ==
    /\ phase = "extract" /\ AllLeft
    /\ graph' = IF cancelled THEN MergedAll ELSE [MergedAll EXCEPT !.next = ids]
    /\ skipped' = UNION {wk[w].errs : w \in Workers}
    /\ quiet'   = UNION {wk[w].quiet : w \in Workers}
    /\ phase' = IF cancelled THEN "failed" ELSE "registry"
    /\ wk' = [w \in Workers |-> Idle] /\ next' = 1
    /\ UNCHANGED <<ids, reg, threads, cache, retained, cancelled, db>>

-----------------------------------------------------------------------------
(* The registry.                                                            *)

Registrable == {"Function", "Method", "Variable", "Field"} \cup TypeLike

\* register_and_link_def; process_def does the same to the node it made.
Linked(g, f, d) ==
    LET defines == IF Has(g, FileNode(f)) /\ Has(g, d.qn)
                   THEN InsertEdge(g, Edge(IdOf(g, FileNode(f)), IdOf(g, d.qn), "DEFINES")) ELSE g
    IN IF d.label = "Method" /\ Has(g, d.parent) /\ Has(g, d.qn)
       THEN InsertEdge(defines, Edge(IdOf(g, d.parent), IdOf(g, d.qn), "DEFINES_METHOD"))
       ELSE defines

\* Imports that find a node other than the file's own.
Importing(g, f) ==
    LET import(b, m) ==
          IF Has(b, m.target) /\ m.target # FileNode(f)
          THEN InsertEdge(b, [Edge(IdOf(b, FileNode(f)), IdOf(b, m.target), "IMPORTS")
                                EXCEPT !.local = m.local]) ELSE b
    IN IF Has(g, FileNode(f)) THEN FoldLeft(import, g, f.imports) ELSE g

\* Channels, with an edge from the function or the file that uses them.
Channelled(g, f) ==
    LET qn(c) == <<"__channel__", c.name>>
        src(b, c) == IF c.fn # NoName /\ Has(b, c.fn) THEN c.fn ELSE FileNode(f)
        channel(b, c) == FoldLeft(LAMBDA x, y : Do(x, x, y), b,
                           <<Nd(qn(c), "Channel")>> \o
                           (IF Has(b, src(b, c))
                            THEN <<Ed(src(b, c), qn(c), IF c.emit THEN "EMITS" ELSE "LISTENS_ON")>>
                            ELSE <<>>))
    IN FoldLeft(channel, g, f.chans)

\* cbm_build_registry_from_cache, over the cached files in order.
CachedFiles == SelectSeq([i \in 1 .. N |-> i], LAMBDA i : i \in Cached)

BuildRegistry ==
    LET file(i) == Source[Files[i]]
        names(r, i) == FoldLeft(LAMBDA x, d : IF d.label \in Registrable
                                              THEN Register(x, d.qn, d.label) ELSE x,
                                r, file(i).defs)
        links(g, i) == Channelled(Importing(FoldLeft(LAMBDA x, d : Linked(x, file(i), d),
                                                     g, file(i).defs), file(i)), file(i))
    IN /\ phase = "registry"
       /\ \/ /\ cancelled
             /\ phase' = "failed" /\ UNCHANGED <<reg, graph>>
          \/ /\ ~cancelled
             /\ reg' = FoldLeft(names, <<>>, CachedFiles)
             /\ graph' = FoldLeft(links, graph, CachedFiles)
             /\ phase' = "resolve"
       /\ UNCHANGED <<ids, next, wk, threads, cache, retained, skipped, quiet, cancelled, db>>

-----------------------------------------------------------------------------
(* Resolution.                                                              *)

\* The language server's cross-file answers are sought when it serves the
\* language, the file's text was kept and calls are left over; it sees the
\* definitions of the file and of what it imports.
Visible(g, f) ==
    LET mods == {f.mod} \cup {m.to : m \in ToSet(MapOfEdges(g, f))}
        seen == {i \in Cached : \E m \in mods : \E d \in ToSet(Source[Files[i]].defs) :
                                  IsPrefix(m, d.qn)}
    IN UNION {{d.qn : d \in ToSet(Source[Files[i]].defs)} : i \in seen}

Answers(f, all) ==
    f.lsp \o SelectSeq(f.cross, LAMBDA r : r.to \in all /\ r \notin ToSet(f.lsp))

Asked(i) ==
    LET f == Source[Files[i]]
    IN f.served /\ i \in Kept /\ (f.lang \in {"java", "kotlin"} \/ Len(f.lsp) < Len(f.calls))

ParallelView(i) ==
    LET f == Source[Files[i]]
    IN View(TRUE, graph, reg, f, IF Asked(i) THEN Answers(f, Visible(graph, f)) ELSE f.lsp)

\* Everything is looked up in the merged graph and put in the worker's buffer.
ResolveFile(w) ==
    /\ wk[w].pc = "resolve"
    /\ wk' = [wk EXCEPT ![w].pc = "claim",
                        ![w].buf = FoldLeft(LAMBDA x, c : Do(graph, x, c), SharingIds(@),
                                            IF wk[w].file \in Cached
                                            THEN CommandsOf(ParallelView(wk[w].file)) ELSE <<>>)]
    /\ ids' = wk'[w].buf.next
    /\ UNCHANGED <<phase, graph, reg, next, threads, cache, retained, skipped, quiet, cancelled, db>>

GoFiles  == {f \in ToSet(Files) : Source[f].lang = "go"}
InOrder(s) == [i \in DOMAIN s |-> Source[Files[s[i]]]]

\* Merge, the Go types, and the routes of the configuration files; the main
\* counter is set to the shared one before those.
MergeResolved ==
    /\ phase = "resolve" /\ AllLeft
    /\ graph' = InfraRoutes([ImplementsGo(MergedAll, GoFiles) EXCEPT !.next = ids],
                            InOrder(CachedFiles))
    /\ phase' = IF cancelled THEN "failed" ELSE "dump"
    /\ UNCHANGED <<ids, reg, next, wk, threads, cache, retained, skipped, quiet, cancelled, db>>

DumpRows ==
    /\ phase = "dump"
    /\ db' = Dump(graph)
    /\ phase' = IF cancelled THEN "failed" ELSE "done"
    /\ UNCHANGED <<ids, graph, reg, next, wk, threads, cache, retained, skipped, quiet, cancelled>>

\* cbm_pipeline_cancel, from another thread.
Cancel ==
    /\ ~cancelled /\ phase \notin {"done", "failed"}
    /\ cancelled' = TRUE
    /\ UNCHANGED <<phase, ids, graph, reg, next, wk, threads, cache, retained, skipped, quiet, db>>

\* The run is over; a state that is not has a step.
Ended == phase \in {"done", "failed"} /\ UNCHANGED vars

Next ==
    \/ \E w \in Workers :
         \/ StartWorker(w)
         \/ Claim(w)
         \/ Extract(w)
         \/ Admit(w)
         \/ Refuse(w)
         \/ StoreLarge(w)
         \/ ResolveFile(w)
    \/ MergeExtracted
    \/ BuildRegistry
    \/ MergeResolved
    \/ DumpRows
    \/ Cancel
    \/ Ended

Spec == Init /\ [][Next]_vars

-----------------------------------------------------------------------------
(* The sequential run over the same files, as a reference.                  *)

\* Environment variables, which only this run records.
Configured(g, f) ==
    LET qn(e) == <<"__env__", e.key>>
        src(b, e) == IF e.fn # NoName /\ Has(b, e.fn) THEN e.fn ELSE FileNode(f)
        env(b, e) == FoldLeft(LAMBDA x, c : Do(x, x, c), b,
                              <<Nd(qn(e), "EnvVar"), Ed(src(b, e), qn(e), "CONFIGURES")>>)
    IN FoldLeft(env, g, f.envs)

\* pass_definitions: definitions of every file, then the edges between files.
SequentialDefs(fs) ==
    LET def(g, d, i) == Linked(UpsertNode(g, d.qn, d.label, Files[i]), Source[Files[i]], d)
        file(g, i) == FoldLeft(LAMBDA x, d : def(x, d, i), g, Source[Files[i]].defs)
        between(g, i) == LET f == Source[Files[i]] IN Configured(Channelled(Importing(g, f), f), f)
    IN FoldLeft(between, FoldLeft(file, Structured, fs), fs)

SequentialRegistry(fs) ==
    LET names(r, i) == FoldLeft(LAMBDA x, d : IF d.label \in Registrable
                                              THEN Register(x, d.qn, d.label) ELSE x,
                                r, Source[Files[i]].defs)
    IN FoldLeft(names, <<>>, fs)

\* The language server reads each file again and sees every definition.
SequentialAnswers(f, fs) ==
    IF f.served THEN Answers(f, UNION {{d.qn : d \in ToSet(Source[Files[i]].defs)} : i \in ToSet(fs)})
    ELSE f.lsp

\* run_sequential_pipeline: pass after pass over all the files.
Sequential(fs) ==
    LET regs == SequentialRegistry(fs)
        pass(Cmds(_), g) ==
          FoldLeft(LAMBDA b, i :
                     LET f == Source[Files[i]]
                     IN FoldLeft(LAMBDA x, c : Do(x, x, c), b,
                                 Cmds(View(FALSE, b, regs, f, SequentialAnswers(f, fs)))),
                   g, fs)
        calls    == pass(Calls, SequentialDefs(fs))
        depends  == pass(Depends, calls)
        usages   == pass(LAMBDA v : Usages(v) \o Throws(v) \o ReadsAndWrites(v), depends)
        semantic == pass(LAMBDA v : Definitions(v) \o Implementations(v), usages)
    IN InfraRoutes(ImplementsGo(semantic, GoFiles), InOrder(fs))

-----------------------------------------------------------------------------
(* Properties.                                                              *)

TypeOK ==
    /\ phase \in {"extract", "registry", "resolve", "dump", "done", "failed"}
    /\ ids \in Nat /\ next \in 1 .. N + MaxWorkers + 1 /\ threads \in Workers
    /\ \A w \in Workers :
         /\ wk[w].pc \in {"new", "claim", "extract", "admit", "store", "resolve", "exit"}
         /\ wk[w].file \in 0 .. N
    /\ Cached \subseteq 1 .. N /\ retained \in Nat /\ cancelled \in BOOLEAN
    /\ skipped \subseteq (1 .. N) \X Outcomes

Holding == {"extract", "admit", "store", "resolve"}

\* No two workers hold a file, none takes up one that is done, and once the buffers are merged every file has a
\* result, an entry on the skip list, or nothing in it: pass_parallel.c 627-810
\* promises "never a silent drop".
EveryFileIsAccounted ==
    /\ \A w, x \in Workers : w # x /\ wk[w].pc \in Holding /\ wk[x].pc \in Holding
                              => wk[w].file # wk[x].file
    /\ \A w \in Workers : wk[w].pc = "extract" => wk[w].file \notin Cached
    /\ phase \in {"registry", "resolve", "dump", "done"} =>
         \A i \in 1 .. N : i \in Cached \cup quiet \/ \E o \in Outcomes : <<i, o>> \in skipped

\* The lengths of the texts of S together.
Total(S) ==
    LET upTo[n \in 0 .. N] ==
          IF n = 0 THEN 0 ELSE upTo[n - 1] + (IF n \in S THEN Length(n) ELSE 0)
    IN upTo[N]

\* However the admissions interleave, the retained texts fit the budget
\* (pass_parallel.c 751-775).
RetainedWithinBudget == Total(Kept) <= Budget

\* Nodes drawn by different workers never share an id; only the channels, which
\* the registry phase numbers from the main buffer, may (pipeline.c 799-814).
OnlyChannelsClash ==
    \A i, j \in DOMAIN graph.nodes :
        i # j /\ graph.nodes[i].id = graph.nodes[j].id =>
            "Channel" \in {graph.nodes[i].label, graph.nodes[j].label}

Shared == {"DEFINES", "DEFINES_METHOD", "IMPORTS", "USAGE", "READS", "WRITES", "OVERRIDE", "CALLS",
           "DECORATES"}
Compared(g) == {e \in Named(Dump(g)) : e.type \in Shared /\ e.src # e.tgt}
SequentialEdges(fs) == LET g == Sequential(fs) IN Compared(g)

\* The edges both runs claim to make are the same whatever the number of workers
\* and the order in which they took the files (pass_parallel.c mirrors pass_*.c),
\* but for those only the parallel run makes: calls of a function to itself and
\* requests found among the arguments of other calls.
SameEdges == phase = "done" => Compared(graph) = Expected(CachedFiles)

\* A function with a CALLS edge to itself calls itself: pass_complexity.c takes
\* the edge for "direct self-recursion".
SelfEdgeIsACall ==
    phase = "done" =>
        \A e \in Named(db) : e.type = "CALLS" /\ e.src = e.tgt =>
            \E f \in ToSet(Files) : \E c \in ToSet(Source[f].calls) :
                c.fn = e.src /\ Last(c.callee) = Last(e.src)

\* An edge to a channel ends at a channel: ids are unique across buffers
\* (graph_buffer.h 53).
ChannelsStayChannels ==
    phase = "done" =>
        \A e \in ToSet(db.edges) : e.type \in {"EMITS", "LISTENS_ON"} =>
            db.nodes[e.tgt].label = "Channel"

\* A per-file module does not downgrade a directory (graph_buffer.c 651-659).
DirectoriesStay ==
    \A q \in ToSet(Folders) : LabelOf(graph, q) = "Folder"

============================================================================
