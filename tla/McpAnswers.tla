----------------------------- MODULE McpAnswers -----------------------------
(***************************************************************************)
(* mcp.c: what the other tools answer from the rows of the project they    *)
(* are asked about.  (Calls and answers are McpCalls.)                     *)
(*                                                                         *)
(* External: grep, git, and the source files, which do not change here.    *)
(***************************************************************************)
EXTENDS Architecture, Cypher, McpCalls

CONSTANTS
    Source,         \* the lines of each source file, a line being characters
    Git,            \* what its three commands print: committed, unstaged, status
    MaxAspects,     \* MCP_COL_16
    HopLimit,       \* MCP_BFS_LIMIT
    SnippetLines,   \* SNIPPET_DEFAULT_LINES
    GrepLimit,      \* GREP_MAX_MATCHES
    MaxLines,       \* lines kept of one result
    MaxRaw          \* raw matches shown

-----------------------------------------------------------------------------
(* query_graph, get_graph_schema, index_status, get_architecture.           *)

QueryGraph(db, p, r) ==
    LET result == Execute(db, p, r.text, Arg(r, "maxRows", 0))
    IN IF result.ok THEN Ok(result.rows) ELSE Error("query")

HasAdr(db, p) == p \in DOMAIN db.summaries \/ p \in DOMAIN LegacyAdr

GraphSchema(db, p) == Ok([schema |-> Schema(db, p), adr |-> HasAdr(db, p)])

IndexStatus(db, p) ==
    LET n == Cardinality(NodesOf(db, p))
    IN Ok([nodes |-> n, edges |-> Cardinality({e \in db.edges : e.project = p}),
           status |-> IF n > 0 THEN "ready" ELSE "empty"])

CrossTypes == {"CROSS_HTTP_CALLS", "CROSS_ASYNC_CALLS", "CROSS_CHANNEL",
               "CROSS_GRPC_CALLS", "CROSS_GRAPHQL_CALLS", "CROSS_TRPC_CALLS"}

CrossRepoSummary(types) == Restrict(types, DOMAIN types \cap CrossTypes)

ValidAspects == {"all", "overview", "structure", "dependencies", "routes", "languages", "packages",
                 "entry_points", "hotspots", "boundaries", "layers", "file_tree", "clusters"}

\* Of a list that is too long only the first are looked at.
ArchitectureAnswer(db, p, r) ==
    LET asked  == Range(Take(Arg(r, "aspects", <<>>), MaxAspects))
        path   == Arg(r, "path", <<>>)
        counts == SchemaCountsScoped(db, p, path)
        part(name, value) == IF WantAspect(asked, name) THEN value ELSE <<>>
    IN IF ~(asked \subseteq ValidAspects) THEN Error("aspect")
       ELSE Ok([nodes |-> CountNodesScoped(db, p, path), edges |-> Cardinality(EdgesScoped(db, p, path)),
                labels |-> part("structure", counts.labels), types |-> part("dependencies", counts.types),
                parts |-> GetArchitecture(db, p, path, asked), cross |-> CrossRepoSummary(counts.types)])

-----------------------------------------------------------------------------
(* trace_path.                                                              *)

TraceTypes(r) ==
    LET given == Range(Take(Arg(r, "types", <<>>), MaxAspects))
        mode  == Arg(r, "mode", None)
    IN IF given # {} THEN given
       ELSE CASE mode = "data_flow"     -> {"CALLS", "DATA_FLOWS"}
              [] mode = "cross_service" -> Calling \cup {"DATA_FLOWS"} \cup CrossTypes
              [] OTHER                  -> {"CALLS"}

\* Arguments are read off some edge at the node, not the one it was reached by.
HopArgs(edges, id) ==
    LET with == {e \in edges : id \in {e.src, e.tgt} /\ "args" \in DOMAIN e.props}
    IN IF with = {} THEN <<>> ELSE (CHOOSE e \in with : TRUE).props.args

HopRows(db, tr, r) ==
    LET node(id) == CHOOSE n \in db.nodes : n.id = id
        shown    == SelectSeq(tr.visited, LAMBDA h : Arg(r, "tests", FALSE) \/ ~IsTestFile(node(h.id)))
    IN [k \in DOMAIN shown |->
          [id |-> shown[k].id, hop |-> shown[k].hop, risk |-> HopToRisk(shown[k].hop),
           args |-> IF Arg(r, "mode", None) = "data_flow" THEN HopArgs(tr.edges, shown[k].id) ELSE <<>>]]

Span(n) == IF n.to > n.from THEN n.to - n.from ELSE 0
LabelWeight == 1000
ResolutionScore(n) ==
    Span(n) + LabelWeight * (CASE n.label \in {"Function", "Method"} -> 2
                               [] n.label \in {"Module", "File"} -> 0 [] OTHER -> 1)

RealDef(n) == n.label \in {"Function", "Method"} /\ n.to > n.from

\* Two definitions with a body, or a tie at the top, and nobody knows which.
PickResolved(nodes) ==
    LET best == Max({ResolutionScore(nodes[k]) : k \in DOMAIN nodes})
        top  == {k \in DOMAIN nodes : ResolutionScore(nodes[k]) = best}
    IN [node |-> nodes[Min(top)],
        ambiguous |-> Len(nodes) > 1 /\ \/ Cardinality({k \in DOMAIN nodes : RealDef(nodes[k])}) > 1
                                        \/ Cardinality(top) > 1]

\* A row for every hop a node is met with (mutant of UnionSameName).
UnionOfHops(db, nodes, inbound, types, depth) ==
    LET add(acc, n) ==
            LET tr == Bfs(db, n.id, inbound, types, depth, HopLimit)
            IN [visited |-> acc.visited \o tr.visited, edges |-> acc.edges \cup tr.edges]
    IN FoldLeft(add, [visited |-> <<>>, edges |-> {}], nodes)

\* Each namesake is walked from; a node keeps the hop it was first met with.
UnionSameName(db, nodes, inbound, types, depth) ==
    LET add(acc, n) ==
            LET tr == Bfs(db, n.id, inbound, types, depth, HopLimit)
                keep(vs, h) == IF \E k \in DOMAIN vs : vs[k].id = h.id THEN vs ELSE Append(vs, h)
            IN [visited |-> FoldLeft(keep, acc.visited, tr.visited), edges |-> acc.edges \cup tr.edges]
    IN FoldLeft(add, [visited |-> <<>>, edges |-> {}], nodes)

Suggestions(nodes) == [suggestions |-> [k \in DOMAIN nodes |-> nodes[k].qn]]

TracePath(db, p, r) ==
    LET named == ById(FindNodesByName(db, p, r.function))
        nodes == IF named # <<>> THEN named ELSE ById(FindNodeByQn(db, p, Arg(r, "qn", <<>>)))
        side(inbound, way) ==
            IF Arg(r, "direction", "both") \notin {way, "both"} THEN <<>>
            ELSE HopRows(db, UnionSameName(db, nodes, inbound, TraceTypes(r), r.depth), r)
    IN IF nodes = <<>> THEN Error("function")
       ELSE IF PickResolved(nodes).ambiguous THEN Ok(Suggestions(nodes))
       ELSE Ok([callees |-> side(FALSE, "outbound"), callers |-> side(TRUE, "inbound")])

-----------------------------------------------------------------------------
(* get_code_snippet.                                                        *)

ReadFileLines(file, from, to) ==
    IF file \in DOMAIN Source THEN Take(SubSeq(Source[file], from, Len(Source[file])), to - from + 1)
    ELSE <<>>

\* Without a last line of its own a symbol is shown for so many lines.
SnippetResponse(db, n, r) ==
    LET from == IF n.from > 0 THEN n.from ELSE 1
        to   == IF n.to > from THEN n.to ELSE from + SnippetLines
        near(names) == IF Arg(r, "neighbors", FALSE) THEN names ELSE <<>>
    IN Ok([id |-> n.id, source |-> ReadFileLines(n.file, from, to), from |-> from, to |-> to,
           callers |-> InDegree(db, n.id, "CALLS"), callees |-> OutDegree(db, n.id, "CALLS"),
           callerNames |-> near(Callers(db, n.id, ShownNames)),
           calleeNames |-> near(CalleesOf(db, n.id, ShownNames))])

\* The name itself, or what it ends, if one of those is clearly meant.
CodeSnippet(db, p, r) ==
    LET exact  == FindNodeByQn(db, p, r.qn)
        suffix == ById(FindNodesByQnSuffix(db, p, r.qn))
    IN IF exact # {} THEN SnippetResponse(db, CHOOSE n \in exact : TRUE, r)
       ELSE IF suffix = <<>> THEN Error("symbol")
       ELSE IF PickResolved(suffix).ambiguous THEN Ok(Suggestions(suffix))
       ELSE SnippetResponse(db, PickResolved(suffix).node, r)

-----------------------------------------------------------------------------
(* search_code.                                                             *)

FilterPasses(r, file) == Arg(r, "filter", <<>>) = <<>> \/ Matches(r.filter, file, TRUE)

\* Words with blanks between them are looked for in this order on a line.
LiteralPattern(words) ==
    LET any == [cs |-> Range(Letters), q |-> "star"]
        one(w) == [k \in DOMAIN w |-> [cs |-> {w[k]}, q |-> "one"]]
    IN <<FlattenSeq([k \in DOMAIN words |-> IF k = 1 THEN one(words[1]) ELSE <<any>> \o one(words[k])])>>

\* grep --include: the last part of the path against the glob.
Grep(r, files) ==
    LET pat == IF Arg(r, "regex", <<>>) # <<>> THEN r.regex ELSE LiteralPattern(r.words)
        hits(f) == IF Arg(r, "glob", <<>>) # <<>> /\ ~Like(GlobToLike(r.glob), Last(Parts(f))) THEN <<>>
                   ELSE SelectSeq([i \in DOMAIN Source[f] |-> [file |-> f, line |-> i]],
                                  LAMBDA h : Matches(pat, Source[f][h.line], TRUE))
    IN FlattenSeq([k \in DOMAIN files |-> hits(files[k])])

\* Files that are indexed and pass the filter, and whether there are any indexed.
ScopedFilelist(db, p, r) ==
    [scoped |-> ListFiles(db, p) # {},
     files  |-> SelectSeq(Sorted(ListFiles(db, p) \cap DOMAIN Source, Before), LAMBDA f : FilterPasses(r, f))]

CollectGrep(r, files) == Take(SelectSeq(Grep(r, files), LAMBDA h : FilterPasses(r, h.file)), GrepLimit)

\* The first of the shortest spans around a line.
TightestNode(nodes, line) ==
    LET around == {k \in DOMAIN nodes : nodes[k].from <= line /\ line <= nodes[k].to}
        span(k) == nodes[k].to - nodes[k].from
        best   == {k \in around : \A j \in around : span(k) <= span(j)}
    IN IF best = {} THEN <<>> ELSE <<nodes[Min(best)]>>

AddResult(results, n, line) ==
    LET at == {k \in DOMAIN results : results[k].node.id = n.id}
    IN IF at = {} THEN Append(results, [node |-> n, lines |-> <<line>>])
       ELSE [results EXCEPT ![CHOOSE k \in at : TRUE].lines =
                IF Len(@) < MaxLines THEN Append(@, line) ELSE @]

\* A line that no symbol of its file spans stays a raw match.
ClassifyHit(db, p, acc, h) ==
    LET n == TightestNode(ById(FindNodesByFile(db, p, h.file)), h.line)
    IN IF n = <<>> THEN [acc EXCEPT !.raw = Append(@, h)]
       ELSE [acc EXCEPT !.results = AddResult(@, n[1], h.line)]

ClassifyAll(db, p, hits) ==
    FoldLeft(LAMBDA acc, h : ClassifyHit(db, p, acc, h), [results |-> <<>>, raw |-> <<>>], hits)

SearchScore(db, n) ==
    InDegree(db, n.id, "CALLS") + (CASE n.label \in {"Function", "Method"} -> 10
                                     [] n.label = "Route" -> 15 [] OTHER -> 0)
                                - (IF IsTestFile(n) THEN 5 ELSE 0)

DedupFiles(results, raw) ==
    Distinct([k \in DOMAIN results |-> results[k].node.file] \o [k \in DOMAIN raw |-> raw[k].file])

DirDistribution(results) ==
    Tally([k \in DOMAIN results |-> IF Len(Parts(results[k].node.file)) > 1
                                    THEN Head(Parts(results[k].node.file)) ELSE results[k].node.file])

ResultSource(r, x) ==
    LET n    == x.node
        near == Arg(r, "context", 0)
        from == IF x.lines[1] > near THEN x.lines[1] - near ELSE 1
    IN IF Arg(r, "show", None) = "full" THEN ReadFileLines(n.file, n.from, n.to)
       ELSE IF near > 0 THEN ReadFileLines(n.file, from, Last(x.lines) + near) ELSE <<>>

SearchOutput(r, results, raw, hits) ==
    LET shown == Take(results, Arg(r, "limit", ShownNames))
        item(x) == [id |-> x.node.id, lines |-> x.lines, source |-> ResultSource(r, x)]
    IN [total |-> Len(results), hits |-> Len(hits), raw |-> Len(raw), dirs |-> DirDistribution(results),
        shown |-> IF Arg(r, "show", None) = "files" THEN DedupFiles(shown, raw)
                  ELSE [k \in DOMAIN shown |-> item(shown[k])],
        rawShown |-> IF Arg(r, "show", None) = "files" THEN <<>> ELSE Take(raw, MaxRaw)]

\* A filter that leaves no indexed file finds nothing; with none indexed all are searched.
SearchCode(db, p, r) ==
    LET scope == ScopedFilelist(db, p, r)
        hits  == CollectGrep(r, IF scope.scoped THEN scope.files ELSE Sorted(DOMAIN Source, Before))
        all   == ClassifyAll(db, p, hits)
        rank(i, j) == LET s(k) == SearchScore(db, all.results[k].node)
                      IN s(i) > s(j) \/ (s(i) = s(j) /\ i < j)
        order == Sorted(DOMAIN all.results, rank)
    IN Ok(SearchOutput(r, [k \in DOMAIN order |-> all.results[order[k]]], all.raw, hits))

-----------------------------------------------------------------------------
(* detect_changes.                                                          *)

\* Sorted and without repetitions, but a line of status has its two letters.
ChangedFiles ==
    LET plain(fs) == {[mark |-> "", path |-> f] : f \in fs}
        lines == plain(Git.committed \cup Git.unstaged) \cup Git.status
    IN [k \in 1 .. Cardinality(lines) |->
          Sorted(lines, LAMBDA a, b : \/ a.mark # "" /\ b.mark = ""
                                      \/ (a.mark = "") = (b.mark = "") /\ Before(a.path, b.path))[k].path]

Impacted(db, p, file) ==
    {n.id : n \in {n \in FindNodesByFile(db, p, file) : n.label \notin {"File", "Folder", "Project"}}}

DetectChanges(db, p, r) ==
    LET files   == ChangedFiles
        symbols == Arg(r, "scope", "symbols") \in {"symbols", "impact"}
    IN Ok([files |-> files, count |-> Len(files),
           symbols |-> IF symbols THEN [k \in DOMAIN files |-> Impacted(db, p, files[k])] ELSE <<>>])

-----------------------------------------------------------------------------
\* The other tools that read.
HandleTool(db, p, r) ==
    LET called(name) == r.tool = name
    IN CASE called("query_graph")      -> QueryGraph(db, p, r)
         [] called("trace_path")       -> TracePath(db, p, r)
         [] called("get_code_snippet") -> CodeSnippet(db, p, r)
         [] called("get_graph_schema") -> GraphSchema(db, p)
         [] called("get_architecture") -> ArchitectureAnswer(db, p, r)
         [] called("search_code")      -> SearchCode(db, p, r)
         [] called("detect_changes")   -> DetectChanges(db, p, r)
         [] called("index_status")     -> IndexStatus(db, p)
=============================================================================
