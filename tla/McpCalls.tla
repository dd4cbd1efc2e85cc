------------------------------ MODULE McpCalls -------------------------------
(***************************************************************************)
(* mcp.c: calls and answers, and the two tools whose answers a client puts *)
(* together over several calls: the pages of search_graph, and the record  *)
(* of manage_adr.  A call is a record of its arguments; one that is not    *)
(* given has its default.  An answer is an error or a body; the JSON it is *)
(* written in is left out, and so are hints and timings.                   *)
(*                                                                         *)
(* External: the words and the rank of the full-text index.                *)
(***************************************************************************)
EXTENDS Store

CONSTANTS
    LegacyAdr,      \* the adr.md files, by project
    WordsOf(_),     \* the full-text words of a name
    InnerLimit,     \* BM25_INNER_LIMIT
    SearchLimit,    \* BM25_DEFAULT_LIMIT
    ShownNames      \* MCP_DEFAULT_LIMIT

Arg(r, k, default) == IF k \in DOMAIN r THEN r[k] ELSE default

Ok(body)   == [ok |-> TRUE, body |-> body]
Error(why) == [ok |-> FALSE, body |-> why]

Ids(rows) == [k \in DOMAIN rows |-> rows[k].id]

-----------------------------------------------------------------------------
(* search_graph.                                                            *)

\* Capitals and underscores; of the types that occur here, these.
ValidEdgeType(type) == type \in Calling \cup Weighed \cup {"IMPORTS"}

\* The neighbours over one type of edge, inbound first.
Connected(db, id, relationship) ==
    LET side(inbound) == Ids(Bfs(db, id, inbound, {IF relationship = None THEN "CALLS" ELSE relationship},
                                 1, ShownNames).visited)
    IN side(TRUE) \o side(FALSE)

\* A row matches if it has one of the words; more of them rank higher.
Bm25Match(db, words) == {n \in db.nodes : WordsOf(n.name) \cap Range(words) # {}}
BaseRank(n, words) == -Cardinality(WordsOf(n.name) \cap Range(words))

Bm25FileLike(glob, file) == glob = <<>> \/ Like(FileLike(glob), file)

Boost(label) == CASE label \in {"Function", "Method"} -> 10
                  [] label = "Route" -> 8
                  [] label \in {"Class", "Interface", "Type", "Enum"} -> 5
                  [] OTHER -> 0

\* The best rows of any project and label first; what is left is the total.
Bm25Search(db, p, words, glob, limit, offset) ==
    LET ranked(S, R(_)) == Sorted(S, LAMBDA m, n : R(m) < R(n) \/ (R(m) = R(n) /\ m.id < n.id))
        inner == Take(ranked(Bm25Match(db, words), LAMBDA n : BaseRank(n, words)), InnerLimit)
        kept  == {n \in Range(inner) : /\ n.project = p /\ Bm25FileLike(glob, n.file)
                                       /\ n.label \notin {"File", "Folder", "Module", "Section",
                                                          "Variable", "Project"}}
        all   == ranked(kept, LAMBDA n : BaseRank(n, words) - Boost(n.label))
        from  == IF offset > 0 THEN offset ELSE 0
        page  == Take(SubSeq(all, from + 1, Len(all)), IF limit > 0 THEN limit ELSE SearchLimit)
    IN [total |-> Len(all), rows |-> page, more |-> Len(all) > offset + Len(page)]

\* The last row alone is not worth a page (mutant of EmitResults).
EmitAllButOne(out, offset) ==
    [total |-> out.total, rows |-> out.rows, more |-> out.total > offset + Len(out.rows) + 1]

EmitResults(out, offset) ==
    [total |-> out.total, rows |-> out.rows, more |-> out.total > offset + Len(out.rows)]

\* With words to look for, only those; a query that has none is no query.
SearchGraph(db, p, r) ==
    LET q     == [Arg(r, "search", AnySearch) EXCEPT !.project = p]
        words == Arg(r, "query", <<>>)
        out   == EmitResults(Search(db, q), q.offset)
        row(n) == IF Arg(r, "connected", FALSE) THEN Connected(db, n.id, q.relationship) ELSE <<>>
    IN IF words # <<>> THEN Ok(Bm25Search(db, p, words, q.glob, q.limit, q.offset))
       ELSE IF q.relationship # None /\ ~ValidEdgeType(q.relationship) THEN Error("relationship")
       ELSE Ok([total |-> out.total, rows |-> out.rows, more |-> out.more,
                connected |-> [k \in DOMAIN out.rows |-> row(out.rows[k])]])

-----------------------------------------------------------------------------
(* manage_adr, ingest_traces.                                               *)

\* A line of a record: a heading, or text.
Heading(name)   == [head |-> TRUE, text |-> name]
PlainLine(text) == [head |-> FALSE, text |-> text]

AdrSectionList(lines) == SelectSeq(lines, LAMBDA l : l.head)

\* What is stored, after an adr.md of an older version has been taken over.
AdrTakenOver(db, p) ==
    IF p \notin DOMAIN db.summaries /\ p \in DOMAIN LegacyAdr
    THEN [db EXCEPT !.summaries = With(@, p, LegacyAdr[p])] ELSE db

AdrUpdates(r) == r.mode \in {"update", "store"} /\ "content" \in DOMAIN r

AdrWritten(db, p, r) ==
    IF AdrUpdates(r)
    THEN [AdrTakenOver(db, p) EXCEPT !.summaries = With(@, p, r.content)]
    ELSE AdrTakenOver(db, p)

AdrAnswer(db, p, r) ==
    LET text == IF p \in DOMAIN AdrTakenOver(db, p).summaries THEN AdrTakenOver(db, p).summaries[p] ELSE <<>>
    IN Ok(IF AdrUpdates(r) THEN <<>>
          ELSE IF r.mode = "sections" THEN AdrSectionList(text) ELSE text)

\* Counted, and nothing else.
IngestTraces(r) == Ok(r.traces)
==============================================================================
