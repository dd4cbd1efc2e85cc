------------------------------ MODULE MCServer -------------------------------
(* Two projects, one of them in a file with another name, and the calls a    *)
(* client may make of them.                                                  *)
EXTENDS McpServer

MCLetters == <<"/", ".", "a", "b", "e", "f", "g", "m", "r", "s", "t">>
MCLower   == <<>>

MCLanguages == [c |-> "C", py |-> "Python"]
MCDirOrder  == <<"p", "z", "q">>

F1 == <<"a", "/", "f">>
F2 == <<"b", "/", "g">>
F3 == <<"t", "/", "t">>
F4 == <<"a", "/", "s">>

Row(p, id, label, name, qn, file, from, to) ==
    [id |-> id, project |-> p, label |-> label, name |-> name, qn |-> <<p>> \o qn, file |-> file,
     from |-> from, to |-> to, test |-> file = F3, ext |-> IF file = F2 THEN "py" ELSE "c",
     props |-> IF name = <<"m">> THEN [entry |-> <<"true">>] ELSE <<>>]

Edge(p, src, type, tgt) ==
    [project |-> p, src |-> src, tgt |-> tgt, type |-> type, local |-> "",
     props |-> IF src = 1 THEN [args |-> <<"s">>] ELSE <<>>]

Db(p, nodes, edges) ==
    [EmptyDb EXCEPT !.projects = p :> "/" \o p, !.nodes = nodes, !.edges = edges, !.nextId = 20]

Common(p) ==
    {Row(p, 1, "Function", <<"m">>, <<"x", "a", "m">>, F1, 1, 6),
     Row(p, 2, "Function", <<"a", "b", "e", "r">>, <<"x", "a", "m", "aber">>, F1, 3, 5),
     Row(p, 3, "Function", <<"b">>, <<"y", "b", "b">>, F2, 1, 2),
     Row(p, 8, "File", <<"f">>, <<"a", "f">>, F1, 1, 6)}

\* A cycle, a shortcut, a namesake of another kind that is used by one who calls
\* the other over a detour, a test, a route, and more than half as many files
\* again as the next version has.
P1 == Db("p", Common("p") \cup
         {Row("p", 4, "Class", <<"b">>, <<"y", "b", "k", "b">>, F2, 3, 5),
          Row("p", 5, "Function", <<"t">>, <<"t", "t">>, F3, 1, 2),
          Row("p", 6, "Route", <<"/", "a">>, <<"y", "b", "r">>, F2, 2, 2),
          Row("p", 10, "File", <<"s">>, <<"a", "s">>, F4, 1, 1),
          Row("p", 7, "Method", <<"a", "b", "r">>, <<"y", "b", "k", "abr">>, F2, 4, 5)},
         {Edge("p", 1, "CALLS", 2), Edge("p", 1, "CALLS", 3), Edge("p", 2, "CALLS", 3),
          Edge("p", 3, "CALLS", 7), Edge("p", 7, "CALLS", 1), Edge("p", 5, "CALLS", 3),
          Edge("p", 1, "USAGE", 4), Edge("p", 7, "USAGE", 4), Edge("p", 1, "CROSS_CHANNEL", 6)})

\* Later: the cycle is broken, a call went, a namesake became a function.
P2 == Db("p", Common("p") \cup {Row("p", 9, "Function", <<"b">>, <<"x", "a", "b">>, F1, 6, 9)},
         {Edge("p", 1, "CALLS", 2), Edge("p", 2, "CALLS", 9), Edge("p", 9, "CALLS", 3)})

Q1 == Db("q", Common("q"), {Edge("q", 1, "CALLS", 3), Edge("q", 3, "CALLS", 2)})

MCVersions  == [p |-> {P1, P2}, q |-> {Q1}]
MCStartDisks == {[p |-> P1, z |-> Q1, q |-> Broken]}

MCSource ==
    (F1 :> << <<"m">>, <<"a">>, <<"a", "b", "e", "r">>, <<"a", ".", "b">>, <<"b">>, <<"s">> >>) @@
    (F2 :> << <<"b">>, <<"a", "b">>, <<"b">>, <<"a", "b", "r">>, <<"e">> >>) @@
    (F3 :> << <<"t">>, <<"b">> >>) @@ (F4 :> << <<"s">> >>)

MCGit == [committed |-> {F1}, unstaged |-> {F2}, status |-> {[mark |-> " M", path |-> F2]}]
MCLegacy == "q" :> <<Heading("STACK"), PlainLine("c")>>
MCWordsOf(name) == IF name = <<"a", "b", "e", "r">> THEN {"a", "ber"} ELSE {name[1]}

-----------------------------------------------------------------------------
One(c) == [cs |-> {c}, q |-> "one"]
Opt(c) == [cs |-> {c}, q |-> "opt"]
Gap    == [cs |-> Range(MCLetters), q |-> "star"]

S(set) == [tool |-> "search_graph", project |-> "p", search |-> set]

Searches ==
    {S([AnySearch EXCEPT !.limit = 4]),
     S([AnySearch EXCEPT !.label = "Function"]),
     S([AnySearch EXCEPT !.relationship = "CALLS", !.min = 2]),
     S([AnySearch EXCEPT !.glob = <<"a", "/", "*", "*">>, !.noEntry = TRUE]),
     S([AnySearch EXCEPT !.limit = 2, !.pattern = <<<<One("a"), One("b"), Gap>>>>]),
     [tool |-> "search_graph", project |-> "q", search |-> AnySearch, connected |-> TRUE],
     S([AnySearch EXCEPT !.relationship = "calls"]),
     [tool |-> "search_graph", project |-> "q", query |-> <<"a", "b">>]}

Traces ==
    {[tool |-> "trace_path", project |-> "p", function |-> f, depth |-> d] :
        f \in {<<"m">>, <<"b">>, <<"a", "b", "e", "r">>, <<"s">>}, d \in {1, 3}}
    \cup {[tool |-> "trace_path", project |-> "p", function |-> <<"m">>, depth |-> 4,
           mode |-> m, tests |-> t] : m \in {"data_flow", "cross_service"}, t \in BOOLEAN}
    \cup {[tool |-> "trace_path", project |-> "q", function |-> <<"m">>, depth |-> 2,
           types |-> <<"USAGE">>, direction |-> "inbound"],
          [tool |-> "trace_path", project |-> "p", function |-> <<"b">>, depth |-> 3,
           types |-> <<"CALLS", "USAGE">>],
          [tool |-> "trace_path", project |-> "p"]}

Snippets ==
    {[tool |-> "get_code_snippet", project |-> "p", qn |-> qn, neighbors |-> TRUE] :
        qn \in {<<"p", "x", "a", "m">>, <<"b">>, <<"aber">>, <<"none">>}}
    \cup {[tool |-> "get_code_snippet", project |-> "p"]}

CodeSearches ==
    {[tool |-> "search_code", project |-> "p", words |-> <<<<"a">>, <<"b">>>>, context |-> 1],
     [tool |-> "search_code", project |-> "p", words |-> <<<<"b">>>>, glob |-> <<"*", "g">>, show |-> "full"],
     [tool |-> "search_code", project |-> "p", regex |-> <<<<One("b")>>>>, show |-> "files"],
     [tool |-> "search_code", project |-> "p", words |-> <<<<"b">>>>, filter |-> <<<<One("s")>>>>]}

Others ==
    {[tool |-> "get_architecture", project |-> "p"],
     [tool |-> "get_architecture", project |-> "p", path |-> <<"b">>, aspects |-> <<"overview", "clusters">>],
     [tool |-> "get_architecture", project |-> "p", aspects |-> <<"everything">>],
     [tool |-> "get_graph_schema", project |-> "p"], [tool |-> "get_graph_schema", project |-> "q"],
     [tool |-> "index_status", project |-> "q"], [tool |-> "index_status", project |-> "u"],
     [tool |-> "index_status"], [tool |-> "detect_changes", project |-> "p"],
     [tool |-> "list_projects"], [tool |-> "ingest_traces", traces |-> 2],
     [tool |-> "index_repository", project |-> "p"],
     [tool |-> "delete_project", project |-> "p"], [tool |-> "delete_project", project |-> "q"],
     [tool |-> "manage_adr", project |-> "p", mode |-> "get"],
     [tool |-> "manage_adr", project |-> "q", mode |-> "sections"],
     [tool |-> "manage_adr", project |-> "p", mode |-> "update", content |-> <<Heading("PURPOSE"), PlainLine("a")>>]}

QueriesOf ==
    {[tool |-> "query_graph", project |-> p, text |-> <<"MATCH", "(", "x", ")", "RETURN", "x", ".", "name">>] : p \in {"p", "q"}}
    \cup {[tool |-> "query_graph", project |-> "p", text |-> <<"MERGE", "(", "x", ")">>]}

MCCalls == QueriesOf \cup Searches \cup Traces \cup Snippets \cup CodeSearches \cup Others
MCInterludes ==
    {r \in Others : r.tool \in {"index_repository", "delete_project", "index_status", "manage_adr"}}
    \cup {[tool |-> "query_graph", project |-> "q"]}
==============================================================================
