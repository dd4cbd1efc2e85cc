------------------------------ MODULE MCQueries ------------------------------
(* The questions of QueryMeaning, on every graph of three nodes.             *)
EXTENDS QueryMeaning

MCLetters   == <<"/", "b", "f", "m", "p", "s", "1", "2", "3">>
MCLower     == <<>>
MCLanguages == [c |-> "C"]
MCDirOrder  == <<"p">>
MCSource    == <<>>
MCGit       == [committed |-> {}, unstaged |-> {}, status |-> {}]
MCLegacy    == <<>>
MCWordsOf(name) == {}

Row(p, id, label, name, file) ==
    [project |-> p, label |-> label, name |-> name, qn |-> <<p, ToString(id)>>, file |-> file,
     from |-> id, to |-> id + 1, test |-> FALSE, ext |-> "c", props |-> <<>>]

Edge(src, type, tgt) ==
    [project |-> "p", src |-> src, tgt |-> tgt, type |-> type, local |-> "", props |-> <<>>]

Rows == <<Row("p", 1, "Class", <<"m">>, <<"f">>), Row("p", 2, "Function", <<"b">>, <<"f">>),
          Row("p", 3, "Class", <<"b">>, <<"f">>), Row("p", 4, "Route", <<"s">>, <<"f">>),
          Row("p", 5, "Function", <<"s">>, <<"s">>), Row("s", 6, "Function", <<"s">>, <<"s">>)>>

\* A label put right, a file and a label that went, another project that was
\* deleted, edges that were drawn anew: what is left are three nodes.
Indexed3(calls) ==
    LET files == UpsertProject(UpsertProject(EmptyDb, "p", "/p"), "s", "/s")
        first == UpsertNodeBatch(files, Rows)
        drawn == InsertEdgeBatch(first, <<Edge(2, "CALLS", 4), Edge(5, "CALLS", 1), Edge(1, "USAGE", 3)>>)
        again == UpsertNodeBatch(drawn, <<Row("p", 1, "Function", <<"m">>, <<"f">>)>>)
        kept  == DeleteNodesByLabel(DeleteNodesByFile(DeleteProject(again, "s"), "p", <<"s">>), "p", "Route")
    IN InsertEdgeBatch(DeleteEdgesByType(kept, "p", "CALLS"), [k \in DOMAIN calls |-> Edge(calls[k][1], "CALLS", calls[k][2])])

\* Every choice among the calls, with one other edge.
AllCalls == {<<1, 1>>, <<1, 2>>, <<2, 1>>, <<1, 3>>, <<2, 3>>, <<3, 1>>, <<3, 2>>}
MCStartDisks == {[p |-> Indexed3(AnyOrder(calls))] : calls \in SUBSET AllCalls}
MCVersions == <<>>
-----------------------------------------------------------------------------
Is(v, name)  == [kind |-> "is", var |-> v, name |-> name]
Not(c)       == [kind |-> "not", of |-> c]
Both(k, c, d) == [kind |-> k, left |-> c, right |-> d]

Conds == {Anything, Is("a", <<"m">>), Is("b", <<"b">>), Not(Is("a", <<"m">>)),
          Both("AND", Is("a", <<"m">>), Is("b", <<"b">>)), Both("OR", Not(Is("a", <<"m">>)), Is("b", <<"b">>))}

Pattern(from, to, arrow, far, cond) ==
    [from |-> from, to |-> to, arrow |-> arrow, far |-> far, cond |-> cond]

MCMeanings == {Pattern("Function", to, arrow, 1, c) : to \in {None, "Function"}, arrow \in {"in", "out"}, c \in Conds}
              \cup {Pattern(None, "Function", arrow, 2, c) : arrow \in {"in", "out"}, c \in Conds}

NegatedMeanings == {Pattern("Function", "Function", "out", 1, Not(Is("b", <<"b">>)))}

MCCalls == QueryCalls("p") \cup Questions("p")
NegatedCalls == QueryCalls("p")
==============================================================================
