---------------------------- MODULE GraphPasses -----------------------------
(***************************************************************************)
(* The passes over a whole graph, after the files are resolved and before  *)
(* the dump: pass_tests.c, pass_githistory.c, pass_enrichment.c,           *)
(* pass_configlink.c, route nodes, near clones, semantic edges with their  *)
(* racing workers, pass_complexity.c; in a full run and after one file was *)
(* extracted again.                                                        *)
(***************************************************************************)
EXTENDS SemanticEdges

CONSTANTS
    Project,
    Defs,        \* what extraction finds: sequence of [qn, label, file, props]
    Links,       \* edges extraction finds besides calls: <<qn, qn, type>>
    CallSets,    \* possible calls: sets of <<qn, qn>>
    Edited,      \* files that may be extracted again
    Log,         \* commits: sequences of the files each changed
    Modes,       \* subset of {"full", "moderate", "fast"}
    Workers,     \* workers of the scoring phase
    MaxRelated,  \* SEMANTICALLY_RELATED edges a function may have
    MinTogether, MaxFiles, Coupling,   \* thresholds of the change coupling
    TestFiles,   \* test files, to the file they test or NoFile
    TestNames,   \* names of test functions
    Untracked,   \* segments of paths the history leaves out
    Stopwords,   \* words that tag nothing
    ConfigExts, Manifests, Sections, ShortWords,
    MaxDepth     \* depth the complexity pass descends to

VARIABLES
    g, at,       \* the graph and the properties of its nodes
    mode,        \* index mode
    route,       \* "full" or "incremental"
    todo,        \* passes left
    cancelled,
    work         \* the scoring phase under way

vars == <<g, at, mode, route, todo, cancelled, work>>

Index(n) == [i \in 1 .. n |-> i]

\* What extraction and resolution leave of the given definitions.
Extracted(b, defs) == FoldLeft(LAMBDA x, d : UpsertNode(x, d.qn, d.label, d.file), b, defs)

Linked(b, links) ==
    FoldLeft(LAMBDA x, l : IF Has(x, l[1]) /\ Has(x, l[2]) THEN Rel(x, IdOf(x, l[1]), IdOf(x, l[2]), l[3]) ELSE x,
             b, links)

CallLinks(calls) == LET s == SetToSeq(calls) IN [i \in DOMAIN s |-> <<s[i][1], s[i][2], "CALLS">>]

PropsOf(defs) == [q \in {defs[i].qn : i \in DOMAIN defs} |->
                    defs[SelectLastInSeq(defs, LAMBDA d : d.qn = q)].props]

-----------------------------------------------------------------------------
(* Tests: pass_tests.c.                                                     *)

InTest(n, p) == Props(p, n.qn).test \/ n.file \in DOMAIN TestFiles

\* Any callee is under test, helpers of the tests too (mutant of TestEdges).
TestEdgesAny(b, p) ==
    FoldLeft(LAMBDA x, e : IF InTest(ById(b, e.src), p) /\ Last(ById(b, e.src).qn) \in TestNames
                           THEN Rel(x, e.src, e.tgt, "TESTS") ELSE x,
             b, EdgesOf(b, "CALLS"))

\* create_tests_edges.
TestEdges(b, p) ==
    LET tests(e) == LET s == ById(b, e.src) t == ById(b, e.tgt)
                    IN InTest(s, p) /\ ~InTest(t, p) /\ Last(s.qn) \in TestNames
    IN FoldLeft(LAMBDA x, e : IF tests(e) THEN Rel(x, e.src, e.tgt, "TESTS") ELSE x, b, EdgesOf(b, "CALLS"))

FileQn(f) == <<Project>> \o f \o <<"__file__">>

\* create_tests_file_edges.
TestFileEdges(b) ==
    LET edge(x, n) ==
          LET q == IF n.file \in DOMAIN TestFiles THEN FileQn(TestFiles[n.file]) ELSE NoFile
          IN IF Has(x, q) /\ IdOf(x, q) # n.id THEN Rel(x, n.id, IdOf(x, q), "TESTS_FILE") ELSE x
    IN FoldLeft(edge, b, ByLabel(b, "File"))

-----------------------------------------------------------------------------
(* History: pass_githistory.c.                                              *)

\* cbm_is_trackable_file.
Tracked(f) == ToSet(f) \cap Untracked = {}

\* parse_git_log: commits left with no file are none.
Commits == SelectSeq([i \in DOMAIN Log |-> SelectSeq(Log[i], Tracked)], LAMBDA c : c # <<>>)

Together(fs) == Cardinality({i \in DOMAIN Commits : Len(Commits[i]) <= MaxFiles /\ fs \subseteq ToSet(Commits[i])})

\* collect_coupling_cb: often together, and for the rarer of the two mostly so.
Coupled ==
    LET files == UNION {ToSet(c) : c \in ToSet(Commits)}
        rarer(fs) == Min({Together({f}) : f \in fs})
    IN {fs \in kSubset(2, files) : /\ Together(fs) >= MinTogether
                                   /\ 100 * Together(fs) >= Coupling * rarer(fs)}

\* cbm_pipeline_githistory_apply: the edges; a pair is ordered by name.
CoupledEdges(b) ==
    LET pairs == SetToSeq(Coupled)
        ends(i) == LET s == SetToSeq(pairs[i]) IN <<FileQn(s[1]), FileQn(s[2]), "FILE_CHANGES_WITH">>
    IN Linked(b, [i \in DOMAIN pairs |-> ends(i)])

\* The rest of it: the File nodes' properties are replaced.
Changes(b, p) ==
    LET changed == {f \in UNION {ToSet(c) : c \in ToSet(Commits)} : Has(b, FileQn(f)) /\ Together({f}) > 0}
        of(q) == CHOOSE f \in changed : FileQn(f) = q
        qs == {FileQn(f) : f \in changed}
    IN [q \in DOMAIN p \cup qs |-> IF q \in qs THEN [Blank EXCEPT !.changes = Together({of(q)})] ELSE p[q]]

-----------------------------------------------------------------------------
(* Tags and configuration: pass_enrichment.c, pass_configlink.c.            *)

\* cbm_tokenize_decorator and extract_decorator_words.
DecoratorWords(p, q) == ToSet(Concat(Props(p, q).decos)) \ Stopwords

Taggable(b) == ByLabel(b, "Function") \o ByLabel(b, "Method") \o ByLabel(b, "Class") \o ByLabel(b, "Struct")

\* cbm_pipeline_pass_decorator_tags: words on two nodes become tags; a node
\* that shares none keeps the tags it had.
Tagged(b, p) ==
    LET ns == Taggable(b)
        shared == {w \in UNION {DecoratorWords(p, ns[i].qn) : i \in DOMAIN ns} :
                     Cardinality({i \in DOMAIN ns : w \in DecoratorWords(p, ns[i].qn)}) >= 2}
        tags(q) == IF q \in {ns[i].qn : i \in DOMAIN ns} THEN DecoratorWords(p, q) \cap shared ELSE {}
    IN [q \in DOMAIN p |-> IF tags(q) = {} THEN p[q] ELSE [p[q] EXCEPT !.tags = tags(q)]]

IsConfig(n) == n.file # NoFile /\ ExtOf(Last(n.file)) \in ConfigExts

\* cbm_normalize_config_key.
Key(n) == LET w == Last(n.qn) IN IF w \in DOMAIN WordsOf THEN WordsOf[w] ELSE <<w>>

\* strategy_key_symbols: code named by a key of at least two long words.
KeyEdges(b) ==
    LET vars_ == SelectSeq(ByLabel(b, "Variable"),
                           LAMBDA n : IsConfig(n) /\ Len(Key(n)) >= 2 /\ ToSet(Key(n)) \cap ShortWords = {})
        code == SelectSeq(ByLabel(b, "Function") \o ByLabel(b, "Variable") \o ByLabel(b, "Class")
                            \o ByLabel(b, "Struct"), LAMBDA n : ~IsConfig(n))
        named(x, c, n) == IF Occurs(Key(c), Key(n)) THEN Rel(x, n.id, c.id, "CONFIGURES") ELSE x
    IN FoldLeft(LAMBDA x, c : FoldLeft(LAMBDA y, n : named(y, c, n), x, code), b, vars_)

\* strategy_dep_imports: who imports what a manifest names.
DependencyEdges(b) ==
    LET deps == SelectSeq(ByLabel(b, "Variable"),
                          LAMBDA n : n.file # NoFile /\ Last(n.file) \in Manifests /\ ToSet(n.qn) \cap Sections # {})
        uses(d, e) == Last(d.qn) \in ToSet(ById(b, e.tgt).qn)
        edge(x, d, e) == IF uses(d, e) THEN Rel(x, e.src, d.id, "CONFIGURES") ELSE x
    IN FoldLeft(LAMBDA x, d : FoldLeft(LAMBDA y, e : edge(y, d, e), x, EdgesOf(b, "IMPORTS")), b, deps)

\* cbm_pipeline_pass_configlink.
Configured(b) ==
    IF \E n \in ToSet(ByLabel(b, "Variable") \o ByLabel(b, "Module")) : IsConfig(n)
    THEN DependencyEdges(KeyEdges(b)) ELSE b

-----------------------------------------------------------------------------
(* Complexity: pass_complexity.c.                                           *)

\* tld_dfs: `memo' holds state (1 open, 2 done), depths and flags; the answer
\* is in its field val.
RECURSIVE Depth(_, _, _, _, _)
Depth(b, p, memo, i, depth) ==
    LET own == Props(p, ById(b, i).qn).loop
        callee(acc, e) ==
          IF e.tgt = i THEN [acc EXCEPT !.m.rec[i] = TRUE]
          ELSE LET m == Depth(b, p, acc.m, e.tgt, depth + 1)
               IN [m |-> m, best |-> Max({acc.best, m.val})]
        all == FoldLeft(callee, [m |-> [memo EXCEPT !.state[i] = 1], best |-> 0], EdgesFrom(b, i, "CALLS"))
    IN CASE memo.state[i] = 2 -> [memo EXCEPT !.val = memo.tld[i]]
         [] memo.state[i] = 1 -> [memo EXCEPT !.rec[i] = TRUE, !.val = 0]
         [] memo.state[i] = 0 /\ depth > MaxDepth -> [memo EXCEPT !.val = own]
         [] OTHER -> [all.m EXCEPT !.state[i] = 2, !.tld[i] = own + all.best, !.val = own + all.best]

\* Every function starts as one being visited (mutant of Seeded).
SeededOpen(b, p) ==
    LET ids == {b.nodes[i].id : i \in DOMAIN b.nodes}
    IN [state |-> [i \in ids |-> 1], tld |-> [i \in ids |-> 0], val |-> 0, rec |-> [i \in ids |-> FALSE]]

\* seed_loop_depths.
Seeded(b, p) ==
    LET ids == {b.nodes[i].id : i \in DOMAIN b.nodes}
    IN [state |-> [i \in ids |-> 0], tld |-> [i \in ids |-> 0], val |-> 0,
        rec |-> [i \in ids |-> Props(p, ById(b, i).qn).self]]

\* cbm_pipeline_pass_complexity.
Rated(b, p) ==
    LET fs == {n \in ToSet(Live(b)) : n.indexed \in {"Function", "Method"}}
        order == SetToSortSeq({n.id : n \in fs}, <)
        rate(acc, i) ==
          LET m == Depth(b, p, acc.memo, i, 0)
          IN [memo |-> m, at |-> [acc.at EXCEPT ![ById(b, i).qn] =
                                    [@ EXCEPT !.tld = m.tld[i], !.rec = m.rec[i], !.rated = TRUE]]]
    IN FoldLeft(rate, [memo |-> Seeded(b, p), at |-> p], order).at

-----------------------------------------------------------------------------
(* The runs.                                                                *)

Idle == [next |-> 0, size |-> 0, cands |-> <<>>, score |-> <<>>, counts |-> <<>>,
         row |-> [w \in Workers |-> 0], left |-> [w \in Workers |-> <<>>],
         pair |-> [w \in Workers |-> 0], found |-> [w \in Workers |-> <<>>]]

FullPasses == <<"tests", "history", "tags", "config", "routes", "similar", "related", "complexity", "dump">>

Start(calls) ==
    /\ g = Linked(Extracted(EmptyBuffer, Defs), Links \o CallLinks(calls))
    /\ at = PropsOf(Defs)

Init ==
    /\ \E calls \in CallSets : Start(calls)
    /\ mode \in Modes
    /\ route = "full" /\ todo = FullPasses /\ cancelled = FALSE /\ work = Idle

Pass(name) == todo # <<>> /\ Head(todo) = name /\ todo' = Tail(todo)

\* run_predump_passes and run_tests_and_history look at the flag between
\* passes; run_postpasses does not.
Goes == route = "incremental" \/ ~cancelled

Tests ==
    /\ Pass("tests")
    /\ g' = TestFileEdges(TestEdges(g, at))
    /\ UNCHANGED <<at, mode, route, cancelled, work>>

\* run_githistory: not in fast mode.
History ==
    /\ Pass("history") /\ Goes
    /\ g' = IF mode = "fast" THEN g ELSE CoupledEdges(g)
    /\ at' = IF mode = "fast" THEN at ELSE Changes(g, at)
    /\ UNCHANGED <<mode, route, cancelled, work>>

Tags ==
    /\ Pass("tags") /\ Goes
    /\ at' = Tagged(g, at)
    /\ UNCHANGED <<g, mode, route, cancelled, work>>

Config ==
    /\ Pass("config") /\ Goes
    /\ g' = Configured(g)
    /\ UNCHANGED <<at, mode, route, cancelled, work>>

RouteMatch ==
    /\ Pass("routes") /\ Goes
    /\ g' = WithRoutes(g, at)
    /\ UNCHANGED <<at, mode, route, cancelled, work>>

\* The two costly passes are left out in fast mode.
Moderate == mode # "fast"

Similar ==
    /\ Pass("similar") /\ Goes
    /\ g' = IF Moderate THEN WithSimilar(g, at) ELSE g
    /\ UNCHANGED <<at, mode, route, cancelled, work>>

SkipRelated ==
    /\ Pass("related") /\ Goes
    /\ ~Moderate \/ Len(Callables(g)) < 2
    /\ UNCHANGED <<g, at, mode, route, cancelled, work>>

\* Everything before the scoring: each function is a slice of its own.
PrepareRelated ==
    /\ todo # <<>> /\ Head(todo) = "related" /\ Goes /\ Moderate
    /\ Len(Callables(g)) >= 2 /\ work.size = 0
    /\ LET docs == Documents(g, at)
           vecs == Enriched(docs)
           n    == Len(docs)
           wvs  == Table([i \in 1 .. n |-> WordVector(docs, vecs, i)])
           sigs == Table([i \in 1 .. n |-> Signature(wvs[i])])
       IN work' = [Idle EXCEPT !.next = 1, !.size = n,
                               !.counts = [i \in 1 .. n |-> 0],
                               !.cands = [i \in 1 .. n |-> Later(sigs, i)],
                               !.score = [i \in 1 .. n |-> [j \in 1 .. n |->
                                 IF i < j THEN Score(g, at, docs, wvs, i, j) ELSE 0]]]
    /\ UNCHANGED <<g, at, mode, route, todo, cancelled>>

\* score_worker takes the next function, unless that one is full already.
TakeRow(w) ==
    /\ work.size > 0 /\ work.row[w] = 0 /\ work.next <= work.size
    /\ work' = IF work.counts[work.next] >= MaxRelated THEN [work EXCEPT !.next = @ + 1]
               ELSE [work EXCEPT !.next = @ + 1, !.row[w] = work.next,
                                 !.left[w] = work.cands[work.next]]
    /\ UNCHANGED <<g, at, mode, route, todo, cancelled>>

\* The candidate's own count is not looked at (mutant of Free).
FreeOwn(i, j) == work.counts[i] < MaxRelated

Free(i, j) == work.counts[i] < MaxRelated /\ work.counts[j] < MaxRelated

\* score_try_emit up to the push: the counts are read, nothing is reserved.
Look(w) ==
    /\ work.row[w] # 0 /\ work.left[w] # <<>> /\ work.pair[w] = 0
    /\ LET i == work.row[w]
           j == Head(work.left[w])
           n == Callables(g)
           ok == Free(i, j) /\ SameExt(n[i], n[j]) /\ work.score[i][j] >= Threshold
       IN work' = [work EXCEPT !.left[w] = Tail(@), !.pair[w] = IF ok THEN j ELSE 0]
    /\ UNCHANGED <<g, at, mode, route, todo, cancelled>>

Emit(w) ==
    /\ work.pair[w] # 0
    /\ LET i == work.row[w]
           j == work.pair[w]
       IN work' = [work EXCEPT !.found[w] = Append(@, <<i, j>>), !.pair[w] = 0,
                               !.counts[i] = @ + 1, !.counts[j] = @ + 1]
    /\ UNCHANGED <<g, at, mode, route, todo, cancelled>>

EndRow(w) ==
    /\ work.row[w] # 0 /\ work.left[w] = <<>> /\ work.pair[w] = 0
    /\ work' = [work EXCEPT !.row[w] = 0]
    /\ UNCHANGED <<g, at, mode, route, todo, cancelled>>

\* phase6b_merge_edges, after the workers are joined.
MergeRelated ==
    /\ Pass("related") /\ work.size > 0 /\ work.next > work.size
    /\ \A w \in Workers : work.row[w] = 0
    /\ LET n == Callables(g)
           add(x, p) == Rel(x, n[p[1]].id, n[p[2]].id, "SEMANTICALLY_RELATED")
           all == Concat([w \in DOMAIN SetToSeq(Workers) |-> work.found[SetToSeq(Workers)[w]]])
       IN g' = FoldLeft(add, g, all)
    /\ work' = Idle
    /\ UNCHANGED <<at, mode, route, cancelled>>

Complexity ==
    /\ Pass("complexity") /\ Goes
    /\ at' = Rated(g, at)
    /\ UNCHANGED <<g, mode, route, cancelled, work>>

\* The dump, after which the buffer is gone: the graph is read back.
DumpGraph ==
    /\ Pass("dump") /\ Goes
    /\ g' = Load(Dump(g))
    /\ UNCHANGED <<at, mode, route, cancelled, work>>

Cancel ==
    /\ todo # <<>> /\ route = "full" /\ ~cancelled
    /\ cancelled' = TRUE
    /\ UNCHANGED <<g, at, mode, route, todo, work>>

Abandon ==
    /\ route = "full" /\ cancelled /\ todo # <<>> /\ Head(todo) # "tests" /\ work.size = 0
    /\ todo' = <<>>
    /\ UNCHANGED <<g, at, mode, route, cancelled, work>>

-----------------------------------------------------------------------------
(* A file is extracted again: pipeline_incremental.c.                       *)

Recomputed == {"SIMILAR_TO", "SEMANTICALLY_RELATED", "FILE_CHANGES_WITH", "DATA_FLOWS"}

\* incr_capture_inbound_edge.
Inbound(b, f) == SelectSeq(b.edges, LAMBDA e : /\ e.type \notin Recomputed /\ ById(b, e.tgt).file = f
                                               /\ ById(b, e.src).file \notin {f, NoFile})

Reindex(f, calls) ==
    LET defs  == SelectSeq(Defs, LAMBDA d : d.file = f)
        mine  == {defs[i].qn : i \in DOMAIN defs}
        kept  == [i \in DOMAIN Inbound(g, f) |-> LET e == Inbound(g, f)[i]
                                                 IN <<ById(g, e.src).qn, ById(g, e.tgt).qn, e.type>>]
        own   == SelectSeq(Links \o CallLinks(calls), LAMBDA l : l[1] \in mine)
    IN /\ todo = <<>> /\ route = "full" /\ ~cancelled
       /\ g' = Linked(Linked(Extracted(DeleteByFile(g, f), defs), own), kept)
       /\ at' = [q \in DOMAIN at |-> IF q \in mine THEN PropsOf(defs)[q] ELSE at[q]]
       /\ route' = "incremental"
       /\ todo' = <<"tests", "tags", "config", "similar", "related", "dump">>
       /\ UNCHANGED <<mode, cancelled, work>>

Next ==
    \/ Tests \/ History \/ Tags \/ Config \/ RouteMatch \/ Similar \/ SkipRelated \/ PrepareRelated
    \/ \E w \in Workers : TakeRow(w) \/ Look(w) \/ Emit(w) \/ EndRow(w)
    \/ MergeRelated \/ Complexity \/ DumpGraph \/ Cancel \/ Abandon
    \/ \E f \in Edited, calls \in CallSets : Reindex(f, calls)

Spec == Init /\ [][Next]_vars

-----------------------------------------------------------------------------
(* Properties.                                                              *)

Done == todo = <<>> /\ ~cancelled
Callees(b, i) == {e.tgt : e \in ToSet(EdgesFrom(b, i, "CALLS"))}

\* The buffers are well formed and every edge has both its ends.
TypeOK ==
    /\ mode \in Modes /\ route \in {"full", "incremental"} /\ cancelled \in BOOLEAN
    /\ DOMAIN PropsOf(Defs) \subseteq DOMAIN at
    /\ LET ids == {n.id : n \in ToSet(Live(g))}
       IN \A e \in ToSet(g.edges) : e.src \in ids /\ e.tgt \in ids

\* What a test is said to test it calls, and is no test itself, also after
\* one of the two files was extracted again: the edges of the other end are
\* carried over while the calls may have gone (create_tests_edges,
\* incr_restore_inbound_edges).
TestsMirrorCalls ==
    Done => \A e \in ToSet(EdgesOf(g, "TESTS")) :
              /\ e.tgt \in Callees(g, e.src)
              /\ InTest(ById(g, e.src), at) /\ ~InTest(ById(g, e.tgt), at)

\* Data flows only between two that meet at a route and do not call each
\* other directly (create_data_flows, which runs amid the passes that go on
\* adding routes and handlers).
FlowsAreJustified ==
    Done => \A e \in ToSet(EdgesOf(g, "DATA_FLOWS")) :
              /\ e.src # e.tgt
              /\ route = "full" => e.tgt \notin Callees(g, e.src)
              /\ route = "full" =>
                   \E r \in ToSet(Routes(g)) : /\ e.src \in {c.src : c \in ToSet(CallersOf(g, r))}
                                               /\ e.tgt \in {h.src : h \in ToSet(HandlersOf(g, r))}

Reached(b, i) == LET step(S) == S \cup UNION {Callees(b, k) : k \in S}
                 IN step(step(step(step(Callees(b, i)))))
OnCycle(b, i) == i \in Reached(b, i)

\* Each cycle of calls has a function marked recursive, only functions on
\* cycles are, and a function that reaches no cycle is rated one more loop
\* nest than the worst of its callees (tld_dfs with its memo, over the ids in
\* ascending order).
CyclesAreFlagged ==
    Done /\ route = "full" =>
      \A n \in ToSet(Callables(g)) :
        LET i == n.id
            p == at[n.qn]
            ring == {m \in ToSet(Callables(g)) : m.id \in Reached(g, i) /\ i \in Reached(g, m.id)}
        IN /\ OnCycle(g, i) => \E m \in ring : at[m.qn].rec
           /\ p.rec => OnCycle(g, i) \/ p.self
           /\ (\A k \in Reached(g, i) \cup {i} : ~OnCycle(g, k)) =>
                p.tld = p.loop + Max({0} \cup {at[ById(g, k).qn].tld : k \in Callees(g, i)})

RelatedOf(b, i) == {e \in ToSet(EdgesOf(b, "SEMANTICALLY_RELATED")) : i \in {e.src, e.tgt}}

\* A full run leaves no function with more relations than the cap and one
\* for each further worker: the counts are read before the edge is pushed and
\* raised after (score_try_emit).
RelatedWithinRace ==
    route = "full" => \A n \in ToSet(Callables(g)) :
                        Cardinality(RelatedOf(g, n.id)) <= MaxRelated + Cardinality(Workers) - 1

\* Two functions are near clones or related, never both: the score of what
\* SIMILAR_TO covers is cut short, in another pass with the threshold of this
\* one, and over what an earlier run left (cbm_sem_combined_score).
ClonesAreNotRelated ==
    Done => {{e.src, e.tgt} : e \in ToSet(EdgesOf(g, "SIMILAR_TO"))}
              \cap {{e.src, e.tgt} : e \in ToSet(EdgesOf(g, "SEMANTICALLY_RELATED"))} = {}

\* `Sparse TF-IDF: stored as parallel arrays of (token_index, weight)'
\* (semantic.h:131): two functions with no word of weight in common have
\* nothing in common there.
SparseComparesWords ==
    LET docs == Documents(g, at)
        words(d) == {w \in ToSet(docs[d]) : Idf(docs, w) > 0}
    IN \A i, j \in DOMAIN docs : words(i) \cap words(j) = {} => Cosine(Sparse(docs, i), Sparse(docs, j)) = 0

\* `estimate a worst-case transitive nested-loop degree ... (an upper bound)'
\* (pass_complexity.c:6-9): a function is rated no lower than its own loops
\* and those of a function it calls.
RatingIsUpperBound ==
    Done /\ route = "full" =>
      \A n \in ToSet(Callables(g)) : \A k \in Callees(g, n.id) :
        k # n.id => at[n.qn].tld >= at[n.qn].loop + at[ById(g, k).qn].loop

=============================================================================
