--------------------------- MODULE SemanticEdges ----------------------------
(***************************************************************************)
(* What makes two functions alike: semantic.c, the signals of              *)
(* pass_semantic_edges.c, and the MinHash index of minhash.c.              *)
(*                                                                         *)
(* Words are atoms; the random vector of a word is a dimension of its own, *)
(* which is what random indexing approximates.  Weights are integers and   *)
(* cosines are percentages, rounded down.                                  *)
(***************************************************************************)
EXTENDS RouteNodes, Integers

CONSTANTS
    WordsOf,     \* names and path segments of several words, to those words
    Expansion,   \* abbreviations, to what they stand for
    BodyHints, CalleeHints, NameHints,   \* words a text of that kind implies
    MaxTokens,   \* tokens kept of a function
    MaxCallees,  \* callees and callers looked at
    Window,      \* half-width of the co-occurrence window
    Scale,       \* a multiple of every distance within the window
    Planes,      \* hyperplanes: sequence of [words -> signs]
    Rows,        \* signature bits, or fingerprint values, of a band
    MaxBucket,   \* a fuller bucket is not looked into
    ExtOf(_),    \* the extension in the last segment of a path
    Threshold,   \* least score of a SEMANTICALLY_RELATED edge
    Jaccard,     \* least agreement of a SIMILAR_TO edge
    MaxSimilar   \* SIMILAR_TO edges a function may start

Concat(ss) == FoldLeft(\o, <<>>, ss)
SumOf(S, f(_)) == FoldSet(LAMBDA x, n : n + f(x), 0, S)
Keep(s, n) == SubSeq(s, 1, Min({n, Len(s)}))

\* The function itself, written out.
Table(f) == f @@ <<>>

-----------------------------------------------------------------------------
(* The words of a function.                                                 *)

\* cbm_sem_tokenize: the words, then what the abbreviations among them stand for.
Tokenize(segments) ==
    LET words(s) == IF s \in DOMAIN WordsOf THEN WordsOf[s] ELSE <<s>>
        all == Concat([i \in DOMAIN segments |-> words(segments[i])])
        short == SelectSeq(all, LAMBDA w : w \in DOMAIN Expansion)
    IN all \o [i \in DOMAIN short |-> Expansion[short[i]]]

Neighbours(g, i, out) ==
    LET es == IF out THEN EdgesFrom(g, i, "CALLS") ELSE EdgesInto(g, i, "CALLS")
        name(e) == Last(ById(g, IF out THEN e.tgt ELSE e.src).qn)
    IN [k \in DOMAIN Keep(es, MaxCallees) |-> name(es[k])]

\* tokenize_node.
NodeTokens(g, at, n) ==
    LET p == Props(at, n.qn)
        names(out) == LET ns == Neighbours(g, n.id, out)
                      IN Concat([k \in DOMAIN ns |-> Tokenize(<<ns[k]>>)])
    IN Tokenize(<<Last(n.qn)>>) \o Tokenize(n.qn) \o Tokenize(n.file)
         \o Tokenize(p.text) \o Tokenize(p.types) \o Tokenize(Concat(p.decos)) \o Tokenize(p.body)
         \o names(TRUE) \o names(FALSE)

Implied(hints, names) ==
    LET known == SelectSeq(names, LAMBDA w : w \in DOMAIN hints)
    IN Concat([i \in DOMAIN known |-> hints[known[i]]])

\* inject_pattern_tokens.  Decorators add nothing: they are looked up as a
\* string, and stored as an array.
PatternTokens(g, at, n) ==
    LET callees == LET es == EdgesFrom(g, n.id, "CALLS")
                   IN [k \in DOMAIN es |-> Last(ById(g, es[k].tgt).qn)]
    IN Implied(BodyHints, Props(at, n.qn).body) \o Implied(CalleeHints, callees)
         \o Implied(NameHints, <<Last(n.qn)>>)

\* tokenize_worker: each function writes its own slice.
Document(g, at, n) == Keep(NodeTokens(g, at, n) \o PatternTokens(g, at, n), MaxTokens)

Documents(g, at) ==
    LET fs == Callables(g) IN Table([i \in DOMAIN fs |-> Document(g, at, fs[i])])

-----------------------------------------------------------------------------
(* The corpus.                                                              *)

Vocabulary(docs) == UNION {ToSet(docs[d]) : d \in DOMAIN docs}

DocFreq(docs, w) == Cardinality({d \in DOMAIN docs : w \in ToSet(docs[d])})

\* log(documents / frequency): zero for a word of every document, larger for
\* a rarer one.
Idf(docs, w) == Len(docs) - DocFreq(docs, w)

Length2(v) == SumOf(DOMAIN v, LAMBDA w : v[w] * v[w])
Dot(u, v)  == SumOf(DOMAIN u \cap DOMAIN v, LAMBDA w : u[w] * v[w])

RECURSIVE RootIn(_, _, _)
RootIn(n, lo, hi) ==
    IF hi - lo <= 1 THEN lo
    ELSE LET m == (lo + hi) \div 2 IN IF m * m <= n THEN RootIn(n, m, hi) ELSE RootIn(n, lo, m)
Root(n) == RootIn(n, 0, Min({n, 30000}) + 1)

\* cbm_sem_normalize and the quantisation to a byte: the length becomes 127.
Normal(u) ==
    LET v == Table(u)
        l == Root(Length2(v))
    IN IF l = 0 THEN v ELSE Table([w \in DOMAIN v |-> (127 * v[w]) \div l])

\* cbm_sem_cosine.
Cosine(u, v) ==
    LET l == Root(Length2(u)) * Root(Length2(v))
    IN IF l = 0 THEN 0 ELSE Min({100, (100 * Dot(u, v)) \div l})

\* build_reverse_index: where a word occurs.
Occurrences(docs, w) == {<<d, i>> \in (DOMAIN docs) \X (1 .. MaxTokens) :
                           i \in DOMAIN docs[d] /\ docs[d][i] = w}

\* cooccur_*_one_target: the vectors around every occurrence, by distance.
Context(docs, V, vec, w) ==
    LET near == {<<o, k>> \in Occurrences(docs, w) \X (-Window .. Window) :
                   k # 0 /\ o[2] + k \in DOMAIN docs[o[1]]}
        share(k) == Scale \div (IF k < 0 THEN -k ELSE k)
        add(v, p) == LET u == vec[docs[p[1][1]][p[1][2] + p[2]]]
                     IN [x \in V |-> v[x] + share(p[2]) * u[x]]
    IN FoldSet(LAMBDA p, v : Table(add(v, p)), [x \in V |-> 0], near)

Unit(V) == Table([w \in V |-> Table([x \in V |-> IF x = w THEN 1 ELSE 0])])

Mixed(V, a, u, b, v) == Table([w \in V |-> Normal([x \in V |-> a * u[w][x] + b * v[w][x]])])

\* cbm_sem_corpus_finalize: a word and its context, then the same over those,
\* blended 7 to 3.
Enriched(docs) ==
    LET V   == Vocabulary(docs)
        around(vec) == Table([w \in V |-> Context(docs, V, vec, w)])
        one == Mixed(V, Scale, Unit(V), 1, around(Unit(V)))
        two == Mixed(V, 0, one, 1, around(one))
    IN Mixed(V, 7, one, 3, two)

-----------------------------------------------------------------------------
(* The signals and the score.                                               *)

\* The sparse TF-IDF vector is indexed by the token's place in its own
\* document, not by its number in the vocabulary.
Sparse(docs, d) ==
    LET telling == {t \in DOMAIN docs[d] : Idf(docs, docs[d][t]) > 0}
    IN [t \in telling |-> Idf(docs, docs[d][t])]

\* The sum of a document's token vectors, weighted.
WordVector(docs, vecs, d) ==
    LET V == Vocabulary(docs)
        add(v, w) == [x \in V |-> v[x] + Idf(docs, w) * vecs[w][x]]
    IN Normal(FoldLeft(LAMBDA v, w : Table(add(v, w)), [x \in V |-> 0], docs[d]))

NameVector(names) == [x \in ToSet(names) |-> Cardinality({i \in DOMAIN names : names[i] = x})]

\* The share of values two fingerprints agree in.
Agreement(p, q) == (100 * Cardinality({i \in DOMAIN p : p[i] = q[i]})) \div Len(p)

\* One percent more for every tenth of the deeper path that is shared.
Proximity(f, h) ==
    LET deep == Max({Len(f), Len(h)}) - 1
        shared == Len(LongestCommonPrefix({Front(f), Front(h)}))
    IN 100 + (IF deep = 0 THEN 0 ELSE (10 * shared) \div deep)

Fingerprinted(p, q) == p.fp # <<>> /\ q.fp # <<>>

\* Near clones score like any other two (mutant of Clones).
ClonesNever(p, q) == FALSE

Clones(p, q) == Fingerprinted(p, q) /\ Agreement(p.fp, q.fp) >= Jaccard

\* cbm_sem_combined_score; what SIMILAR_TO says already scores nothing.
Score(g, at, docs, wvs, i, j) ==
    LET fs == Callables(g)
        p  == Props(at, fs[i].qn)
        q  == Props(at, fs[j].qn)
        signals == 20 * Cosine(Sparse(docs, i), Sparse(docs, j))
                 + 25 * Cosine(wvs[i], wvs[j])
                 + (IF Fingerprinted(p, q) THEN 10 * Agreement(p.fp, q.fp) ELSE 0)
                 + 15 * Cosine(NameVector(Neighbours(g, fs[i].id, TRUE)), NameVector(Neighbours(g, fs[j].id, TRUE)))
                 + 10 * Cosine(NameVector(p.types), NameVector(q.types))
                 + 5  * Cosine(NameVector(Concat(p.decos)), NameVector(Concat(q.decos)))
                 + 10 * Cosine(NameVector(p.shape), NameVector(q.shape))
    IN IF Clones(p, q) THEN 0
       ELSE Min({100, (signals * Proximity(fs[i].file, fs[j].file)) \div 10000})

-----------------------------------------------------------------------------
(* Candidates.                                                              *)

\* The values of one band.
Band(s, b) == SubSeq(s, b * Rows + 1, (b + 1) * Rows)

\* sig_build_worker.
Signature(vec) == [h \in DOMAIN Planes |-> IF Dot(vec, Planes[h]) > 0 THEN 1 ELSE 0]

\* Those that share a bucket of some band with i, in band and bucket order,
\* buckets that are too full left out.
Sharing(sigs, i) ==
    LET bucket(b) == SelectSeq([k \in DOMAIN sigs |-> k], LAMBDA k : Band(sigs[k], b) = Band(sigs[i], b))
        bands == [b \in 1 .. Len(sigs[i]) \div Rows |-> IF Len(bucket(b - 1)) > MaxBucket THEN <<>> ELSE bucket(b - 1)]
        add(s, k) == IF k \in ToSet(s) THEN s ELSE Append(s, k)
    IN FoldLeft(add, <<>>, Concat(bands))

\* score_collect_candidates: the later ones only.
Later(sigs, i) == SelectSeq(Sharing(sigs, i), LAMBDA j : j > i)

SameExt(n, m) == ExtOf(Last(n.file)) = ExtOf(Last(m.file))

-----------------------------------------------------------------------------
(* Near clones: pass_similarity.c.                                          *)

\* collect_fp_entries.
Printed(g, at) == SelectSeq(Callables(g), LAMBDA n : Props(at, n.qn).fp # <<>>)

\* sim_query_worker: only the function that starts the edges counts them, so
\* the workers do not affect each other.
SimilarTo(g, at, i) ==
    LET ns == Printed(g, at)
        prints == [k \in DOMAIN ns |-> Props(at, ns[k].qn).fp]
        alike(k) == /\ ns[i].id < ns[k].id /\ SameExt(ns[i], ns[k])
                    /\ Agreement(prints[i], prints[k]) >= Jaccard
    IN Keep(SelectSeq(Sharing(prints, i), alike), MaxSimilar)

\* cbm_pipeline_pass_similarity.
WithSimilar(g, at) ==
    LET ns == Printed(g, at)
        from(b, i) == FoldLeft(LAMBDA x, k : Rel(x, ns[i].id, ns[k].id, "SIMILAR_TO"), b, SimilarTo(g, at, i))
    IN IF Len(ns) < 2 THEN g ELSE FoldLeft(from, g, [i \in DOMAIN ns |-> i])

=============================================================================
