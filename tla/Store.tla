------------------------------- MODULE Store -------------------------------
(***************************************************************************)
(* store.c: the tables of one project database and what the tools ask of   *)
(* them.  A database is a value: its rows, and the next row id, which is   *)
(* never given out twice.  The operators below are its statements; SQLite  *)
(* itself (LIKE, regular expressions, foreign keys) is external.           *)
(*                                                                         *)
(* A name and a path are sequences of characters, a qualified name is a    *)
(* sequence of segments.  A pattern is what the regular expressions of a   *)
(* search come to: alternatives, each a sequence of atoms with a set of    *)
(* characters and a quantifier, which Text writes out.                     *)
(***************************************************************************)
EXTENDS Ordering, SequencesExt, FiniteSetsExt

CONSTANTS
    Letters,        \* the characters of names, in collating order
    LowerOf,        \* capital letters, to their small ones
    MinHint,        \* ST_GLOB_MIN_LEN
    DefaultLimit    \* CBM_DEFAULT_SEARCH_LIMIT

None == "none"

-----------------------------------------------------------------------------
(* Rows.                                                                    *)

EmptyDb == [projects |-> <<>>, nodes |-> {}, edges |-> {}, hashes |-> <<>>,
            summaries |-> <<>>, nextId |-> 1]

UpsertProject(db, p, root) == [db EXCEPT !.projects = (p :> root) @@ @]

\* ON DELETE CASCADE; the summaries have no foreign key.
DeleteNodes(db, gone) ==
    [db EXCEPT !.nodes = @ \ gone,
               !.edges = {e \in @ : \A n \in gone : n.id \notin {e.src, e.tgt}}]

DeleteProject(db, p) ==
    [DeleteNodes(db, {n \in db.nodes : n.project = p})
        EXCEPT !.projects = Restrict(@, DOMAIN @ \ {p}), !.hashes = Restrict(@, DOMAIN @ \ {p})]

DeleteNodesByFile(db, p, f) ==
    DeleteNodes(db, {n \in db.nodes : n.project = p /\ n.file = f})
DeleteNodesByLabel(db, p, l) ==
    DeleteNodes(db, {n \in db.nodes : n.project = p /\ n.label = l})

\* UNIQUE(project, qualified_name): a conflict updates the row and keeps its id.
UpsertNode(db, n) ==
    LET old == {m \in db.nodes : m.project = n.project /\ m.qn = n.qn}
        id  == IF old = {} THEN db.nextId ELSE (CHOOSE m \in old : TRUE).id
    IN IF n.project \notin DOMAIN db.projects THEN db
       ELSE [db EXCEPT !.nodes = (@ \ old) \cup {("id" :> id) @@ n},
                       !.nextId = IF old = {} THEN @ + 1 ELSE @]

NodesOf(db, p)      == {n \in db.nodes : n.project = p}
FindNodeById(db, i) == {n \in db.nodes : n.id = i}
FindNodeByQn(db, p, q) == {n \in NodesOf(db, p) : n.qn = q}
FindNodesByName(db, p, name) == {n \in NodesOf(db, p) : n.name = name}
FindNodesByLabel(db, p, l)   == {n \in NodesOf(db, p) : n.label = l}
FindNodesByFile(db, p, f)    == {n \in NodesOf(db, p) : n.file = f}

\* The name itself, or what ends in a dot and the name; any project if None.
FindNodesByQnSuffix(db, p, s) ==
    {n \in db.nodes : (p = None \/ n.project = p) /\ IsSuffix(s, n.qn)}

ListFiles(db, p) == {n.file : n \in NodesOf(db, p)} \ {<<>>}

\* A batch is one transaction: the first row that fails takes all back.
UpsertNodeBatch(db, ns) ==
    IF \E i \in DOMAIN ns : ns[i].project \notin DOMAIN db.projects THEN db
    ELSE FoldLeft(UpsertNode, db, ns)

HasEnds(db, e) == /\ e.project \in DOMAIN db.projects
                  /\ {e.src, e.tgt} \subseteq {n.id : n \in db.nodes}

\* Two imports differ by the name they bind; a conflict patches properties.
Clash(d, e) == /\ d.src = e.src /\ d.tgt = e.tgt /\ d.type = e.type
               /\ d.type = "IMPORTS" => d.local = e.local

InsertEdge(db, e) ==
    LET old == {d \in db.edges : Clash(d, e)}
    IN IF ~HasEnds(db, e) THEN db
       ELSE IF old = {} THEN [db EXCEPT !.edges = @ \cup {e}]
       ELSE [db EXCEPT !.edges = (@ \ old) \cup {[d EXCEPT !.props = e.props @@ @] : d \in old}]

InsertEdgeBatch(db, es) ==
    IF \E i \in DOMAIN es : ~HasEnds(db, es[i]) THEN db ELSE FoldLeft(InsertEdge, db, es)

EdgesBySource(db, i, type) == {e \in db.edges : e.src = i /\ type \in {e.type, None}}
EdgesByTarget(db, i, type) == {e \in db.edges : e.tgt = i /\ type \in {e.type, None}}
EdgesByType(db, p, type)   == {e \in db.edges : e.project = p /\ e.type = type}
DeleteEdgesByType(db, p, type) == [db EXCEPT !.edges = @ \ EdgesByType(db, p, type)]

\* Degrees over every type, or one.
InDegree(db, i, type)  == Cardinality(EdgesByTarget(db, i, type))
OutDegree(db, i, type) == Cardinality(EdgesBySource(db, i, type))

-----------------------------------------------------------------------------
(* Names.                                                                   *)

Rank(c) == CHOOSE k \in DOMAIN Letters : Letters[k] = c

\* The byte order of names.
Before(s, t) ==
    \E k \in 1 .. Len(s) + 1 :
        /\ k <= Len(t) /\ SubSeq(s, 1, k - 1) = SubSeq(t, 1, k - 1)
        /\ k <= Len(s) => Rank(s[k]) < Rank(t[k])

\* ORDER BY name, ties by row id.
ByName(rows) ==
    Sorted(rows, LAMBDA m, n : Before(m.name, n.name) \/ (m.name = n.name /\ m.id < n.id))

Calling == {"CALLS", "HTTP_CALLS", "ASYNC_CALLS"}

\* The first names, sorted, of those that call a node, and of those it calls.
NeighborNames(db, ids, limit) ==
    LET names == {n.name : n \in {m \in db.nodes : m.id \in ids}}
    IN Take(Sorted(names, Before), limit)
Callers(db, i, limit) ==
    NeighborNames(db, {e.src : e \in {e \in EdgesByTarget(db, i, None) : e.type \in Calling}}, limit)
CalleesOf(db, i, limit) ==
    NeighborNames(db, {e.tgt : e \in {e \in EdgesBySource(db, i, None) : e.type \in Calling}}, limit)

-----------------------------------------------------------------------------
(* Patterns.                                                                *)

Lower(s) == [k \in DOMAIN s |-> IF s[k] \in DOMAIN LowerOf THEN LowerOf[s[k]] ELSE s[k]]

\* x LIKE p: '%' stands for any run, '_' for one character, in either case.
Like(p, s) ==
    LET pat  == Lower(p)
        text == Lower(s)
        from[i \in 1 .. Len(pat) + 1, j \in 1 .. Len(text) + 1] ==
            IF i > Len(pat) THEN j > Len(text)
            ELSE IF pat[i] = "%" THEN \E k \in j .. Len(text) + 1 : from[i + 1, k]
            ELSE j <= Len(text) /\ pat[i] \in {"_", text[j]} /\ from[i + 1, j + 1]
    IN from[1, 1]

\* "**" and the slashes around it and "*" become '%', "?" becomes '_'.
GlobToLike(g) ==
    LET at(k, c) == k <= Len(g) /\ g[k] = c
        from[k \in 1 .. Len(g) + 1] ==
            IF k > Len(g) THEN <<>>
            ELSE IF at(k, "*") /\ at(k + 1, "*")
            THEN <<"%">> \o from[IF at(k + 2, "/") THEN k + 3 ELSE k + 2]
            ELSE IF at(k, "/") /\ at(k + 1, "*") /\ at(k + 2, "*") THEN from[k + 1]
            ELSE <<CASE g[k] = "*" -> "%" [] g[k] = "?" -> "_" [] OTHER -> g[k]>> \o from[k + 1]
    IN from[1]

\* Does an atom sequence match s from position j?  (The library's regexec.)
MatchAt(atoms, s, j) ==
    LET from[i \in 1 .. Len(atoms) + 1, k \in 1 .. Len(s) + 1] ==
            LET here(n) == k <= Len(s) /\ s[k] \in atoms[i].cs /\ from[n, k + 1]
            IN IF i > Len(atoms) THEN TRUE
               ELSE CASE atoms[i].q = "one"  -> here(i + 1)
                      [] atoms[i].q = "opt"  -> here(i + 1) \/ from[i + 1, k]
                      [] atoms[i].q = "star" -> from[i + 1, k] \/ here(i)
    IN from[1, j]

Matches(pat, s, exact) ==
    LET low(atoms) == [k \in DOMAIN atoms |-> [atoms[k] EXCEPT !.cs = {Lower(<<c>>)[1] : c \in @}]]
    IN \E k \in DOMAIN pat, j \in 1 .. Len(s) + 1 :
          IF exact THEN MatchAt(pat[k], s, j) ELSE MatchAt(low(pat[k]), Lower(s), j)

\* The characters of a pattern: a letter, a set in brackets, or a dot for all.
AtomText(a) ==
    LET body == IF Cardinality(a.cs) = 1 THEN <<CHOOSE c \in a.cs : TRUE>>
                ELSE IF a.cs = Range(Letters) THEN <<".">>
                ELSE <<"[">> \o Sorted(a.cs, LAMBDA c, d : Rank(c) < Rank(d)) \o <<"]">>
    IN body \o (CASE a.q = "one" -> <<>> [] a.q = "opt" -> <<"?">> [] a.q = "star" -> <<"*">>)
Text(pat) ==
    LET alt(k) == FlattenSeq([i \in DOMAIN pat[k] |-> AtomText(pat[k][i])])
    IN FlattenSeq([k \in DOMAIN pat |-> IF k = 1 THEN alt(1) ELSE <<"|">> \o alt(k)])

Meta == {".", "*", "+", "?", "^", "$", "(", ")", "[", "]", "{", "}"}

\* The runs of ordinary characters that are long enough.
ExtractLikeHints(text) ==
    LET step(acc, c) ==
            IF c \notin Meta THEN [acc EXCEPT !.buf = Append(@, c)]
            ELSE [out |-> IF Len(acc.buf) >= MinHint THEN Append(acc.out, acc.buf) ELSE acc.out,
                  buf |-> <<>>]
    IN IF "|" \in Range(text) THEN <<>>
       ELSE FoldLeft(step, [out |-> <<>>, buf |-> <<>>], Append(text, ".")).out

WhereLikeHints(pat, s) ==
    LET hints == ExtractLikeHints(Text(pat))
    IN \A k \in DOMAIN hints : Like(<<"%">> \o hints[k] \o <<"%">>, s)

-----------------------------------------------------------------------------
(* cbm_store_search.                                                        *)

Weighed == {"CALLS", "USAGE", "INHERITS", "IMPLEMENTS"}
DegreeIn(db, n)  == Cardinality({e \in EdgesByTarget(db, n.id, None) : e.type \in Weighed})
DegreeOut(db, n) == Cardinality({e \in EdgesBySource(db, n.id, None) : e.type \in Weighed})

\* Without a wildcard a path pattern may stand anywhere in the path.
FileLike(glob) == IF Range(glob) \cap {"*", "?"} # {} THEN GlobToLike(glob)
                  ELSE <<"%">> \o GlobToLike(glob) \o <<"%">>

WhereBasic(q, n) ==
    /\ q.project \in {None, n.project}
    /\ q.label \in {None, "", n.label}
    /\ q.pattern # <<>> => WhereLikeHints(q.pattern, n.name) /\ Matches(q.pattern, n.name, q.exact)
    /\ q.glob # <<>> => Like(FileLike(q.glob), n.file)

WhereAdvanced(db, q, n) ==
    /\ q.relationship # None => InDegree(db, n.id, q.relationship) + OutDegree(db, n.id, q.relationship) > 0
    /\ q.noEntry => InDegree(db, n.id, "CALLS") > 0 \/ OutDegree(db, n.id, "CALLS") = 0
    /\ n.label \notin q.without

\* A bound below zero is no bound.
WhereDegree(db, q, n) ==
    LET d == DegreeIn(db, n) + DegreeOut(db, n)
    IN (q.min >= 0 => d >= q.min) /\ (q.max >= 0 => d <= q.max)

Found(db, q) == {n \in db.nodes : /\ WhereBasic(q, n)
                                  /\ WhereAdvanced(db, q, n) /\ WhereDegree(db, q, n)}

Search(db, q) ==
    LET rows  == ByName(Found(db, q))
        limit == IF q.limit > 0 THEN q.limit ELSE DefaultLimit
    IN [total |-> Len(rows),
        rows  |-> Take(SubSeq(rows, q.offset + 1, Len(rows)), limit)]

AnySearch == [project |-> None, label |-> None, pattern |-> <<>>, exact |-> FALSE, glob |-> <<>>,
              relationship |-> None, noEntry |-> FALSE, without |-> {}, min |-> -1, max |-> -1,
              limit |-> 0, offset |-> 0]

-----------------------------------------------------------------------------
(* cbm_store_bfs.                                                           *)

Across(db, i, types, inbound) ==
    {IF inbound THEN e.src ELSE e.tgt :
        e \in {e \in db.edges : e.type \in types /\ i = IF inbound THEN e.tgt ELSE e.src}}

\* UNION keeps a row once, but a row is a node and a hop.
Walk(db, first, types, inbound, depth) ==
    LET level(S, hop) == [k \in 1 .. Cardinality(S) |-> [id |-> Ascending(S)[k], hop |-> hop]]
        next(acc, hop) == [rows |-> acc.rows \o level(acc.at, hop),
                           at   |-> UNION {Across(db, i, types, inbound) : i \in acc.at}]
    IN FoldLeft(next, [rows |-> <<>>, at |-> first], [hop \in 1 .. depth |-> hop]).rows

Bfs(db, start, inbound, kinds, depth, limit) ==
    LET types   == IF kinds = {} THEN {"CALLS"} ELSE kinds
        visited == Take(Walk(db, Across(db, start, types, inbound), types, inbound, depth), limit)
        ids     == {start} \cup {visited[k].id : k \in DOMAIN visited}
    IN [visited |-> visited,
        edges   |-> IF visited = <<>> THEN {}
                    ELSE {e \in db.edges : e.type \in types /\ {e.src, e.tgt} \subseteq ids}]

HopToRisk(hop) == CASE hop = 1 -> "CRITICAL" [] hop = 2 -> "HIGH" [] hop = 3 -> "MEDIUM"
                    [] OTHER -> "LOW"
============================================================================
