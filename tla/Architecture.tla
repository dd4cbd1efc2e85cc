---------------------------- MODULE Architecture ----------------------------
(***************************************************************************)
(* What get_architecture and get_graph_schema tell of a project: store.c   *)
(* from the schema to the clusters of its call graph.                      *)
(***************************************************************************)
EXTENDS Store, Leiden

CONSTANTS
    LanguageOf,     \* file extensions, to their language
    TopEntries,     \* LIMIT of entry points and routes
    TopHot,         \* LIMIT of hotspots
    TopBoundaries,  \* ST_MAX_ITERATIONS: the boundaries reported
    BoundaryRoom,   \* pairs of packages counted at all
    CoreFanIn,      \* ST_MIN_INDEGREE
    TopPackages,    \* MAX_PREVIEW_NAMES
    TreeDepth,      \* ST_MAX_PATH_DEPTH
    TopClusters, TopNodes, ClusterPackages

\* A path that is blank scopes nothing; otherwise the path and what is under it.
InScope(path, file) ==
    path = <<>> \/ file = path \/ (Len(path) < Len(file) /\ IsPrefix(path \o <<"/">>, file))

Scoped(db, p, path) == {n \in NodesOf(db, p) : InScope(path, n.file)}

CountNodesScoped(db, p, path) == Cardinality(Scoped(db, p, path))

EdgesScoped(db, p, path) ==
    LET ids == {n.id : n \in Scoped(db, p, path)}
    IN {e \in db.edges : e.project = p /\ (path = <<>> \/ {e.src, e.tgt} \subseteq ids)}

CountBy(rows, Key(_)) == [k \in {Key(r) : r \in rows} |-> Cardinality({r \in rows : Key(r) = k})]

SchemaCountsScoped(db, p, path) ==
    [labels |-> CountBy(Scoped(db, p, path), LAMBDA n : n.label),
     types  |-> CountBy(EdgesScoped(db, p, path), LAMBDA e : e.type)]

\* ... with the property keys seen on each label and type.
Schema(db, p) ==
    LET keys(rows) == UNION {DOMAIN r.props : r \in rows}
        cs == SchemaCountsScoped(db, p, <<>>)
    IN [counts |-> cs,
        ofLabel |-> [l \in DOMAIN cs.labels |-> keys(FindNodesByLabel(db, p, l))],
        ofType  |-> [t \in DOMAIN cs.types |-> keys(EdgesByType(db, p, t))]]

\* The keys of f by falling value, ties in the order they are first met in.
ByCount(f, met) ==
    Sorted(DOMAIN f, LAMBDA a, b : f[a] > f[b] \/ (f[a] = f[b] /\ met[a] < met[b]))

RowsById(rows) == Sorted(rows, LAMBDA m, n : m.id < n.id)

\* How often each key occurs in s, and where it is first met.
Tally(s) ==
    LET f   == [k \in Range(s) |-> Cardinality({i \in DOMAIN s : s[i] = k})]
        met == [k \in Range(s) |-> CHOOSE i \in DOMAIN s : s[i] = k /\ \A j \in 1 .. i - 1 : s[j] # k]
    IN [k \in 1 .. Cardinality(Range(s)) |-> <<ByCount(f, met)[k], f[ByCount(f, met)[k]]>>]

IsTestFile(n) == n.test
Flag(n, k)    == k \in DOMAIN n.props /\ n.props[k] = <<"true">>

Languages(db, p, path) ==
    LET files == RowsById({n \in Scoped(db, p, path) : n.label = "File" /\ n.ext \in DOMAIN LanguageOf})
    IN Tally([k \in DOMAIN files |-> LanguageOf[files[k].ext]])

EntryPoints(db, p, path) ==
    Take(RowsById({n \in Scoped(db, p, path) :
             Flag(n, "entry") /\ ~Flag(n, "is_test") /\ ~IsTestFile(n)}), TopEntries)

\* The limit is applied before routes of test files are dropped.
Routes(db, p, path) ==
    SelectSeq(Take(RowsById({n \in Scoped(db, p, path) : n.label = "Route" /\ ~Flag(n, "is_test")}),
                   TopEntries), LAMBDA n : ~IsTestFile(n))

Hotspots(db, p, path) ==
    LET fanIn(n) == InDegree(db, n.id, "CALLS")
        hot == {n \in Scoped(db, p, path) : /\ n.label \in {"Function", "Method"} /\ fanIn(n) > 0
                                            /\ ~Flag(n, "is_test") /\ ~IsTestFile(n)}
    IN Take(Sorted(hot, LAMBDA m, n : fanIn(m) > fanIn(n) \/ (fanIn(m) = fanIn(n) /\ m.id < n.id)), TopHot)

\* The third segment, or the second of a short name.
QnToPackage(q) == IF Len(q) > 3 THEN q[3] ELSE IF Len(q) > 1 THEN q[2] ELSE ""
QnToTopPackage(q) == IF Len(q) > 1 THEN q[2] ELSE ""

Symbols(db, p, path) == {n \in Scoped(db, p, path) : n.label \in {"Function", "Method", "Class"}}

\* LookupPkg: by binary search in the symbols, which are ordered by id.
PackageOf(db, p, path, i) ==
    LET ns == {n \in Symbols(db, p, path) : n.id = i}
    IN IF ns = {} THEN "" ELSE QnToPackage((CHOOSE n \in ns : TRUE).qn)

CallsOf(db, p) == Sorted(EdgesByType(db, p, "CALLS"),
                      LAMBDA d, e : d.src < e.src \/ (d.src = e.src /\ d.tgt < e.tgt))

\* Calls that leave a package; a pair that finds no room is not counted.
Boundaries(db, p, path) ==
    LET es    == CallsOf(db, p)
        pairs == [k \in DOMAIN es |-> <<PackageOf(db, p, path, es[k].src), PackageOf(db, p, path, es[k].tgt)>>]
        cross == SelectSeq(pairs, LAMBDA c : c[1] # "" /\ c[2] # "" /\ c[1] # c[2])
        known == FoldLeft(LAMBDA acc, c : IF c \in Range(acc) \/ Len(acc) >= BoundaryRoom THEN acc
                                          ELSE Append(acc, c), <<>>, cross)
        all   == Tally(SelectSeq(cross, LAMBDA c : c \in Range(known)))
    IN [k \in DOMAIN Take(all, TopBoundaries) |-> [from |-> all[k][1][1], to |-> all[k][1][2], calls |-> all[k][2]]]

PackagesFromQn(db, p, path) ==
    LET ns == RowsById(Symbols(db, p, path))
    IN Take(Tally(SelectSeq([k \in DOMAIN ns |-> QnToPackage(ns[k].qn)], LAMBDA s : s # "")), TopPackages)

Packages(db, p, path) ==
    LET ns == RowsById({n \in Scoped(db, p, path) : n.label = "Package"})
    IN IF ns = <<>> THEN PackagesFromQn(db, p, path)
       ELSE Take(Tally([k \in DOMAIN ns |-> ns[k].name]), TopPackages)

ClassifyLayer(in, out, hasRoutes, hasEntry) ==
    IF hasEntry /\ out > 0 /\ in = 0 THEN "entry"
    ELSE IF hasRoutes THEN "api"
    ELSE IF in > out /\ in > CoreFanIn THEN "core"
    ELSE IF out = 0 /\ in > 0 THEN "leaf"
    ELSE IF in = 0 /\ out > 0 THEN "entry" ELSE "internal"

PackageNames(ns) == {QnToPackage(n.qn) : n \in ns}

\* A layer for each package of a boundary, a route or an entry point.
Layers(db, p, path) ==
    LET bs    == Boundaries(db, p, path)
        sum(S) == MapThenSumSet(LAMBDA k : bs[k].calls, S)
        routes  == PackageNames({n \in Scoped(db, p, path) : n.label = "Route"})
        entries == PackageNames({n \in Scoped(db, p, path) : Flag(n, "entry")})
        known == UNION {{b.from, b.to} : b \in Range(bs)} \cup routes \cup entries
    IN [g \in known |-> ClassifyLayer(sum({k \in DOMAIN bs : bs[k].to = g}),
                                      sum({k \in DOMAIN bs : bs[k].from = g}),
                                      g \in routes, g \in entries)]

-----------------------------------------------------------------------------
(* arch_file_tree.                                                          *)

Parts(file) == LET cuts == {k \in DOMAIN file : file[k] = "/"}
               IN [k \in 1 .. Cardinality(cuts) + 1 |->
                     LET ends == Ascending(cuts \cup {0, Len(file) + 1})
                     IN SubSeq(file, ends[k] + 1, ends[k + 1] - 1)]

\* The directories of a file down to the depth shown, each with its child.
\* (The build has room for 64 directories.)
RegisterFileDirs(file) ==
    LET ps == Parts(file)
    IN {<<<<>>, ps[1]>>} \cup {<<SubSeq(ps, 1, k), ps[k + 1]>> : k \in 1 .. (Len(ps) - 1) \cap 1 .. TreeDepth}

FileTree(db, p, path) ==
    LET files == {n.file : n \in {n \in Scoped(db, p, path) : n.label = "File"}}
        dirs  == UNION {RegisterFileDirs(f) : f \in files}
        kids(d) == Cardinality({x \in dirs : x[1] = d})
    IN {LET full == Append(x[1], x[2])
        IN [path |-> full, file |-> full \in {Parts(f) : f \in files}, children |-> kids(full)]
        : x \in {x \in dirs : Len(x[1]) <= TreeDepth}}
-----------------------------------------------------------------------------
(* arch_clusters.                                                           *)

\* Degrees count calls to other symbols; singletons are no clusters.
Clusters(db, p, path) ==
    LET ns    == RowsById(Symbols(db, p, path))
        n     == Len(ns)
        at(i) == CHOOSE k \in DOMAIN ns : ns[k].id = i
        ids   == {ns[k].id : k \in DOMAIN ns}
        es    == SelectSeq(CallsOf(db, p), LAMBDA e : e.src # e.tgt /\ {e.src, e.tgt} \subseteq ids)
        pairs == [k \in DOMAIN es |-> <<at(es[k].src), at(es[k].tgt)>>]
        comm  == Leiden(n, pairs)
        of(c) == {k \in 1 .. n : comm[k] = c}
        inner(c) == {k \in DOMAIN pairs : comm[pairs[k][1]] = c /\ comm[pairs[k][2]] = c}
        outer(c) == {k \in DOMAIN pairs : {comm[pairs[k][1]], comm[pairs[k][2]]} \cap {c} # {}} \ inner(c)
        deg(k)  == Cardinality({j \in DOMAIN pairs : k \in {pairs[j][1], pairs[j][2]}})
        top(c)  == Take(Sorted(of(c), LAMBDA j, k : deg(j) > deg(k) \/ (deg(j) = deg(k) /\ j < k)), TopNodes)
        tops(c) == Tally([k \in 1 .. Cardinality(of(c)) |-> QnToTopPackage(ns[Ascending(of(c))[k]].qn)])
        big == {c \in Range(comm) : Cardinality(of(c)) >= 2}
        cluster(c) == [members |-> {ns[k].id : k \in of(c)}, inner |-> Cardinality(inner(c)),
                       outer |-> Cardinality(outer(c)), top |-> [k \in DOMAIN top(c) |-> ns[top(c)[k]].id],
                       packages |-> Take(tops(c), ClusterPackages)]
    IN IF n < 2 THEN {}
       ELSE {cluster(c) : c \in {c \in big : Cardinality({d \in big : Cardinality(of(d)) > Cardinality(of(c))}) < TopClusters}}

WantAspect(aspects, name) ==
    aspects = {} \/ "all" \in aspects \/ name \in aspects \/ ("overview" \in aspects /\ name # "file_tree")

GetArchitecture(db, p, path, aspects) ==
    LET part(name, value) == IF WantAspect(aspects, name) THEN <<value>> ELSE <<>>
    IN [languages    |-> part("languages", Languages(db, p, path)),
        packages     |-> part("packages", Packages(db, p, path)),
        entry_points |-> part("entry_points", EntryPoints(db, p, path)),
        routes       |-> part("routes", Routes(db, p, path)),
        hotspots     |-> part("hotspots", Hotspots(db, p, path)),
        boundaries   |-> part("boundaries", Boundaries(db, p, path)),
        layers       |-> part("layers", Layers(db, p, path)),
        file_tree    |-> part("file_tree", FileTree(db, p, path)),
        clusters     |-> part("clusters", Clusters(db, p, path))]
=============================================================================
