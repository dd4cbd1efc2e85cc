----------------------------- MODULE GraphBuffer ----------------------------
(***************************************************************************)
(* The in-memory graph of a pipeline run: graph_buffer.c.                  *)
(*                                                                         *)
(* Qualified names are sequences of segments.  A buffer owns its nodes in  *)
(* the order they were made; a node keeps the label it was indexed under   *)
(* beside its present one.  Workers allocate ids from a shared counter,    *)
(* the main buffer from its own.                                           *)
(***************************************************************************)
EXTENDS Naturals, FiniteSets, Sequences, SequencesExt, FiniteSetsExt

\* A run of segments within a name or a path.
Occurs(s, t) == \E i \in 0 .. Len(t) - Len(s) : SubSeq(t, i + 1, i + Len(s)) = s

EmptyBuffer == [nodes |-> <<>>, edges |-> <<>>, next |-> 1]

\* The indexes by qualified name, id, name and label.
Position(g, q) == SelectInSeq(g.nodes, LAMBDA n : n.live /\ n.qn = q)
Has(g, q)      == Position(g, q) # 0
IdOf(g, q)     == IF Has(g, q) THEN g.nodes[Position(g, q)].id ELSE 0
LabelOf(g, q)  == IF Has(g, q) THEN g.nodes[Position(g, q)].label ELSE "none"

\* By id: the node registered last under it.
ById(g, i) == g.nodes[SelectLastInSeq(g.nodes, LAMBDA n : n.live /\ n.id = i)]

ByName(g, name)   == SelectSeq(g.nodes, LAMBDA n : n.live /\ Last(n.qn) = name)
ByLabel(g, label) == SelectSeq(g.nodes, LAMBDA n : n.live /\ n.indexed = label)

EdgesFrom(g, i, type) == SelectSeq(g.edges, LAMBDA e : e.src = i /\ e.type = type)
EdgesInto(g, i, type) == SelectSeq(g.edges, LAMBDA e : e.tgt = i /\ e.type = type)
EdgesOf(g, type)      == SelectSeq(g.edges, LAMBDA e : e.type = type)

\* A per-file Module definition does not downgrade a directory node.
KeptLabel(old, new) ==
    IF new = "Module" /\ old \in {"Project", "Folder"} THEN old ELSE new

Node(i, q, label, file) ==
    [id |-> i, qn |-> q, label |-> label, indexed |-> label, file |-> file, live |-> TRUE]

\* cbm_gbuf_upsert_node.
UpsertNode(g, q, label, file) ==
    IF Has(g, q)
    THEN [g EXCEPT !.nodes[Position(g, q)].label = KeptLabel(@, label),
                   !.nodes[Position(g, q)].file = file]
    ELSE [g EXCEPT !.nodes = Append(@, Node(g.next, q, label, file)), !.next = @ + 1]

\* Edges are unique by endpoints and type, imports also by the local name.
EdgeKey(e) == <<e.src, e.tgt, e.type, IF e.type = "IMPORTS" THEN e.local ELSE "">>

Edge(s, t, type) == [src |-> s, tgt |-> t, type |-> type, local |-> ""]

\* cbm_gbuf_insert_edge.
InsertEdge(g, e) ==
    IF \E i \in DOMAIN g.edges : EdgeKey(g.edges[i]) = EdgeKey(e) THEN g
    ELSE [g EXCEPT !.edges = Append(@, e), !.next = @ + 1]

\* Edges that end in a node are kept (mutant of Touches).
TouchesSource(e, ids) == e.src \in ids

Touches(e, ids) == e.src \in ids \/ e.tgt \in ids

\* cbm_gbuf_delete_by_file, with the cascade over the edges.
DeleteByFile(g, file) ==
    LET gone == {g.nodes[i].id : i \in {i \in DOMAIN g.nodes :
                                          g.nodes[i].live /\ g.nodes[i].file = file}}
    IN [g EXCEPT !.nodes = [i \in DOMAIN @ |->
                              IF @[i].file = file THEN [@[i] EXCEPT !.live = FALSE] ELSE @[i]],
                 !.edges = SelectSeq(@, LAMBDA e : ~Touches(e, gone))]

-----------------------------------------------------------------------------
(* Merging a worker's buffer.                                               *)

\* The source wins over a node of the same name; this path sets the label
\* without asking KeptLabel.
MergeNode(g, n) ==
    IF Has(g, n.qn)
    THEN [g EXCEPT !.nodes[Position(g, n.qn)].label = n.label,
                   !.nodes[Position(g, n.qn)].file = n.file]
    ELSE [g EXCEPT !.nodes = Append(@, n), !.next = IF n.id >= @ THEN n.id + 1 ELSE @]

\* The ends of an edge as the worker knew them (mutant of Remapped).
NotRemapped(dst, src, i) == i

\* Ids of the source that a node of the same name had another id for.
Remapped(dst, src, i) ==
    LET p == SelectInSeq(src.nodes,
                         LAMBDA n : n.live /\ n.id = i /\ Has(dst, n.qn) /\ IdOf(dst, n.qn) # i)
    IN IF p = 0 THEN i ELSE IdOf(dst, src.nodes[p].qn)

\* cbm_gbuf_merge.
Merge(dst, src) ==
    LET nodes == FoldLeft(MergeNode, dst, SelectSeq(src.nodes, LAMBDA n : n.live))
        edge(g, e) == InsertEdge(g, [e EXCEPT !.src = Remapped(dst, src, @),
                                              !.tgt = Remapped(dst, src, @)])
    IN FoldLeft(edge, nodes, src.edges)

-----------------------------------------------------------------------------
(* The database file and back.                                              *)

Live(g) == SelectSeq(g.nodes, LAMBDA n : n.live)

\* temp_to_final: of two live nodes with one id the later takes it.
FinalId(g, i) ==
    IF i < g.next THEN SelectLastInSeq(Live(g), LAMBDA n : n.id = i) ELSE 0

\* cbm_gbuf_dump_to_sqlite: rows numbered from 1; an edge without both ends
\* is left out.
Dump(g) ==
    [nodes |-> [i \in DOMAIN Live(g) |->
                  [qn |-> Live(g)[i].qn, label |-> Live(g)[i].label, file |-> Live(g)[i].file]],
     edges |-> SelectSeq([i \in DOMAIN g.edges |->
                            [g.edges[i] EXCEPT !.src = FinalId(g, @), !.tgt = FinalId(g, @)]],
                         LAMBDA e : e.src # 0 /\ e.tgt # 0)]

\* cbm_gbuf_load_from_db, into an empty buffer.
Load(db) ==
    LET node(g, n) == UpsertNode(g, n.qn, n.label, n.file)
        nodes == FoldLeft(node, EmptyBuffer, db.nodes)
        id(i) == IdOf(nodes, db.nodes[i].qn)
        edge(g, e) == InsertEdge(g, [e EXCEPT !.src = id(@), !.tgt = id(@)])
    IN FoldLeft(edge, nodes, db.edges)

\* The edges of a dump by the names at their ends.
Named(db) == {[e EXCEPT !.src = db.nodes[e.src].qn, !.tgt = db.nodes[e.tgt].qn] :
                e \in ToSet(db.edges)}

============================================================================
