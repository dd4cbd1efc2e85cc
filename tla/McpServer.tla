------------------------------ MODULE McpServer ------------------------------
(***************************************************************************)
(* The server of McpConnections with the tools of McpAnswers, and what the *)
(* answers of trace_path and get_architecture are promised to be.          *)
(***************************************************************************)
EXTENDS McpConnections, McpAnswers

\* The ends of the walks of just so many calls from, or to, a node.
RECURSIVE Ends(_, _, _, _, _)
Ends(db, S, types, inbound, steps) ==
    IF steps = 0 THEN S
    ELSE Ends(db, UNION {Across(db, i, types, inbound) : i \in S}, types, inbound, steps - 1)

\* Each node that can be reached within the depth, with its distance.
Distances(db, id, types, inbound, depth) ==
    UNION {{<<i, k>> : i \in Ends(db, {id}, types, inbound, k)
                             \ UNION {Ends(db, {id}, types, inbound, j) : j \in 1 .. k - 1}} : k \in 1 .. depth}

\* How many rows of a walk go no farther than that: a node has one for each number
\* of calls that reaches it.
RowsWithin(db, id, types, inbound, steps) ==
    FoldLeft(LAMBDA n, k : n + Cardinality(Ends(db, {id}, types, inbound, k)), 0, [k \in 1 .. steps |-> k])

\* trace_path walks from every node that has the name and reads HopLimit rows of
\* each walk, the nearest first.  It lists a node once, with its distance from one
\* of them, and only if the rows nearer to that one left room; and it lists, tests
\* aside unless asked for, every node whose rows came before the limit, however
\* many rows a cycle of calls takes.  (bfs_union_same_name, cbm_store_bfs)
TraceListsTheNearest ==
    Answered("trace_path") /\ "callees" \in DOMAIN answer.body =>
        LET db    == Reads(conn, disk)
            r     == answer.call
            seeds == {n.id : n \in FindNodesByName(db, r.project, r.function)}
            tests == IF Arg(r, "tests", FALSE) THEN {} ELSE {n.id : n \in {m \in db.nodes : IsTestFile(m)}}
            nearest(rows, inbound) ==
                LET at(s)        == Distances(db, s, TraceTypes(r), inbound, r.depth)
                    within(s, k) == RowsWithin(db, s, TraceTypes(r), inbound, k)
                    ids          == {h.id : h \in Range(rows)}
                IN /\ Len(rows) = Cardinality(ids)
                   /\ \A h \in Range(rows) : /\ h.id \notin tests
                                              /\ \E s \in seeds : <<h.id, h.hop>> \in at(s)
                                                                  /\ within(s, h.hop - 1) < HopLimit
                   /\ \A s \in seeds : \A x \in at(s) :
                         within(s, x[2]) <= HopLimit => x[1] \in ids \cup tests
        IN seeds # {} =>
              /\ Arg(r, "direction", "both") # "inbound"  => nearest(answer.body.callees, FALSE)
              /\ Arg(r, "direction", "both") # "outbound" => nearest(answer.body.callers, TRUE)

\* The comment on the refinement of the clusters promises that each one is
\* connected within itself (store.c:4886-4890).
ClustersAreConnected ==
    Answered("get_architecture") =>
        LET db == Reads(conn, disk)
            joined(c, S) == S \cup {i \in c : \E e \in db.edges : e.type = "CALLS"
                                        /\ \E j \in S : {e.src, e.tgt} = {i, j}}
            grown(c) == FoldLeft(LAMBDA S, x : joined(c, S), {Min(c)}, Ascending(c))
        IN \A k \in DOMAIN answer.body.parts.clusters :
              \A c \in answer.body.parts.clusters[k] : grown(c.members) = c.members
=============================================================================
