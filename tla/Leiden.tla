------------------------------- MODULE Leiden -------------------------------
(***************************************************************************)
(* Communities of an undirected weighted graph: cbm_leiden of store.c.     *)
(* Nodes are 1 .. n.  A gain is compared times the total weight twice over *)
(* and with resolution 1, so that it is a whole number; the build compares *)
(* the same values as doubles.                                             *)
(***************************************************************************)
EXTENDS Ordering, SequencesExt, FiniteSetsExt

\* One weight for both directions of a pair, in the order pairs are first met.
BuildWeights(pairs) ==
    LET flat == [k \in DOMAIN pairs |-> IF pairs[k][1] > pairs[k][2]
                                        THEN <<pairs[k][2], pairs[k][1]>> ELSE pairs[k]]
        kept == SelectSeq(flat, LAMBDA p : p[1] # p[2])
        keys == FoldLeft(LAMBDA acc, p : IF p \in Range(acc) THEN acc ELSE Append(acc, p), <<>>, kept)
    IN [k \in DOMAIN keys |-> [a |-> keys[k][1], b |-> keys[k][2],
                               w |-> Cardinality({j \in DOMAIN kept : kept[j] = keys[k]})]]

\* Neighbours in the order of the weights, and the weighted degree.
LgBuild(n, ws) ==
    LET mine(i) == SelectSeq(ws, LAMBDA e : i \in {e.a, e.b})
        adj == Eager([i \in 1 .. n |-> LET m == mine(i) IN
                 [k \in DOMAIN m |-> [to |-> IF m[k].a = i THEN m[k].b ELSE m[k].a, w |-> m[k].w]]])
    IN [n |-> n, adj |-> adj,
        k |-> Eager([i \in 1 .. n |-> FoldLeft(LAMBDA s, x : s + x.w, 0, adj[i])])]

\* The groups met from a node, in order, and the weight that leads to each.
Around(g, v, group, ok(_)) ==
    LET near == SelectSeq(g.adj[v], LAMBDA x : x.to # v /\ ok(x.to))
        met  == FoldLeft(LAMBDA acc, x : IF group[x.to] \in Range(acc) THEN acc
                                         ELSE Append(acc, group[x.to]), <<>>, near)
    IN [met |-> met,
        acc |-> [c \in 1 .. g.n |-> FoldLeft(LAMBDA s, x : IF group[x.to] = c THEN s + x.w ELSE s, 0, near)]]

\* The first of the groups whose gain is the largest, if above what we have.
BestOf(met, gain(_), own, ownGain) ==
    FoldLeft(LAMBDA b, c : IF gain(c) > b.gain THEN [c |-> c, gain |-> gain(c)] ELSE b,
             [c |-> own, gain |-> ownGain], met).c

Totals(g, comm) ==
    [c \in 1 .. g.n |-> SumFunctionOnSet(g.k, {i \in 1 .. g.n : comm[i] = c})]

\* Local moving: a node leaves for the neighbouring community that gains most,
\* and its neighbours elsewhere are looked at again.
RECURSIVE MoveLoop(_, _, _, _, _)
MoveLoop(g, comm, queue, twom, left) ==
    IF queue = <<>> \/ left = 0 THEN comm
    ELSE LET v    == Head(queue)
             near == Around(g, v, comm, LAMBDA u : TRUE)
             tot  == Totals(g, [comm EXCEPT ![v] = 0])
             gain(c) == near.acc[c] * twom - g.k[v] * tot[c]
             to   == BestOf(near.met, gain, comm[v], gain(comm[v]))
             wake == SelectSeq([i \in DOMAIN g.adj[v] |-> g.adj[v][i].to],
                               LAMBDA u : to # comm[v] /\ comm[u] # to /\ u \notin Range(Tail(queue)))
         IN MoveLoop(g, Eager([comm EXCEPT ![v] = to]), Tail(queue) \o wake, twom, left - 1)

MovePassCap == 100
MaxLevels   == 64

LeidenMove(g, comm, twom) ==
    MoveLoop(g, comm, [i \in 1 .. g.n |-> i], twom, g.n * MovePassCap + MaxLevels)

\* Labels 1, 2, ... in the order communities are first met.
Relabel(comm) ==
    LET met == FoldLeft(LAMBDA acc, i : IF comm[i] \in Range(acc) THEN acc ELSE Append(acc, comm[i]),
                        <<>>, [i \in DOMAIN comm |-> i])
    IN Eager([i \in DOMAIN comm |-> CHOOSE k \in DOMAIN met : met[k] = comm[i]])

Count(comm) == Cardinality(Range(comm))

\* Within a community, a node still alone joins the neighbouring group that
\* gains, if any does.
LeidenRefine(g, comm, twom) ==
    LET step(ref, v) ==
            LET near == Around(g, v, ref, LAMBDA u : comm[u] = comm[v])
                tot  == Totals(g, [ref EXCEPT ![v] = 0])
                met  == SelectSeq(near.met, LAMBDA r : r # ref[v])
                gain(r) == near.acc[r] * twom - g.k[v] * tot[r]
            IN IF \E u \in 1 .. g.n : u # v /\ ref[u] = ref[v] THEN ref
               ELSE Eager([ref EXCEPT ![v] = BestOf(met, gain, ref[v], 0)])
    IN Relabel(FoldLeft(step, [i \in 1 .. g.n |-> i], [i \in 1 .. g.n |-> i]))

\* Each refined group becomes a node; weights inside it are dropped, its degree kept.
LeidenAggregate(g, ref) ==
    LET r     == Count(ref)
        of(c) == {i \in 1 .. g.n : ref[i] = c}
        out(c) == FlattenSeq([k \in 1 .. Cardinality(of(c)) |->
                     SelectSeq(g.adj[Ascending(of(c))[k]], LAMBDA x : ref[x.to] # c)])
        met(c) == FoldLeft(LAMBDA acc, x : IF ref[x.to] \in Range(acc) THEN acc
                                           ELSE Append(acc, ref[x.to]), <<>>, out(c))
        weight(c, d) == FoldLeft(LAMBDA s, x : IF ref[x.to] = d THEN s + x.w ELSE s, 0, out(c))
    IN [n |-> r,
        adj |-> Eager([c \in 1 .. r |-> [k \in DOMAIN met(c) |-> [to |-> met(c)[k], w |-> weight(c, met(c)[k])]]]),
        k |-> Eager([c \in 1 .. r |-> SumFunctionOnSet(g.k, of(c))])]

\* A group seeded as the node of its number (mutant of Seed).
SeedByNumber(ref, comm) == [c \in 1 .. Count(ref) |-> comm[c]]

\* A refined group is seeded with the community it comes from.
Seed(ref, comm) == [c \in 1 .. Count(ref) |-> comm[CHOOSE i \in DOMAIN ref : ref[i] = c]]

RECURSIVE Levels(_, _, _, _, _)
Levels(level, g, orig, comm, twom) ==
    LET moved == Relabel(LeidenMove(g, comm, twom))
        ref   == LeidenRefine(g, moved, twom)
        stop  == [i \in DOMAIN orig |-> moved[orig[i]]]
    IN IF level = MaxLevels THEN [i \in DOMAIN orig |-> comm[orig[i]]]
       ELSE IF Count(moved) >= g.n \/ Count(ref) >= g.n THEN stop
       ELSE Levels(level + 1, LeidenAggregate(g, ref),
                   Eager([i \in DOMAIN orig |-> ref[orig[i]]]), Eager(Seed(ref, moved)), twom)

\* Without a weight every node is its own community.
Leiden(n, pairs) ==
    LET ws == BuildWeights(pairs)
        g  == LgBuild(n, ws)
    IN IF ws = <<>> THEN [i \in 1 .. n |-> i]
       ELSE Levels(0, g, [i \in 1 .. n |-> i], [i \in 1 .. n |-> i],
                   SumFunctionOnSet(g.k, 1 .. n))
=============================================================================
