---------------------------- MODULE QueryMeaning ----------------------------
(***************************************************************************)
(* What a query means, told without how it is run.  A pattern of one       *)
(* relationship means the pairs of nodes that it and the condition hold    *)
(* of; questions of other shapes are listed with a meaning each.  The text *)
(* is answered by the server, and the answer is compared with the meaning. *)
(***************************************************************************)
EXTENDS McpServer

CONSTANT Meanings   \* records [from, to: labels or None, arrow, far, cond]

Anything == [kind |-> "always"]

Quoted(s) == <<"'">> \o s \o <<"'">>
LabelText(l) == IF l = None THEN <<>> ELSE <<":", l>>

RECURSIVE CondText(_)
CondText(c) ==
    CASE c.kind = "is"  -> <<c.var, ".", "name", "=">> \o Quoted(c.name)
      [] c.kind = "not" -> <<"NOT">> \o CondText(c.of)
      [] OTHER          -> CondText(c.left) \o <<c.kind>> \o CondText(c.right)

\* MATCH (a)-[:CALLS*1..far]->(b) WHERE ... RETURN a.qualified_name, b.qualified_name
QueryText(m) ==
    LET node(v, l) == <<"(", v>> \o LabelText(l) \o <<")">>
        hops == IF m.far = 1 THEN <<>> ELSE <<"*", "1", ".", ".", ToString(m.far)>>
        rel  == <<"[", ":", "CALLS">> \o hops \o <<"]">>
    IN <<"MATCH">> \o node("a", m.from)
       \o (IF m.arrow = "in" THEN <<"<", "-">> \o rel \o <<"-">> ELSE <<"-">> \o rel \o <<"-", ">">>)
       \o node("b", m.to)
       \o (IF m.cond = Anything THEN <<>> ELSE <<"WHERE">> \o CondText(m.cond))
       \o <<"RETURN", "a", ".", "qualified_name", ",", "b", ".", "qualified_name">>

RECURSIVE Holds(_, _, _)
Holds(c, a, b) ==
    CASE c.kind = "always" -> TRUE
      [] c.kind = "is"  -> c.name = IF c.var = "a" THEN a.name ELSE b.name
      [] c.kind = "not" -> ~Holds(c.of, a, b)
      [] c.kind = "AND" -> Holds(c.left, a, b) /\ Holds(c.right, a, b)
      [] c.kind = "OR"  -> Holds(c.left, a, b) \/ Holds(c.right, a, b)

Meant(db, p, m) ==
    LET is(n, l) == l \in {None, n.label}
        linked(a, b) == \E k \in 1 .. m.far : b.id \in Ends(db, {a.id}, {"CALLS"}, m.arrow = "in", k)
    IN {<<a.qn, b.qn>> : <<a, b>> \in {x \in NodesOf(db, p) \X NodesOf(db, p) :
           is(x[1], m.from) /\ is(x[2], m.to) /\ linked(x[1], x[2]) /\ Holds(m.cond, x[1], x[2])}}

QueryCalls(p) == {[tool |-> "query_graph", project |-> p, text |-> QueryText(m), meaning |-> m] : m \in Meanings}

RECURSIVE NegatesTheFarEnd(_)
NegatesTheFarEnd(c) ==
    CASE c.kind = "always" -> FALSE
      [] c.kind = "is"  -> FALSE
      [] c.kind = "not" -> c.of.kind # "is" \/ c.of.var = "b"
      [] OTHER          -> NegatesTheFarEnd(c.left) \/ NegatesTheFarEnd(c.right)

AsMeant ==
    Answered("query_graph") /\ "meaning" \in DOMAIN answer.call =>
        Range(answer.body) = Meant(Reads(conn, disk), answer.call.project, answer.call.meaning)

\* Patterns of one relationship, fixed or of several hops, in either
\* direction, with conditions that negate nothing of the far end, are
\* answered with just the pairs that match: the condition is asked twice, of
\* the first node alone and of the whole row, and the first time must drop
\* nothing.  (execute_single)
QueriesFindEveryMatch ==
    answer # Absent /\ "meaning" \in DOMAIN answer.call /\ ~NegatesTheFarEnd(answer.call.meaning.cond) => AsMeant

\* README-V1.md:463 lists AND, OR, XOR and NOT among what WHERE supports; a
\* NOT about the far end is such a condition.
NegationIsHonoured == AsMeant

-----------------------------------------------------------------------------
(* Questions of other shapes.                                               *)

Qn(v)  == <<v, ".", "qualified_name">>
At(v)  == <<"(", v, ")">>
Of(v, l) == <<"(", v, ":", l, ")">>
To(t)  == <<"-", "[", ":", t, "]", "-", ">">>
From(t) == <<"<", "-", "[", ":", t, "]", "-">>

Texts == [
    uncalled |-> <<"MATCH">> \o Of("x", "Function") \o <<"WHERE", "NOT", "EXISTS", "{">> \o At("x")
                 \o From("CALLS") \o <<"(", ")", "}", "RETURN">> \o Qn("x"),
    counts   |-> <<"MATCH">> \o At("x") \o To("CALLS") \o At("y")
                 \o <<"RETURN">> \o Qn("x") \o <<",", "COUNT", "(", "y", ")">>,
    busy     |-> <<"MATCH">> \o At("x") \o To("CALLS") \o At("y") \o <<"WITH">> \o Qn("x")
                 \o <<"AS", "q", ",", "COUNT", "(", "y", ")", "AS", "n", "WHERE", "n", ">", "=", "2",
                      "RETURN", "q", ",", "n">>,
    busiest  |-> <<"MATCH">> \o At("x") \o To("CALLS") \o At("y") \o <<"WITH">> \o Qn("x")
                 \o <<"AS", "q", ",", "COUNT", "(", "y", ")", "AS", "n", "ORDER", "BY", "n", "DESC", "LIMIT", "1",
                      "RETURN", "n">>,
    outer    |-> <<"MATCH">> \o Of("x", "Function") \o <<"OPTIONAL", "MATCH">> \o At("x") \o To("CALLS")
                 \o Of("y", "Class") \o <<"RETURN">> \o Qn("x") \o <<",">> \o Qn("y"),
    common   |-> <<"MATCH">> \o At("x") \o To("CALLS") \o At("y") \o <<"MATCH">> \o At("z") \o To("CALLS")
                 \o At("y") \o <<"RETURN">> \o Qn("x") \o <<",">> \o Qn("z"),
    mutual   |-> <<"MATCH">> \o At("x") \o To("CALLS") \o At("y") \o To("CALLS") \o At("x")
                 \o <<"RETURN">> \o Qn("x") \o <<",">> \o Qn("y"),
    any      |-> <<"MATCH", "(", "x", ":", "Function", "|", "Class", ")", "-", "[", "r", ":", "CALLS", "|", "USAGE",
                   "]", "-">> \o At("y") \o <<"RETURN">> \o Qn("x") \o <<",", "type", "(", "r", ")", ",">> \o Qn("y"),
    either   |-> <<"MATCH">> \o Of("x", "Class") \o <<"RETURN">> \o Qn("x") \o <<"UNION", "MATCH">> \o At("y")
                 \o To("CALLS") \o Of("x", "Function") \o <<"RETURN">> \o Qn("x"),
    second   |-> <<"MATCH">> \o At("x") \o <<"RETURN">> \o Qn("x") \o <<"ORDER", "BY">> \o Qn("x")
                 \o <<"DESC", "SKIP", "1", "LIMIT", "1">>,
    graded   |-> <<"MATCH">> \o At("x") \o <<"RETURN">> \o Qn("x") \o <<",", "CASE", "WHEN", "x", ".", "out_degree",
                   ">", "=", "2", "THEN", "'", "m", "'", "ELSE", "'", "s", "'", "END">>,
    named    |-> <<"MATCH", "(", "x", "{", "name", ":", "'", "b", "'", "}", ")", "WHERE">> \o Qn("x")
                 \o <<"STARTS", "WITH", "'", "p", "'", "XOR", "x", ":", "Class", "RETURN">> \o Qn("x"),
    listed   |-> <<"MATCH">> \o At("x") \o <<"WHERE", "x", ".", "start_line", "IN", "[", "1", ",", "2", "]", "AND",
                   "x", ".", "none", "IS", "NULL", "AND", "x", ".", "name", "ENDS", "WITH", "'", "b", "'",
                   "RETURN", "*">>,
    bare     |-> <<"MATCH">> \o At("x") \o To("USAGE") \o At("y"),
    extremes |-> <<"MATCH">> \o At("x") \o To("CALLS") \o At("y") \o <<"RETURN",
                   "MIN", "(", "y", ".", "start_line", ")", ",", "MAX", "(", "y", ".", "start_line", ")", ",",
                   "SUM", "(", "x", ".", "start_line", ")">>,
    texts    |-> <<"MATCH">> \o Of("x", "Class") \o <<"RETURN", "DISTINCT", "reverse", "(">> \o Qn("x")
                 \o <<")", ",", "substring", "(">> \o Qn("x") \o <<",", "1", ")", ",", "replace", "(">> \o Qn("x")
                 \o <<",", "'", "p", "'", ",", "'", "m", "'", ")", ",", "coalesce", "(", "x", ".", "none", ",">>
                 \o Qn("x") \o <<")", ",", "labels", "(", "x", ")", ",", "id", "(", "x", ")">>,
    unwound  |-> <<"UNWIND", "[", "1", "]", "AS", "z", "MATCH">> \o Of("x", "Class") \o <<"RETURN">> \o Qn("x")
                 \o <<"UNION", "ALL", "MATCH">> \o Of("x", "Class") \o <<"RETURN">> \o Qn("x") \o <<"LIMIT", "1">> ]

\* Rows that mean the same may be given more than once for these.
Repeated == {"common", "any", "unwound"}

\* The ends of the edges of a type.
Linked(db, t) == {<<e.src, e.tgt>> : e \in {e \in db.edges : e.type = t}}

Meaning(db, name) ==
    LET calls == Linked(db, "CALLS")
        N     == db.nodes
        fs    == {n \in N : n.label = "Function"}
        outs(n) == Cardinality({c \in calls : c[1] = n.id})
        pair(R(_, _)) == {<<x[1].qn, x[2].qn>> : x \in {x \in N \X N : R(x[1].id, x[2].id)}}
        kinds(i, j) == {t \in {"CALLS", "USAGE"} : {<<i, j>>, <<j, i>>} \cap Linked(db, t) # {}}
        classes(n) == {c \in N \ fs : <<n.id, c.id>> \in calls}
    IN CASE name = "uncalled" -> {<<n.qn>> : n \in {n \in fs : \A c \in calls : c[2] # n.id}}
         [] name = "counts"   -> {<<n.qn, Number(outs(n))>> : n \in {n \in N : outs(n) > 0}}
         [] name = "busy"     -> {<<n.qn, Number(outs(n))>> : n \in {n \in N : outs(n) >= 2}}
         [] name = "busiest"  -> IF calls = {} THEN {} ELSE {<<Number(Max({outs(n) : n \in N}))>>}
         [] name = "outer"    -> UNION {IF classes(n) = {} THEN {<<n.qn, <<>>>>}
                                        ELSE {<<n.qn, c.qn>> : c \in classes(n)} : n \in fs}
         [] name = "common"   -> pair(LAMBDA i, j : \E c, d \in calls : c[1] = i /\ d[1] = j /\ c[2] = d[2])
         [] name = "mutual"   -> pair(LAMBDA i, j : {<<i, j>>, <<j, i>>} \subseteq calls)
         [] name = "any"      -> UNION {{<<x[1].qn, <<t>>, x[2].qn>> : t \in kinds(x[1].id, x[2].id)} : x \in N \X N}
         [] name = "either"   -> {<<n.qn>> : n \in (N \ fs) \cup {n \in fs : \E c \in calls : c[2] = n.id}}
         [] name = "second"   -> {<<n.qn>> : n \in {n \in N : Cardinality({m \in N : Before(n.qn, m.qn)}) = 1}}
         [] name = "graded"   -> {<<n.qn, IF outs(n) >= 2 THEN <<"m">> ELSE <<"s">>>> : n \in N}
         [] name = "named"    -> {<<n.qn>> : n \in {n \in fs : n.name = <<"b">>}}
         [] name = "listed"   -> {<<n.name, n.qn, <<n.label>>, n.file>> :
                                     n \in {n \in N : n.from \in {1, 2} /\ n.name = <<"b">>}}
         [] name = "bare"     -> {<<x[1].name, x[1].qn, <<x[1].label>>, x[2].name, x[2].qn, <<x[2].label>>>> :
                                     x \in {x \in N \X N : <<x[1].id, x[2].id>> \in Linked(db, "USAGE")}}
         [] name = "extremes" -> LET line(i) == (CHOOSE n \in N : n.id = i).from
                                     to == {line(c[2]) : c \in calls}
                                 IN IF calls = {} THEN {}
                                    ELSE {<<Number(Min(to)), Number(Max(to)),
                                            Number(FoldSet(LAMBDA c, sum : sum + line(c[1]), 0, calls))>>}
         [] name = "texts"    -> {<<Reverse(n.qn), Tail(n.qn), <<"m">> \o Tail(n.qn), n.qn,
                                    <<"[", n.label, "]">>, Number(n.id)>> : n \in N \ fs}
         [] name = "unwound"  -> {<<n.qn>> : n \in N \ fs}

Questions(p) == {[tool |-> "query_graph", project |-> p, text |-> Texts[name], question |-> name] :
                    name \in DOMAIN Texts}

\* Joins over a shared variable, outer rows, counts and the conditions on
\* them, unions, undirected patterns and one row of an order are answered
\* with what they mean on every graph.  (expand_additional_patterns,
\* expand_from_bound_terminal, execute_with_clause, execute_return_clause)
QuestionsAreAnswered ==
    answer # Absent /\ "question" \in DOMAIN answer.call =>
        LET meant == Meaning(Reads(conn, disk), answer.call.question)
        IN /\ answer.ok /\ Range(answer.body) = meant
           /\ answer.call.question \notin Repeated => Len(answer.body) = Cardinality(meant)
=============================================================================
