------------------------------- MODULE Cypher -------------------------------
(***************************************************************************)
(* cypher.c: how a parsed query is answered from one project's rows.  A    *)
(* value is a sequence of characters or words, the empty one standing for  *)
(* null; a number is one word.  A binding has the nodes and edges that the *)
(* variables are bound to; a variable is the sequence of its words, since  *)
(* WITH binds names such as a.name.                                        *)
(*                                                                         *)
(* Buffer sizes and allocation are left out, and so is the separator of    *)
(* group keys: a key is the sequence of its values.                        *)
(***************************************************************************)
EXTENDS Store, CypherParser

CONSTANTS
    PatternsOfQueries,  \* the regular expressions that occur in queries
    MaxVars,            \* CYP_MAX_VARS
    MaxEdgeVars,        \* CYP_MAX_EDGE_VARS
    Growth,             \* CYP_GROWTH_10
    MaxDepth,           \* CYP_MAX_DEPTH
    PathLimit,          \* CBM_PERCENT, the rows of one path search
    Ceiling             \* CYPHER_RESULT_CEILING

Number(k) == <<ToString(k)>>
Num(v) == IF \E k \in 0 .. MaxNumber : v = Number(k)
          THEN CHOOSE k \in 0 .. MaxNumber : v = Number(k) ELSE 0

\* What a row order does not say, SQLite does: here by row id, or anyhow.
ById(S)     == Sorted(S, LAMBDA m, n : m.id < n.id)
AnyOrder(S) == FoldSet(LAMBDA x, acc : Append(acc, x), <<>>, S)

StringField(n, prop) ==
    CASE prop = "name"           -> n.name
      [] prop = "qualified_name" -> n.qn
      [] prop = "label"          -> IF n.label = "" THEN <<>> ELSE <<n.label>>
      [] prop = "file_path"      -> n.file
      [] OTHER                   -> <<>>

Stored(n, prop) == IF prop \in DOMAIN n.props THEN n.props[prop] ELSE <<>>

\* A node that WITH carried has its id and name only, and is looked up again.
IsStub(n) == n.id > 0 /\ n.label = "" /\ n.file = <<>>

NodeProp(db, n, prop) ==
    LET rows == FindNodeById(db, n.id)
        full == CHOOSE m \in rows : TRUE
    IN CASE StringField(n, prop) # <<>> -> StringField(n, prop)
         [] prop = "start_line" -> Number(n.from)
         [] prop = "end_line"   -> Number(n.to)
         [] prop = "in_degree"  -> Number(InDegree(db, n.id, "CALLS"))
         [] prop = "out_degree" -> Number(OutDegree(db, n.id, "CALLS"))
         [] Stored(n, prop) # <<>> -> Stored(n, prop)
         [] IsStub(n) /\ rows # {} -> IF StringField(full, prop) # <<>> THEN StringField(full, prop)
                                      ELSE Stored(full, prop)
         [] OTHER -> <<>>

\* Properties written out, and an edge's row told by its ends.
Json(props) == <<ToString(props)>>
RowOf(e)    == <<ToString(<<e.src, e.type, e.tgt>>)>>

EdgeProp(e, prop) == CASE prop = "type" -> <<e.type>>
                       [] prop \in DOMAIN e.props -> e.props[prop]
                       [] OTHER -> <<>>

-----------------------------------------------------------------------------
(* Bindings.                                                                *)

Unbound == [nodes |-> <<>>, edges |-> <<>>]

BindIn(vars, v, x, room) == IF v \in DOMAIN vars \/ Cardinality(DOMAIN vars) < room
                            THEN (v :> x) @@ vars ELSE vars
BindNode(b, v, n) == [b EXCEPT !.nodes = BindIn(@, v, n, MaxVars)]
BindEdge(b, v, e) == IF v = "" THEN b ELSE [b EXCEPT !.edges = BindIn(@, <<v>>, e, MaxEdgeVars)]

\* The whole name first, then an edge, then a node.
Value(db, b, v, prop) ==
    LET full == IF prop = "" THEN v ELSE v \o <<prop>>
    IN CASE full \in DOMAIN b.nodes -> b.nodes[full].name
         [] v \in DOMAIN b.edges -> IF prop = "" THEN Json(b.edges[v].props) ELSE EdgeProp(b.edges[v], prop)
         [] v \in DOMAIN b.nodes -> NodeProp(db, b.nodes[v], prop)
         [] OTHER -> <<>>

Occurs(part, s) == \E k \in 1 .. Len(s) - Len(part) + 1 : SubSeq(s, k, k + Len(part) - 1) = part

\* The library's regular expressions, on the ones that occur.
RegexMatches(text, s) == \E p \in PatternsOfQueries : Text(p) = text /\ Matches(p, s, TRUE)
IsRegex(text)         == \E p \in PatternsOfQueries : Text(p) = text

Compare(op, actual, expected) ==
    CASE op = "="        -> actual = expected
      [] op = "<>"       -> actual # expected
      [] op = "=~"       -> RegexMatches(expected, actual)
      [] op = "CONTAINS" -> Occurs(expected, actual)
      [] op = "STARTS"   -> IsPrefix(expected, actual)
      [] op = "ENDS"     -> IsSuffix(expected, actual)
      [] op = ">"        -> Num(actual) > Num(expected)
      [] op = "<"        -> Num(actual) < Num(expected)
      [] op = ">="       -> Num(actual) >= Num(expected)
      [] op = "<="       -> Num(actual) <= Num(expected)

\* A variable that is not bound: no label, no edge, and every comparison holds.
EvalCondition(db, b, c) ==
    LET v      == <<c.var>>
        bound  == v \in DOMAIN b.nodes
        id     == b.nodes[v].id
        type   == IF c.value = "" THEN None ELSE c.value
        actual == CASE v \in DOMAIN b.edges -> EdgeProp(b.edges[v], c.prop)
                    [] OTHER -> IF c.prop = "" THEN b.nodes[v].name ELSE NodeProp(db, b.nodes[v], c.prop)
    IN CASE c.op = "HAS_LABEL" -> bound /\ b.nodes[v].label = c.value
         [] c.op = "EXISTS"    -> /\ bound
                                  /\ \/ c.prop # "inbound" /\ EdgesBySource(db, id, type) # {}
                                     \/ c.prop # "outbound" /\ EdgesByTarget(db, id, type) # {}
         [] OTHER -> IF ~bound /\ v \notin DOMAIN b.edges THEN TRUE
                     ELSE CASE c.op = "IS NULL"     -> actual = <<>>
                            [] c.op = "IS NOT NULL" -> actual # <<>>
                            [] c.op = "IN"          -> actual \in Range(c.value)
                            [] OTHER                -> Compare(c.op, actual, c.value)

RECURSIVE Eval(_, _, _)
Eval(db, b, e) ==
    CASE e.kind = "always" -> TRUE
      [] e.kind = "cond"   -> EvalCondition(db, b, e)
      [] e.kind = "NOT"    -> ~Eval(db, b, e.left)
      [] e.kind = "AND"    -> Eval(db, b, e.left) /\ Eval(db, b, e.right)
      [] e.kind = "OR"     -> Eval(db, b, e.left) \/ Eval(db, b, e.right)
      [] e.kind = "XOR"    -> Eval(db, b, e.left) # Eval(db, b, e.right)

LooksLikeRegex(s) == \/ Occurs(<<".", "*">>, s) \/ Occurs(<<".", "+">>, s)
                     \/ Range(s) \cap {"[", "(", "|", "^", "$"} # {}

InlineProps(db, n, props) ==
    \A k \in DOMAIN props :
        LET actual == NodeProp(db, n, props[k].key)
        IN IF LooksLikeRegex(props[k].value) /\ IsRegex(props[k].value)
           THEN RegexMatches(props[k].value, actual)
           ELSE actual = props[k].value

LabelMatches(label, alternatives) == alternatives = <<>> \/ label \in Range(alternatives)

-----------------------------------------------------------------------------
(* Matching.                                                                *)

\* One label at a time, or a search for every node up to a limit.
ScanPattern(db, p, np, maxRows) ==
    LET labelled == FlattenSeq([k \in DOMAIN np.labels |-> ById(FindNodesByLabel(db, p, np.labels[k]))])
        all      == Search(db, [AnySearch EXCEPT !.project = p, !.limit = maxRows * Growth]).rows
    IN SelectSeq(IF np.labels = <<>> THEN all ELSE labelled, LAMBDA n : InlineProps(db, n, np.props))

NameOr(np, other) == IF np.var = "" THEN <<other>> ELSE <<np.var>>

\* Ends of any label (mutant of ProcessEdges).
ProcessEdgesAny(db, edges, inbound, np, b, to, rel) ==
    LET end(e) == CHOOSE n \in db.nodes : n.id = IF inbound THEN e.src ELSE e.tgt
        kept   == SelectSeq(AnyOrder(edges), LAMBDA e : to \in DOMAIN b.nodes => b.nodes[to].id = end(e).id)
    IN [k \in DOMAIN kept |-> BindEdge(BindNode(b, to, end(kept[k])), rel.var, kept[k])]

\* The nodes at the other end, unless the variable is bound to another one.
ProcessEdges(db, edges, inbound, np, b, to, rel) ==
    LET end(e)  == CHOOSE n \in db.nodes : n.id = IF inbound THEN e.src ELSE e.tgt
        good(e) == /\ to \in DOMAIN b.nodes => b.nodes[to].id = end(e).id
                   /\ LabelMatches(end(e).label, np.labels) /\ InlineProps(db, end(e), np.props)
        kept    == SelectSeq(AnyOrder(edges), good)
    IN [k \in DOMAIN kept |-> BindEdge(BindNode(b, to, end(kept[k])), rel.var, kept[k])]

\* Every path search row that is far enough; a bound variable is bound anew.
ExpandVarLength(db, rel, np, b, src, to) ==
    LET hops == Bfs(db, src.id, rel.dir = "inbound", Range(rel.types),
                    IF rel.hops.max > 0 THEN rel.hops.max ELSE MaxDepth, PathLimit).visited
        node(h) == CHOOSE n \in db.nodes : n.id = h.id
        good(h) == /\ h.hop >= rel.hops.min
                   /\ LabelMatches(node(h).label, np.labels) /\ InlineProps(db, node(h), np.props)
        kept    == SelectSeq(hops, good)
    IN [k \in DOMAIN kept |-> BindNode(b, to, node(kept[k]))]

\* Type by type; the other direction after all types.
ExpandFixedLength(db, rel, np, b, src, to) ==
    LET types   == IF rel.types = <<>> THEN <<None>> ELSE rel.types
        side(t, inbound) == ProcessEdges(db, IF inbound THEN EdgesByTarget(db, src.id, t)
                                             ELSE EdgesBySource(db, src.id, t), inbound, np, b, to, rel)
        over(inbound) == FlattenSeq([k \in DOMAIN types |-> side(types[k], inbound)])
    IN over(rel.dir = "inbound") \o (IF rel.dir = "any" THEN over(TRUE) ELSE <<>>)

\* Hop by hop; cap bounds the rows a hop may add, and an optional hop keeps
\* the row it finds nothing for, if its first end is bound.
RECURSIVE ExpandRels(_, _, _, _, _, _)
ExpandRels(db, pat, k, bs, v, cap) ==
    LET rel == pat.rels[k]
        np  == pat.nodes[k + 1]
        to  == NameOr(np, "_n_t")
        ofRow(b) == IF rel.hops = [min |-> 1, max |-> 1]
                    THEN ExpandFixedLength(db, rel, np, b, b.nodes[v], to)
                    ELSE ExpandVarLength(db, rel, np, b, b.nodes[v], to)
        step(acc, b) ==
            IF v \notin DOMAIN b.nodes THEN acc
            ELSE LET new == Take(ofRow(b), IF cap * Growth > Len(acc) THEN cap * Growth - Len(acc) ELSE 0)
                 IN acc \o (IF pat.optional /\ new = <<>> THEN <<b>> ELSE new)
    IN IF k > Len(pat.rels) THEN bs
       ELSE ExpandRels(db, pat, k + 1, FoldLeft(step, <<>>, bs), to, cap)

\* From the bound far end back to the first node of a pattern of one hop.
ExpandFromTerminal(db, pat, bs, v) ==
    LET rel   == pat.rels[1]
        np    == [pat.nodes[1] EXCEPT !.props = <<>>]
        back  == rel.dir # "inbound"
        types == IF rel.types = <<>> THEN <<None>> ELSE rel.types
        cap   == Len(bs) * Growth + 1
        term(b) == b.nodes[<<pat.nodes[2].var>>]
        side(b, t) == ProcessEdges(db, IF back THEN EdgesByTarget(db, term(b).id, t)
                                       ELSE EdgesBySource(db, term(b).id, t), back, np,
                                   [b EXCEPT !.nodes = Restrict(@, DOMAIN @ \ {v})], v, rel)
        step(acc, b) ==
            LET new  == IF <<pat.nodes[2].var>> \notin DOMAIN b.nodes THEN <<>>
                        ELSE FlattenSeq([k \in DOMAIN types |-> side(b, types[k])])
                room == cap - Len(acc)
            IN acc \o (IF room <= 0 THEN <<>> ELSE IF pat.optional /\ new = <<>> THEN <<b>> ELSE Take(new, room))
    IN FoldLeft(step, <<>>, bs)

\* Each row with each node, and the pattern's hops from there, ten at most.
CrossJoin(db, pat, bs, extra, v) ==
    LET one(b, n) == ExpandRels(db, pat, 1, <<BindNode(b, v, n)>>, v, 1)
        row(b)    == IF extra = <<>> /\ pat.optional THEN <<b>>
                     ELSE FlattenSeq([k \in DOMAIN extra |-> one(b, extra[k])])
    IN FlattenSeq([k \in DOMAIN bs |-> row(bs[k])])

\* Which variables are bound is read off the first row.
ExpandAdditional(db, p, pats, bs, maxRows, cap) ==
    LET step(acc, pat) ==
            LET v     == NameOr(pat.nodes[1], "_n_extra")
                bound(x) == acc # <<>> /\ x \in DOMAIN acc[1].nodes
            IN IF bound(v) /\ pat.rels # <<>> THEN ExpandRels(db, pat, 1, acc, v, cap)
               ELSE IF Len(pat.rels) = 1 /\ ~bound(v) /\ bound(<<pat.nodes[2].var>>)
               THEN ExpandFromTerminal(db, pat, acc, v)
               ELSE CrossJoin(db, pat, acc, ScanPattern(db, p, pat.nodes[1], maxRows), v)
    IN FoldLeft(step, bs, Tail(pats))

-----------------------------------------------------------------------------
(* Projection.                                                              *)

\* Letters that are not capitals have no other capital here.
UpperOf(c) == IF \E d \in DOMAIN LowerOf : LowerOf[d] = c THEN CHOOSE d \in DOMAIN LowerOf : LowerOf[d] = c ELSE c
Blanks == {" ", "\n"}

RECURSIVE TrimLeft(_)
TrimLeft(s) == IF s # <<>> /\ s[1] \in Blanks THEN TrimLeft(Tail(s)) ELSE s

ApplyStringFunc(func, s) ==
    CASE func = "TOLOWER"   -> Lower(s)
      [] func = "TOUPPER"   -> [k \in DOMAIN s |-> UpperOf(s[k])]
      [] func = "toInteger" -> IF s = Number(Num(s)) THEN s ELSE <<>>
      [] func = "toFloat"   -> IF s = Number(Num(s)) THEN s ELSE <<>>
      [] func = "toBoolean" -> IF s \in {<<"true">>, <<"false">>} THEN s ELSE <<>>
      [] func \in {"size", "length"} -> Number(Len(s))
      [] func = "trim"      -> Reverse(TrimLeft(Reverse(TrimLeft(s))))
      [] func = "ltrim"     -> TrimLeft(s)
      [] func = "rtrim"     -> Reverse(TrimLeft(Reverse(s)))
      [] func = "reverse"   -> Reverse(s)
      [] OTHER              -> s

RECURSIVE ReplaceText(_, _, _)
ReplaceText(s, from, to) ==
    IF s = <<>> \/ from = <<>> THEN s
    ELSE IF IsPrefix(from, s) THEN to \o ReplaceText(SubSeq(s, Len(from) + 1, Len(s)), from, to)
    ELSE <<s[1]>> \o ReplaceText(Tail(s), from, to)

\* Too few arguments are null.
MultiArg(db, b, item) ==
    LET arg(k) == LET a == item.args[k] IN IF a.literal # <<>> THEN a.literal ELSE Value(db, b, <<a.var>>, a.prop)
        n      == Len(item.args)
        s      == arg(1)
        at     == Num(arg(2))
        firsts == SelectSeq([k \in 1 .. n |-> arg(k)], LAMBDA v : v # <<>>)
    IN CASE item.func = "coalesce" -> IF firsts = <<>> THEN <<>> ELSE firsts[1]
         [] item.func = "substring" /\ n >= 2 ->
              Take(SubSeq(s, at + 1, Len(s)), IF n >= 3 THEN Num(arg(3)) ELSE Len(s))
         [] item.func = "left" /\ n >= 2  -> Take(s, at)
         [] item.func = "right" /\ n >= 2 -> IF at < Len(s) THEN SubSeq(s, Len(s) - at + 1, Len(s)) ELSE s
         [] item.func = "replace" /\ n >= 3 -> IF arg(2) = <<>> THEN s ELSE ReplaceText(s, arg(2), arg(3))
         [] OTHER -> <<>>

NodeKeys(n) == SelectSeq(<<"name", "qualified_name", "label", "file_path", "start_line", "end_line">>,
                   LAMBDA k : CASE k = "start_line" -> n.from > 0 [] k = "end_line" -> n.to > 0
                                [] OTHER -> StringField(n, k) # <<>>)

EvalCase(db, b, item) ==
    LET true == {k \in DOMAIN item.kase : Eval(db, b, item.kase[k].when)}
    IN IF true = {} THEN item.else ELSE item.kase[Min(true)].then

ProjectItem(db, b, item) ==
    LET v      == <<item.var>>
        isNode == v \in DOMAIN b.nodes
        isEdge == v \in DOMAIN b.edges
    IN CASE item.var = "CASE"          -> EvalCase(db, b, item)
         [] item.args # <<>>           -> MultiArg(db, b, item)
         [] item.func = "labels"       -> IF isNode THEN <<"[", b.nodes[v].label, "]">> ELSE <<"[]">>
         [] item.func = "type"         -> IF isEdge THEN <<b.edges[v].type>> ELSE <<>>
         [] item.func = "id"           -> IF isNode THEN Number(b.nodes[v].id)
                                         ELSE IF isEdge THEN RowOf(b.edges[v]) ELSE <<>>
         [] item.func = "keys"         -> IF isNode THEN NodeKeys(b.nodes[v]) ELSE <<"[]">>
         [] item.func = "properties"   -> IF isNode THEN Json(b.nodes[v].props)
                                         ELSE IF isEdge THEN Json(b.edges[v].props) ELSE <<"{}">>
         [] OTHER                      -> ApplyStringFunc(item.func, Value(db, b, v, item.prop))

\* The first of equal elements.
Distinct(s) == FoldLeft(LAMBDA acc, x : IF x \in Range(acc) THEN acc ELSE Append(acc, x), <<>>, s)

\* The limit counts what is skipped (mutant of SkipLimit).
SkipWithinLimit(rows, skip, limit) ==
    LET part == IF limit >= 0 THEN Take(rows, limit) ELSE rows
    IN IF skip >= Len(part) THEN <<>> ELSE SubSeq(part, skip + 1, Len(part))

SkipLimit(rows, skip, limit) ==
    LET rest == IF skip >= Len(rows) THEN <<>> ELSE SubSeq(rows, skip + 1, Len(rows))
    IN IF limit >= 0 THEN Take(rest, limit) ELSE rest

\* A stable order of rows by their keys: by numbers if the first key that is not
\* empty is one, else by characters.
SortBy(rows, keys, desc) ==
    LET firsts  == SelectSeq(keys, LAMBDA v : v # <<>>)
        numeric == firsts # <<>> /\ firsts[1] = Number(Num(firsts[1]))
        less(i, j) == IF numeric THEN Num(keys[i]) < Num(keys[j]) ELSE Before(keys[i], keys[j])
        first(i, j) == IF desc THEN less(j, i) \/ (~less(i, j) /\ i < j)
                       ELSE less(i, j) \/ (~less(j, i) /\ i < j)
        order   == Sorted(DOMAIN rows, first)
    IN [k \in DOMAIN rows |-> rows[order[k]]]

\* The numbers of a value that is one, an average as its two.
Ratio(v) == CASE v = Number(Num(v)) -> <<Num(v), 1>>
              [] Len(v) = 3 /\ v[2] = "/" -> <<Num(<<v[1]>>), Num(<<v[3]>>)>>
              [] OTHER -> <<>>

\* WITH asks of each pair whether both are numbers, which need not be an order:
\* what comes out is what the passes over neighbours make of it.
SortBindings(bs, keys, desc) ==
    LET less(v, w) == IF Ratio(v) # <<>> /\ Ratio(w) # <<>>
                      THEN Ratio(v)[1] * Ratio(w)[2] < Ratio(w)[1] * Ratio(v)[2] ELSE Before(v, w)
        wrong(x, y) == IF desc THEN less(x.key, y.key) ELSE less(y.key, x.key)
        swap(s, j) == IF wrong(s[j], s[j + 1]) THEN [s EXCEPT ![j] = s[j + 1], ![j + 1] = s[j]] ELSE s
        pass(s, i) == FoldLeft(swap, s, [j \in 1 .. Len(s) - i |-> j])
        keyed      == [k \in DOMAIN bs |-> [key |-> keys[k], of |-> bs[k]]]
        inOrder    == FoldLeft(pass, keyed, [i \in 1 .. Len(bs) - 1 |-> i])
    IN [k \in DOMAIN bs |-> inOrder[k].of]

IsAggregation(items) == \E k \in DOMAIN items : items[k].func \in Aggregates

\* A quotient that is no integer is kept as its two numbers.
Average(sum, n) == IF sum % n = 0 THEN Number(sum \div n) ELSE <<ToString(sum), "/", ToString(n)>>

\* What WITH knows: anything else, COLLECT included, counts the rows.
Aggregate(item, vals) ==
    LET nums == [k \in DOMAIN vals |-> Num(vals[k])]
        sum  == FoldLeft(+, 0, nums)
    IN CASE item.func = "COUNT" /\ item.distinct -> Number(Cardinality(Range(vals)))
         [] item.func = "SUM" -> Number(sum)
         [] item.func = "AVG" -> Average(sum, Len(vals))
         [] item.func = "MIN" -> Number(Min(Range(nums)))
         [] item.func = "MAX" -> Number(Max(Range(nums)))
         [] OTHER             -> Number(Len(vals))

\* The rows of each group, groups in the order they are met; an item with any
\* function is no part of the key.
Groups(bs, key(_)) ==
    LET keys == Distinct([k \in DOMAIN bs |-> key(bs[k])])
    IN [k \in DOMAIN keys |-> SelectSeq(bs, LAMBDA b : key(b) = keys[k])]

ItemValue(db, b, item) == Value(db, b, <<item.var>>, item.prop)
GroupKey(db, b, items, val(_, _, _)) ==
    LET plain == SelectSeq(items, LAMBDA i : i.func = "")
    IN [k \in DOMAIN plain |-> val(db, b, plain[k])]
ValuesOf(db, bs, item) == [k \in DOMAIN bs |-> ItemValue(db, bs[k], item)]

Alias(item) == IF item.alias # <<>> THEN item.alias
               ELSE IF item.prop = "" THEN <<item.var>> ELSE <<item.var, item.prop>>

\* A value under a name, and the node's id if it stands for one.
Virtual(alias, val, id) ==
    [id |-> id, project |-> None, label |-> "", name |-> val, qn |-> alias, file |-> <<>>,
     from |-> 0, to |-> 0, test |-> FALSE, ext |-> "", props |-> <<>>]

AddVirtual(b, alias, val, id) ==
    IF Cardinality(DOMAIN b.nodes) < MaxVars
    THEN [b EXCEPT !.nodes = @ @@ (alias :> Virtual(alias, val, id))] ELSE b

WithAggregate(db, items, bs) ==
    LET of(group) ==
            LET add(b, item) ==
                    LET v  == <<item.var>>
                        id == IF item.prop = "" /\ v \in DOMAIN group[1].nodes THEN group[1].nodes[v].id ELSE 0
                    IN IF item.func # ""
                       THEN AddVirtual(b, Alias(item), Aggregate(item, ValuesOf(db, group, item)), 0)
                       ELSE AddVirtual(b, Alias(item), ItemValue(db, group[1], item), id)
            IN FoldLeft(add, Unbound, items)
        groups == Groups(bs, LAMBDA b : GroupKey(db, b, items, ItemValue))
    IN [k \in DOMAIN groups |-> of(groups[k])]

WithSimple(db, items, bs) ==
    LET of(b) == FoldLeft(LAMBDA acc, i : AddVirtual(acc, Alias(i), ProjectItem(db, b, i), 0), Unbound, items)
    IN [k \in DOMAIN bs |-> of(bs[k])]

\* Duplicates go before the order and the limit.
WithClause(db, w, post, bs) ==
    LET rows   == IF IsAggregation(w.items) THEN WithAggregate(db, w.items, bs) ELSE WithSimple(db, w.items, bs)
        key(b) == [k \in DOMAIN w.items |-> Value(db, b, Alias(w.items[k]), "")]
        once   == FoldLeft(LAMBDA acc, b : IF \E k \in DOMAIN acc : key(acc[k]) = key(b)
                                           THEN acc ELSE Append(acc, b), <<>>, rows)
        kept   == IF w.distinct THEN once ELSE rows
        keys    == [k \in DOMAIN kept |-> Value(db, kept[k], w.order, "")]
        inOrder == IF w.order = <<>> THEN kept ELSE SortBindings(kept, keys, w.desc)
    IN IF w = Nothing THEN bs
       ELSE SelectSeq(SkipLimit(inOrder, w.skip, w.limit), LAMBDA b : Eval(db, b, post))

PatternVars(pats) ==
    FlattenSeq([k \in DOMAIN pats |->
        SelectSeq([i \in DOMAIN pats[k].nodes |-> pats[k].nodes[i].var]
                  \o [i \in DOMAIN pats[k].rels |-> pats[k].rels[i].var], LAMBDA v : v # "")])

\* Four columns of a node; an edge shows its type in the first.
StarRow(b, vars) ==
    LET cols(v) == IF <<v>> \in DOMAIN b.edges THEN <<EdgeProp(b.edges[<<v>>], "type"), <<>>, <<>>, <<>>>>
                   ELSE IF <<v>> \notin DOMAIN b.nodes THEN <<<<>>, <<>>, <<>>, <<>>>>
                   ELSE LET n == b.nodes[<<v>>]
                        IN <<n.name, n.qn, StringField(n, "label"), n.file>>
    IN FlattenSeq([k \in DOMAIN vars |-> cols(vars[k])])

DefaultRow(b, vars) ==
    FlattenSeq([k \in DOMAIN vars |->
        IF <<vars[k]>> \in DOMAIN b.nodes
        THEN LET n == b.nodes[<<vars[k]>>] IN <<n.name, n.qn, StringField(n, "label")>> ELSE <<<<>>, <<>>, <<>>>>])

ReturnAggregate(db, items, bs) ==
    LET cell(group, item) ==
            CASE item.func = "" -> ProjectItem(db, group[1], item)
              [] item.func = "COLLECT" -> FlattenSeq(ValuesOf(db, group, item))
              [] OTHER -> Aggregate(item, ValuesOf(db, group, item))
        groups == Groups(bs, LAMBDA b : GroupKey(db, b, items, ProjectItem))
    IN [g \in DOMAIN groups |-> [k \in DOMAIN items |-> cell(groups[g], items[k])]]

ReturnSimple(db, r, bs, maxRows) ==
    LET cap == IF r.limit > 0 /\ r.order = <<>> /\ r.skip <= 0 THEN r.limit ELSE maxRows
    IN [k \in DOMAIN Take(bs, cap) |-> [i \in DOMAIN r.items |-> ProjectItem(db, bs[k], r.items[i])]]

Column(item) == IF item.alias # <<>> THEN item.alias
                ELSE IF item.func # "" THEN <<item.func, "(", item.var>>
                ELSE IF item.prop # "" THEN <<item.var, item.prop>> ELSE <<item.var>>

OrderColumn(r) == {k \in DOMAIN r.items : Column(r.items[k]) = r.order}

\* The order, the limit, and only then the duplicates.
ReturnClause(db, q, r, bs, maxRows) ==
    LET rows == CASE r.star                 -> [k \in DOMAIN Take(bs, maxRows) |-> StarRow(bs[k], PatternVars(q.patterns))]
                  [] IsAggregation(r.items) -> ReturnAggregate(db, r.items, bs)
                  [] OTHER                  -> ReturnSimple(db, r, bs, maxRows)
        cols == OrderColumn(r)
        inOrder == IF r.order = <<>> \/ cols = {} THEN rows
                   ELSE SortBy(rows, [k \in DOMAIN rows |-> rows[k][Min(cols)]], r.desc)
        part == SkipLimit(inOrder, r.skip, IF r.limit >= 0 THEN r.limit ELSE maxRows)
    IN IF r.distinct THEN Distinct(part) ELSE part

\* WHERE is asked of the first nodes alone, and again of the whole rows.
ExecuteSingle(db, p, q, maxRows) ==
    LET first   == q.patterns[1]
        v       == NameOr(first.nodes[1], "_n0")
        scanned == ScanPattern(db, p, first.nodes[1], maxRows)
        seeds   == SelectSeq([k \in DOMAIN scanned |-> BindNode(Unbound, v, scanned[k])],
                             LAMBDA b : Eval(db, b, q.where))
        cap     == IF Len(scanned) > maxRows THEN Len(scanned) ELSE maxRows
        paths   == ExpandRels(db, first, 1, seeds, v, cap)
        more    == ExpandAdditional(db, p, q.patterns, paths, maxRows, cap)
        late    == IF first.rels # <<>> \/ Len(q.patterns) > 1
                   THEN SelectSeq(more, LAMBDA b : Eval(db, b, q.where)) ELSE more
        rows    == WithClause(db, q.with, q.post, late)
        vars    == SelectSeq([i \in DOMAIN first.nodes |-> first.nodes[i].var], LAMBDA x : x # "")
    IN IF q.ret = Nothing THEN [k \in DOMAIN Take(rows, maxRows) |-> DefaultRow(rows[k], vars)]
       ELSE ReturnClause(db, q, q.ret, rows, maxRows)

RECURSIVE Unions(_, _, _, _)
Unions(db, p, q, maxRows) ==
    ExecuteSingle(db, p, q, maxRows) \o (IF q.union = <<>> THEN <<>> ELSE Unions(db, p, q.union[1], maxRows))

\* UNION ALL keeps duplicates; too many rows are an error.
Execute(db, p, text, asked) ==
    LET maxRows == IF asked <= 0 THEN Ceiling ELSE asked
        parsed  == Parse(Lex(text))
        q       == parsed.out
        rows    == Unions(db, p, q, maxRows)
        result  == IF q.union # <<>> /\ ~q.all THEN Distinct(rows) ELSE rows
    IN IF Failed(parsed) \/ Len(result) >= Ceiling THEN [ok |-> FALSE, rows |-> <<>>]
       ELSE [ok |-> TRUE, rows |-> result]
=============================================================================
