---------------------------- MODULE CypherParser ----------------------------
(***************************************************************************)
(* The lexer and the parser of cypher.c.  A query is a sequence of words,  *)
(* numbers, spaces and punctuation characters, a literal's characters one  *)
(* by one; words of letters and numbers of digits are not taken apart.     *)
(* Keywords are in capitals.                                               *)
(*                                                                         *)
(* A parser takes the tokens and a position and returns where it stopped   *)
(* and what it read, or Fail.  The code's expect() whose result is ignored *)
(* is Skip: what should stand there may be missing.                        *)
(***************************************************************************)
EXTENDS Integers, Sequences, FiniteSets, Functions, SequencesExt, TLC

CONSTANT MaxNumber      \* numbers up to this one occur

Digits == {ToString(k) : k \in 0 .. MaxNumber}
Points == {"(", ")", "[", "]", "-", ">", "<", ":", ".", "{", "}", "*", ",", "=", "|"}
Pairs == {<<"!", "=">>, <<"<", ">">>, <<"=", "~">>, <<">", "=">>, <<"<", "=">>, <<".", ".">>}

Unsupported == {"CREATE", "DELETE", "DETACH", "SET", "REMOVE", "MERGE", "YIELD", "CALL",
                "FOREACH", "MANDATORY", "DROP", "CONSTRAINT"}
Aggregates == {"COUNT", "SUM", "AVG", "MIN", "MAX", "COLLECT"}
StringFuncs == {"TOLOWER", "TOUPPER", "TOSTRING"}
ScalarFuncs == {"labels", "type", "id", "keys", "properties", "toInteger", "toFloat",
                "toBoolean", "size", "length", "trim", "ltrim", "rtrim", "reverse"}
MultiFuncs == {"coalesce", "substring", "replace", "left", "right"}

Keywords == Unsupported \cup Aggregates \cup StringFuncs \cup
    {"MATCH", "WHERE", "RETURN", "ORDER", "BY", "LIMIT", "AND", "OR", "AS", "DISTINCT",
     "CONTAINS", "STARTS", "WITH", "NOT", "ASC", "DESC", "ENDS", "IN", "IS", "NULL", "XOR",
     "SKIP", "UNION", "UNWIND", "CASE", "WHEN", "THEN", "ELSE", "END", "OPTIONAL", "ALL",
     "TRUE", "FALSE", "EXISTS"}

Token(k, v) == [k |-> k, v |-> v]

\* The first position from i whose character is in cs, or the end.
Upto(s, i, cs) == IF \E k \in i .. Len(s) : s[k] \in cs
                  THEN CHOOSE k \in i .. Len(s) : s[k] \in cs /\ \A m \in i .. k - 1 : s[m] \notin cs
                  ELSE Len(s) + 1

\* The characters of a literal up to its quote, a backslash taking the next.
RECURSIVE LexLiteral(_, _, _)
LexLiteral(s, i, quote) ==
    IF i > Len(s) \/ s[i] = quote THEN [text |-> <<>>, at |-> i + 1]
    ELSE LET k    == IF s[i] = "\\" /\ i < Len(s) THEN i + 1 ELSE i
             rest == LexLiteral(s, k + 1, quote)
         IN [rest EXCEPT !.text = <<s[k]>> \o @]

LexWord(w) == IF w \in Keywords THEN Token(w, <<>>) ELSE Token("id", <<w>>)

EndOfComment(s, i) ==
    IF \E k \in i .. Len(s) - 1 : s[k] = "*" /\ s[k + 1] = "/"
    THEN 2 + CHOOSE k \in i .. Len(s) - 1 : s[k] = "*" /\ s[k + 1] = "/"
    ELSE Len(s) + 1

RECURSIVE LexFrom(_, _)
LexFrom(s, i) ==
    LET two == IF i < Len(s) THEN <<s[i], s[i + 1]>> ELSE <<>>
        lit == LexLiteral(s, i + 1, s[i])
    IN IF i > Len(s) THEN <<>>
       ELSE CASE s[i] \in {" ", "\n"}      -> LexFrom(s, i + 1)
              [] two \in {<<"/", "/">>, <<"-", "-">>} -> LexFrom(s, Upto(s, i, {"\n"}))
              [] two = <<"/", "*">>        -> LexFrom(s, EndOfComment(s, i + 2))
              [] s[i] \in {"'", "\""}      -> <<Token("str", lit.text)>> \o LexFrom(s, lit.at)
              [] s[i] \in Digits           -> <<Token("num", <<s[i]>>)>> \o LexFrom(s, i + 1)
              [] two \in Pairs             -> <<Token(IF two = <<"!", "=">> THEN "<>" ELSE two[1] \o two[2],
                                                      <<>>)>> \o LexFrom(s, i + 2)
              [] s[i] \in Points           -> <<Token(s[i], <<>>)>> \o LexFrom(s, i + 1)
              [] s[i] \in {"/", "!", "~", ";", "$"} -> LexFrom(s, i + 1)
              [] OTHER                     -> <<LexWord(s[i])>> \o LexFrom(s, i + 1)
Lex(s) == LexFrom(s, 1)

-----------------------------------------------------------------------------
Kind(ts, p) == IF p \in DOMAIN ts THEN ts[p].k ELSE "eof"
Word(ts, p) == ts[p].v[1]
Skip(ts, p, k) == IF Kind(ts, p) = k THEN p + 1 ELSE p

Got(p, x)  == [at |-> p, out |-> x]
Fail       == Got(0, <<>>)
Failed(r)  == r.at = 0

\* Identifiers with bars between them.
RECURSIVE Alternatives(_, _)
Alternatives(ts, p) ==
    IF Kind(ts, p) # "id" THEN Fail
    ELSE IF Kind(ts, p + 1) # "|" THEN Got(p + 1, <<Word(ts, p)>>)
    ELSE LET rest == Alternatives(ts, p + 2)
         IN IF Failed(rest) THEN Fail ELSE [rest EXCEPT !.out = <<Word(ts, p)>> \o @]

\* key: 'value' pairs to the closing brace; the comma may be missing.
RECURSIVE ParseProps(_, _)
ParseProps(ts, p) ==
    IF Kind(ts, p) \in {"}", "eof"} THEN Got(Skip(ts, p, "}"), <<>>)
    ELSE IF <<Kind(ts, p), Kind(ts, p + 1), Kind(ts, p + 2)>> # <<"id", ":", "str">> THEN Fail
    ELSE LET rest == ParseProps(ts, Skip(ts, p + 3, ","))
         IN IF Failed(rest) THEN Fail
            ELSE [rest EXCEPT !.out = <<[key |-> Word(ts, p), value |-> ts[p + 2].v]>> \o @]

ParseNode(ts, p) ==
    LET v    == IF Kind(ts, p + 1) = "id" THEN Word(ts, p + 1) ELSE ""
        p1   == Skip(ts, p + 1, "id")
        ls   == IF Kind(ts, p1) = ":" THEN Alternatives(ts, p1 + 1) ELSE Got(p1, <<>>)
        ps   == IF Kind(ts, ls.at) = "{" THEN ParseProps(ts, ls.at + 1) ELSE Got(ls.at, <<>>)
    IN IF Kind(ts, p) # "(" \/ Failed(ls) \/ Failed(ps) \/ Kind(ts, ps.at) # ")" THEN Fail
       ELSE Got(ps.at + 1, [var |-> v, labels |-> ls.out, props |-> ps.out])

NumberAt(ts, p) == CHOOSE k \in 0 .. MaxNumber : ts[p].v = <<ToString(k)>>

\* After the star: m..n, m.., n, ..n or nothing; 0 is no upper bound.
HopRange(ts, p) ==
    LET low  == Kind(ts, p) = "num"
        dots == IF low THEN p + 1 ELSE p
        last == Kind(ts, dots + 1) = "num"
    IN IF Kind(ts, dots) = ".."
       THEN Got(IF last THEN dots + 2 ELSE dots + 1,
                [min |-> IF low THEN NumberAt(ts, p) ELSE 1,
                 max |-> IF last THEN NumberAt(ts, dots + 1) ELSE 0])
       ELSE Got(dots, [min |-> 1, max |-> IF low THEN NumberAt(ts, p) ELSE 0])

ParseBracket(ts, p) ==
    LET v    == IF Kind(ts, p) = "id" THEN Word(ts, p) ELSE ""
        p1   == Skip(ts, p, "id")
        tys  == IF Kind(ts, p1) = ":" THEN Alternatives(ts, p1 + 1) ELSE Got(p1, <<>>)
        hops == IF Kind(ts, tys.at) = "*" THEN HopRange(ts, tys.at + 1)
                ELSE Got(tys.at, [min |-> 1, max |-> 1])
    IN IF Failed(tys) \/ Kind(ts, hops.at) # "]" THEN Fail
       ELSE Got(hops.at + 1, [var |-> v, types |-> tys.out, hops |-> hops.out])

ParseRel(ts, p) ==
    LET left  == Kind(ts, p) = "<"
        dash  == Skip(ts, p, "<")
        inner == IF Kind(ts, dash + 1) = "[" THEN ParseBracket(ts, dash + 2)
                 ELSE Got(dash + 1, [var |-> "", types |-> <<>>, hops |-> [min |-> 1, max |-> 1]])
        right == Kind(ts, inner.at + 1) = ">"
    IN IF Kind(ts, dash) # "-" \/ Failed(inner) \/ Kind(ts, inner.at) # "-" THEN Fail
       ELSE Got(Skip(ts, inner.at + 1, ">"),
                inner.out @@ [dir |-> IF left /\ ~right THEN "inbound"
                                      ELSE IF right /\ ~left THEN "outbound" ELSE "any"])

-----------------------------------------------------------------------------
Leaf(op, v, prop, value) == [kind |-> "cond", op |-> op, var |-> v, prop |-> prop, value |-> value]

\* Values up to the first thing that is neither a string nor a number.
RECURSIVE InList(_, _)
InList(ts, p) ==
    IF Kind(ts, p) \notin {"str", "num"} THEN Got(Skip(ts, p, "]"), <<>>)
    ELSE LET rest == InList(ts, Skip(ts, p + 1, ","))
         IN [rest EXCEPT !.out = <<ts[p].v>> \o @]

Comparisons == {"=", "<>", "=~", ">=", "<=", ">", "<", "CONTAINS", "STARTS", "ENDS"}

Literal(ts, p) == CASE Kind(ts, p) \in {"str", "num"} -> ts[p].v
                    [] Kind(ts, p) = "TRUE"           -> <<"true">>
                    [] Kind(ts, p) = "FALSE"          -> <<"false">>

\* EXISTS { (v)-[:TYPE]->() }: one hop, the first type, no far label.
ParseExists(ts, p) ==
    LET n   == ParseNode(ts, p + 2)
        rel == ParseRel(ts, n.at)
        far == ParseNode(ts, rel.at)
    IN IF Kind(ts, p + 1) # "{" \/ Failed(n) \/ Failed(rel) \/ Failed(far) THEN Fail
       ELSE Got(Skip(ts, far.at, "}"),
                Leaf("EXISTS", n.out.var, rel.out.dir, IF rel.out.types = <<>> THEN "" ELSE rel.out.types[1]))

Condition(ts, p) ==
    LET prop == IF <<Kind(ts, p + 1), Kind(ts, p + 2)>> = <<".", "id">> THEN Word(ts, p + 2) ELSE ""
        q    == IF prop = "" THEN p + 1 ELSE p + 3
        v    == Word(ts, p)
        op   == Kind(ts, q)
        r    == IF op \in {"STARTS", "ENDS"} THEN Skip(ts, q + 1, "WITH") ELSE q + 1
        list == InList(ts, q + 2)
    IN CASE Kind(ts, p) = "EXISTS" -> ParseExists(ts, p)
         [] Kind(ts, p) # "id"     -> Fail
         [] Kind(ts, p + 1) = ":"  -> IF Kind(ts, p + 2) # "id" THEN Fail
                                      ELSE Got(p + 3, Leaf("HAS_LABEL", v, "", Word(ts, p + 2)))
         [] Kind(ts, p + 1) = "." /\ prop = "" -> Fail
         [] op = "IS" -> IF Kind(ts, q + 1) = "NOT"
                         THEN Got(Skip(ts, q + 2, "NULL"), Leaf("IS NOT NULL", v, prop, <<>>))
                         ELSE Got(Skip(ts, q + 1, "NULL"), Leaf("IS NULL", v, prop, <<>>))
         [] op = "IN" -> IF Kind(ts, q + 1) # "[" THEN Fail
                         ELSE Got(list.at, Leaf("IN", v, prop, list.out))
         [] OTHER     -> IF op \notin Comparisons \/ Kind(ts, r) \notin {"str", "num", "TRUE", "FALSE"} THEN Fail
                         ELSE Got(r + 1, Leaf(op, v, prop, Literal(ts, r)))

Connectives == <<"OR", "XOR", "AND">>

\* The loosest connective first, each level from left to right.
RECURSIVE Expr(_, _, _), Chain(_, _, _)
Expr(ts, p, level) ==
    LET inner == IF Kind(ts, p) = "NOT" THEN Expr(ts, p + 1, 4) ELSE Expr(ts, p + 1, 1)
    IN CASE level <= 3            -> LET left == Expr(ts, p, level + 1)
                                     IN IF Failed(left) THEN Fail ELSE Chain(ts, left, level)
         [] Kind(ts, p) = "NOT"   -> IF Failed(inner) THEN Fail
                                     ELSE Got(inner.at, [kind |-> "NOT", left |-> inner.out])
         [] Kind(ts, p) = "("     -> IF Failed(inner) THEN Fail
                                     ELSE Got(Skip(ts, inner.at, ")"), inner.out)
         [] OTHER                 -> Condition(ts, p)
Chain(ts, left, level) ==
    IF Kind(ts, left.at) # Connectives[level] THEN left
    ELSE LET right == Expr(ts, left.at + 1, level + 1)
         IN IF Failed(right) THEN Fail
            ELSE Chain(ts, Got(right.at, [kind |-> Connectives[level],
                                          left |-> left.out, right |-> right.out]), level)

Always == [kind |-> "always"]
ParseWhere(ts, p) == IF Kind(ts, p) = "WHERE" THEN Expr(ts, p + 1, 1) ELSE Got(p, Always)

-----------------------------------------------------------------------------
\* v or v.prop.
ParseVar(ts, p) ==
    IF Kind(ts, p) # "id" THEN Fail
    ELSE IF Kind(ts, p + 1) # "." THEN Got(p + 1, [var |-> Word(ts, p), prop |-> ""])
    ELSE IF Kind(ts, p + 2) # "id" THEN Got(p + 2, [var |-> Word(ts, p), prop |-> ""])
    ELSE Got(p + 3, [var |-> Word(ts, p), prop |-> Word(ts, p + 2)])

Item(v, prop, func) == [var |-> v, prop |-> prop, func |-> func, args |-> <<>>, kase |-> <<>>,
                        else |-> <<>>, alias |-> <<>>, distinct |-> FALSE]

\* A literal, or the words of a variable, which are taken as they stand.
ValueLiteral(ts, p) ==
    CASE Kind(ts, p) \in {"str", "num", "TRUE", "FALSE"} -> Got(p + 1, Literal(ts, p))
      [] Kind(ts, p) = "id" -> LET v == ParseVar(ts, p)
                               IN Got(v.at, IF v.out.prop = "" THEN <<v.out.var>>
                                            ELSE <<v.out.var, ".", v.out.prop>>)
      [] OTHER -> Got(p, <<>>)

\* WHEN .. THEN .. up to ELSE or END, for well-formed conditions.
RECURSIVE ParseCase(_, _)
ParseCase(ts, p) ==
    IF Kind(ts, p) # "WHEN"
    THEN LET other == IF Kind(ts, p) = "ELSE" THEN ValueLiteral(ts, p + 1) ELSE Got(p, <<>>)
         IN Got(Skip(ts, other.at, "END"), [Item("CASE", "", "") EXCEPT !.else = other.out])
    ELSE LET when == Expr(ts, p + 1, 1)
             then == ValueLiteral(ts, when.at + 1)
             rest == ParseCase(ts, then.at)
         IN IF Failed(when) \/ Kind(ts, when.at) # "THEN" THEN Fail
            ELSE [rest EXCEPT !.out.kase = <<[when |-> when.out, then |-> then.out]>> \o @]

RECURSIVE ParseArgs(_, _)
ParseArgs(ts, p) ==
    LET v    == ParseVar(ts, p)
        arg  == IF Kind(ts, p) \in {"str", "num"}
                THEN Got(p + 1, [literal |-> ts[p].v, var |-> "", prop |-> ""])
                ELSE IF Failed(v) THEN Fail ELSE Got(v.at, [literal |-> <<>>] @@ v.out)
        rest == ParseArgs(ts, arg.at + 1)
    IN CASE Kind(ts, p) \in {")", "eof"} -> Got(p, <<>>)
         [] Failed(arg)                  -> Fail
         [] Kind(ts, arg.at) # ","       -> Got(arg.at, <<arg.out>>)
         [] OTHER                        -> IF Failed(rest) THEN Fail
                                            ELSE [rest EXCEPT !.out = <<arg.out>> \o @]

ParseAggregate(ts, p) ==
    LET open == Skip(ts, p + 1, "(")
        d    == Kind(ts, open) = "DISTINCT"
        q    == Skip(ts, open, "DISTINCT")
        v    == IF Kind(ts, q) = "*" THEN Got(q + 1, [var |-> "*", prop |-> ""]) ELSE ParseVar(ts, q)
    IN IF Failed(v) THEN Fail
       ELSE Got(Skip(ts, v.at, ")"), [Item(v.out.var, v.out.prop, Kind(ts, p)) EXCEPT !.distinct = d])

\* toLower(v) and its like, by keyword or by name.
ParseFunc(ts, p, name) ==
    LET v == ParseVar(ts, Skip(ts, p + 1, "("))
    IN IF Failed(v) THEN Fail ELSE Got(Skip(ts, v.at, ")"), Item(v.out.var, v.out.prop, name))

ParseMulti(ts, p) ==
    LET args  == ParseArgs(ts, p + 2)
        first == args.out[1]
    IN IF Failed(args) THEN Fail
       ELSE Got(Skip(ts, args.at, ")"),
                [Item(IF args.out = <<>> THEN "" ELSE first.var, IF args.out = <<>> THEN "" ELSE first.prop,
                      Word(ts, p)) EXCEPT !.args = args.out])

ParseItem(ts, p) ==
    LET called(names) == Kind(ts, p) = "id" /\ Kind(ts, p + 1) = "(" /\ Word(ts, p) \in names
        plain == ParseVar(ts, p)
        item  == CASE Kind(ts, p) = "CASE"        -> ParseCase(ts, p + 1)
                   [] Kind(ts, p) \in Aggregates  -> ParseAggregate(ts, p)
                   [] Kind(ts, p) \in StringFuncs -> ParseFunc(ts, p, Kind(ts, p))
                   [] called(MultiFuncs)          -> ParseMulti(ts, p)
                   [] called(ScalarFuncs)         -> ParseFunc(ts, p, Word(ts, p))
                   [] OTHER -> IF Failed(plain) \/ Kind(ts, plain.at) \in {"(", "["} THEN Fail
                               ELSE Got(plain.at, Item(plain.out.var, plain.out.prop, ""))
        q     == item.at
    IN IF Failed(item) \/ Kind(ts, q) # "AS" THEN item
       ELSE IF Kind(ts, q + 1) = "id" THEN Got(q + 2, [item.out EXCEPT !.alias = <<Word(ts, q + 1)>>])
       ELSE Got(q + 1, item.out)

RECURSIVE ParseItems(_, _)
ParseItems(ts, p) ==
    LET item == ParseItem(ts, p)
        rest == ParseItems(ts, item.at + 1)
    IN CASE Failed(item)              -> Fail
         [] Kind(ts, item.at) # ","   -> Got(item.at, <<item.out>>)
         [] OTHER                     -> IF Failed(rest) THEN Fail
                                         ELSE [rest EXCEPT !.out = <<item.out>> \o @]

\* The column an ORDER BY names, as its words; a call keeps its parenthesis.
OrderKey(ts, p) ==
    IF Kind(ts, p) \in Aggregates
    THEN LET q    == Skip(ts, p + 1, "(")
             name == IF Kind(ts, q) = "*" THEN "*" ELSE IF Kind(ts, q) = "id" THEN Word(ts, q) ELSE ""
         IN Got(Skip(ts, IF name = "" THEN q ELSE q + 1, ")"), <<Kind(ts, p), "(", name>>)
    ELSE LET v == ParseVar(ts, p)
         IN IF Failed(v) THEN Got(p, <<>>)
            ELSE Got(v.at, IF v.out.prop = "" THEN <<v.out.var>> ELSE <<v.out.var, v.out.prop>>)

Projection == [star |-> FALSE, items |-> <<>>, distinct |-> FALSE, order |-> <<>>, desc |-> FALSE,
               skip |-> 0, limit |-> -1]
Nothing == Projection

\* ORDER BY, SKIP and LIMIT, each once and in this order.
ParseTail(ts, p, r) ==
    LET key   == OrderKey(ts, Skip(ts, p + 1, "BY"))
        one   == IF Kind(ts, p) = "ORDER"
                 THEN Got(IF Kind(ts, key.at) \in {"ASC", "DESC"} THEN key.at + 1 ELSE key.at,
                          [r EXCEPT !.order = key.out, !.desc = Kind(ts, key.at) = "DESC"])
                 ELSE Got(p, r)
        has(q, k) == Kind(ts, q) = k /\ Kind(ts, q + 1) = "num"
        two   == IF has(one.at, "SKIP") THEN Got(one.at + 2, [one.out EXCEPT !.skip = NumberAt(ts, one.at + 1)])
                 ELSE Got(Skip(ts, one.at, "SKIP"), one.out)
    IN IF has(two.at, "LIMIT") THEN Got(two.at + 2, [two.out EXCEPT !.limit = NumberAt(ts, two.at + 1)])
       ELSE Got(Skip(ts, two.at, "LIMIT"), two.out)

\* RETURN or WITH; only RETURN takes a star.
ParseProjection(ts, p, word) ==
    LET q     == Skip(ts, p + 1, "DISTINCT")
        star  == word = "RETURN" /\ Kind(ts, q) = "*"
        items == IF star THEN Got(q + 1, <<>>) ELSE ParseItems(ts, q)
    IN IF Failed(items) THEN Fail
       ELSE ParseTail(ts, items.at, [Projection EXCEPT !.star = star, !.items = items.out,
                                                       !.distinct = Kind(ts, p + 1) = "DISTINCT"])

RECURSIVE ParseHops(_, _, _)
ParseHops(ts, p, pat) ==
    LET rel == ParseRel(ts, p)
        n   == ParseNode(ts, rel.at)
    IN IF Kind(ts, p) \notin {"-", "<"} THEN Got(p, pat)
       ELSE IF Failed(rel) \/ Failed(n) THEN Fail
       ELSE ParseHops(ts, n.at, [pat EXCEPT !.rels = Append(@, rel.out), !.nodes = Append(@, n.out)])

ParsePattern(ts, p, optional) ==
    LET n == ParseNode(ts, p)
    IN IF Failed(n) THEN Fail
       ELSE ParseHops(ts, n.at, [nodes |-> <<n.out>>, rels |-> <<>>, optional |-> optional])

\* An OPTIONAL without MATCH ends the chain.
RECURSIVE MatchChain(_, _)
MatchChain(ts, p) ==
    LET q    == Skip(ts, p, "OPTIONAL")
        pat  == ParsePattern(ts, q + 1, q > p)
        rest == MatchChain(ts, pat.at)
    IN IF Kind(ts, q) # "MATCH" THEN Got(q, <<>>)
       ELSE IF Failed(pat) \/ Failed(rest) THEN Fail
       ELSE [rest EXCEPT !.out = <<pat.out>> \o @]

\* UNWIND [..] AS x, or UNWIND y AS x.
ParseUnwind(ts, p) ==
    IF Kind(ts, p) # "UNWIND" THEN p
    ELSE LET q == IF Kind(ts, p + 1) = "["
                  THEN 1 + CHOOSE k \in p + 2 .. Len(ts) + 1 :
                             /\ Kind(ts, k) \in {"]", "eof"}
                             /\ \A m \in p + 2 .. k - 1 : Kind(ts, m) # "]"
                  ELSE Skip(ts, p + 1, "id")
         IN Skip(ts, Skip(ts, q, "AS"), "id")

\* What follows the last clause that is understood is not looked at.
RECURSIVE Parse(_)
Parse(ts) ==
    LET start == ParseUnwind(ts, 1)
        pats  == MatchChain(ts, start)
        wh    == ParseWhere(ts, pats.at)
        more  == MatchChain(ts, wh.at)
        with  == IF Kind(ts, more.at) = "WITH" THEN ParseProjection(ts, more.at, "WITH") ELSE Got(more.at, Nothing)
        post  == ParseWhere(ts, with.at)
        ret   == IF Kind(ts, post.at) = "RETURN" THEN ParseProjection(ts, post.at, "RETURN")
                 ELSE Got(post.at, Nothing)
        all   == Kind(ts, ret.at + 1) = "ALL"
        next  == Parse(SubSeq(ts, IF all THEN ret.at + 2 ELSE ret.at + 1, Len(ts)))
        query == [patterns |-> pats.out \o more.out, where |-> wh.out, with |-> with.out, post |-> post.out,
                  ret |-> ret.out, union |-> <<>>, all |-> FALSE]
    IN IF \/ Kind(ts, 1) \in Unsupported \/ Failed(pats) \/ pats.out = <<>> \/ Failed(wh)
          \/ Failed(more) \/ Kind(ts, more.at) \in Unsupported \/ Failed(with) \/ Failed(post) \/ Failed(ret)
       THEN Fail
       ELSE IF Kind(ts, ret.at) # "UNION" THEN Got(ret.at, query)
       ELSE IF Failed(next) THEN Fail
       ELSE Got(next.at, [query EXCEPT !.union = <<next.out>>, !.all = all])
=============================================================================
