----------------------------- MODULE FileEdges -----------------------------
(***************************************************************************)
(* The edges that one extracted file contributes: pass_calls.c,            *)
(* pass_usages.c and pass_semantic.c of the sequential run, and the        *)
(* resolve half of pass_parallel.c.                                         *)
(*                                                                         *)
(* What a file holds is a record: definitions, imports, channels, calls,   *)
(* usages, throws, reads and writes, implementations, and the answers of   *)
(* the language server, which are external.  An operator below returns     *)
(* the commands a pass issues to a graph buffer, in order; `v' is the view *)
(* it works in: the graph looked things up in, the registry, the file and  *)
(* its import map, and whether the run is parallel.                        *)
(***************************************************************************)
EXTENDS NameResolution

CONSTANTS
    Project,      \* the name of the project
    ServiceOf,    \* segments of known client libraries, to their kind
    StubOf,       \* generated stub types, to the service they stand for
    Verbs,        \* method names that register a route
    Paths, Deep,  \* string arguments that begin with '/', with a second one
    Urls,         \* string arguments with a scheme
    Checked       \* names of checked exceptions

Nd(q, label)   == [op |-> "node", qn |-> q, label |-> label]
Ed(s, t, type) == [op |-> "edge", src |-> s, tgt |-> t, type |-> type]

\* Issue a command to buffer b, reading main: ends are found in b, then in main.
Do(main, b, c) ==
    LET id(q) == IF Has(b, q) THEN IdOf(b, q) ELSE IdOf(main, q)
    IN IF c.op = "node" THEN UpsertNode(b, c.qn, c.label, "")
       ELSE InsertEdge(b, Edge(id(c.src), id(c.tgt), c.type))

Concat(seqs) == FoldLeft(LAMBDA a, b : a \o b, <<>>, seqs)
Each(Op(_), s) == Concat([i \in DOMAIN s |-> Op(s[i])])

FileNode(f) == f.mod \o <<"__file__">>

\* The node a reference is made from: its function, else its file.
SourceOf(v, fn) ==
    IF fn # NoName /\ Has(v.g, fn) THEN fn
    ELSE IF Has(v.g, FileNode(v.f)) THEN FileNode(v.f) ELSE NoName

\* The import map of the parallel run reads the edges of the file's node; the
\* other one the imports themselves, by the name of the module as written.
MapOfEdges(g, f) ==
    LET es == EdgesFrom(g, IdOf(g, FileNode(f)), "IMPORTS")
    IN IF Has(g, FileNode(f))
       THEN [i \in DOMAIN es |-> [local |-> es[i].local, to |-> ById(g, es[i].tgt).qn]]
       ELSE <<>>

MapOfImports(g, f) ==
    LET found == SelectSeq(f.imports, LAMBDA m : Has(g, m.plain))
    IN IF f.imports = <<>> THEN MapOfEdges(g, f)
       ELSE [i \in DOMAIN found |-> [local |-> found[i].local, to |-> found[i].plain]]

View(par, g, reg, f, lsp) ==
    [par |-> par, g |-> g, reg |-> reg, f |-> f, lsp |-> lsp,
     imports |-> IF par THEN MapOfEdges(g, f) ELSE MapOfImports(g, f)]

Lookup(v, name) == Resolve(v.reg, name, v.f.mod, v.imports, v.par)

\* An edge to what a name resolves to, unless that is missing or the source.
Reference(v, src, name, type) ==
    LET q == Lookup(v, name).qn
    IN IF src # NoName /\ q # NoName /\ Has(v.g, q) /\ q # src
       THEN <<Ed(src, q, type)>> ELSE <<>>

-----------------------------------------------------------------------------
(* Calls to services.                                                       *)

Kinds(q) == {ServiceOf[q[i]] : i \in {i \in DOMAIN q : q[i] \in DOMAIN ServiceOf}}
Kind(q)  == IF Kinds(q) = {} THEN "none" ELSE CHOOSE k \in Kinds(q) : TRUE
IsVerb(q) == Len(q) > 1 /\ Last(q) \in Verbs

\* A client call goes somewhere: a URL, or any topic when asynchronous.
GoesSomewhere(kind, arg) ==
    kind \in {"http", "async"} /\ (arg \in Paths \cup Urls \/ (kind = "async" /\ arg # ""))

\* A server function by the name of its stub: service and method.
Rpc(q) == IF Len(q) > 1 /\ q[Len(q) - 1] \in DOMAIN StubOf
          THEN <<StubOf[q[Len(q) - 1]], Last(q)>> ELSE NoName

VerbOf(q) == IF IsVerb(q) THEN Last(q) ELSE "ANY"

ServiceRoute(kind, callee, arg) ==
    <<"__route__", IF kind = "http" THEN VerbOf(callee) ELSE "async", arg>>

ServiceCall(src, kind, c) ==
    LET r == ServiceRoute(kind, c.callee, c.arg)
    IN <<Nd(r, "Route"), Ed(src, r, IF kind = "http" THEN "HTTP_CALLS" ELSE "ASYNC_CALLS")>>

\* A route registered with a handler.
Registration(v, src, c, path) ==
    LET r == <<"__route__", VerbOf(c.callee), path>>
        h == IF c.handler = NoName THEN NoName ELSE Lookup(v, c.handler).qn
    IN <<Nd(r, "Route"), Ed(src, r, "CALLS")>> \o
       (IF h # NoName /\ Has(v.g, h) THEN <<Ed(h, r, "HANDLES")>> ELSE <<>>)

\* The path a registration names: the first argument or one given by keyword.
RoutePath(c) == IF c.arg \in Paths THEN c.arg ELSE c.kwpath

\* A URL among the arguments of a call resolved otherwise.
UrlInArgs(src, c) ==
    LET urls == SelectSeq(<<c.arg, c.kwpath>>, LAMBDA a : a \in Deep)
        r    == <<"__route__", "ANY", Head(urls)>>
    IN IF urls = <<>> THEN <<>> ELSE <<Nd(r, "Route"), Ed(src, r, "HTTP_CALLS")>>

RpcCall(src, c, q) ==
    LET to == IF Rpc(c.callee) # NoName THEN Rpc(c.callee) ELSE Rpc(q)
        r  == <<"__grpc__">> \o to
    IN IF to = NoName THEN <<>> ELSE <<Nd(r, "Route"), Ed(src, r, "GRPC_CALLS")>>

QueryCall(src, c) ==
    LET r == <<"__graphql__", IF c.arg # "" THEN c.arg ELSE Last(c.callee)>>
    IN <<Nd(r, "Route"), Ed(src, r, "GRAPHQL_CALLS")>>

ProcedureCall(src, c) ==
    LET r == <<"__trpc__">> \o Front(c.callee)
    IN <<Nd(r, "Route"), Ed(src, r, "TRPC_CALLS")>>

Plain(src, tgt, type) == IF tgt = NoName THEN <<>> ELSE <<Ed(src, tgt, type)>>

\* What a resolved call is taken for in the parallel run.
ParallelKind(c, q) ==
    IF Kind(q) # "none" THEN Kind(q)
    ELSE IF IsVerb(c.callee) THEN "route"
    ELSE IF Rpc(q) # NoName THEN "grpc" ELSE "none"

\* emit_service_edge; tgt may be missing.
Emitted(v, src, tgt, c, q) ==
    LET k == ParallelKind(c, q)
    IN IF k = "route" /\ RoutePath(c) # "" THEN Registration(v, src, c, RoutePath(c))
       ELSE (CASE GoesSomewhere(k, c.arg) -> ServiceCall(src, k, c)
               [] k = "grpc"    -> RpcCall(src, c, q)
               [] k = "graphql" -> QueryCall(src, c)
               [] k = "trpc"    -> ProcedureCall(src, c)
               [] k = "config"  -> Plain(src, tgt, "CONFIGURES")
               [] OTHER         -> Plain(src, tgt, "CALLS"))
            \o UrlInArgs(src, c)

\* emit_classified_edge.
Classified(v, src, tgt, c, q) ==
    LET k == Kind(q)
    IN CASE k = "route" /\ c.arg \in Paths -> Registration(v, src, c, c.arg)
         [] GoesSomewhere(k, c.arg) -> ServiceCall(src, k, c)
         [] k = "config" -> Plain(src, tgt, "CONFIGURES")
         [] OTHER -> Plain(src, tgt, "CALLS")

-----------------------------------------------------------------------------
(* Calls.                                                                   *)

\* Of many candidates, one whose name has the type the receiver is named after.
Hinted(v, src, c, r) ==
    LET better == SelectSeq(Candidates(v.reg, Last(c.callee)),
                            LAMBDA q : c.hint \in ToSet(q) /\ Has(v.g, q) /\ q # src)
    IN IF r.qn # NoName /\ r.candidates > 1 /\ Len(c.callee) = 2 /\ better # <<>>
       THEN Found(Head(better), "field_type_hint", r.candidates) ELSE r

Answer(v, c)       == LspAnswer(v.lsp, c, v.f.lang)
AnswerTarget(v, c) == LspTarget(v.g, Project, Answer(v, c), v.f.lang)

\* An unresolved call needs no verb (mutant of ParallelCall).
ParallelCallSelf(v, c) ==
    LET src == SourceOf(v, c.fn)
    IN IF src # NoName THEN Emitted(v, src, src, c, c.callee) ELSE <<>>

\* resolve_file_calls, one call of the parallel run.
ParallelCall(v, c) ==
    LET src == SourceOf(v, c.fn)
        r0  == CASE Answer(v, c) = NoName      -> Lookup(v, c.callee)
                 [] AnswerTarget(v, c) # NoName -> Found(AnswerTarget(v, c), "lsp", 1)
                 [] OTHER                       -> Unresolved
        r   == Hinted(v, src, c, r0)
    IN CASE src = NoName -> <<>>
         [] PerlNoise(v.f.lang, c.method, c.callee, r.strategy) -> <<>>
         [] GoesSomewhere(Kind(c.callee), c.arg) -> Emitted(v, src, src, c, c.callee)
         [] r.qn = NoName -> IF IsVerb(c.callee) THEN Emitted(v, src, src, c, c.callee) ELSE <<>>
         [] Has(v.g, r.qn) /\ r.qn # src -> Emitted(v, src, r.qn, c, r.qn)
         [] OTHER -> IF ~Has(v.g, r.qn) /\ GoesSomewhere(Kind(r.qn), c.arg)
                     THEN Emitted(v, src, NoName, c, r.qn) ELSE <<>>

\* resolve_single_call, the sequential one.
SequentialCall(v, c) ==
    LET src == SourceOf(v, c.fn)
        t   == IF Answer(v, c) = NoName THEN NoName ELSE AnswerTarget(v, c)
        r   == Lookup(v, c.callee)
    IN CASE src = NoName -> <<>>
         [] t # NoName /\ t # src -> Classified(v, src, t, c, t)
         [] GoesSomewhere(Kind(c.callee), c.arg) -> ServiceCall(src, Kind(c.callee), c)
         [] r.qn = NoName -> <<>>
         [] PerlNoise(v.f.lang, c.method, c.callee, r.strategy) -> <<>>
         [] GoesSomewhere(Kind(r.qn), c.arg) -> ServiceCall(src, Kind(r.qn), c)
         [] Has(v.g, r.qn) /\ r.qn # src -> Classified(v, src, r.qn, c, r.qn)
         [] OTHER -> <<>>

Calls(v) ==
    LET call(c) == IF v.par THEN ParallelCall(v, c) ELSE SequentialCall(v, c)
    IN Each(call, v.f.calls)

\* cbm_pipeline_pass_fastapi_depends, after the sequential calls: a reference in
\* the signature of a function.
Depends(v) ==
    LET depend(d) ==
          IF d.depends # NoName /\ Lookup(v, d.depends).qn # NoName
          THEN Reference(v, d.qn, d.depends, "CALLS") ELSE <<>>
    IN IF v.f.lang = "python" /\ \E i \in DOMAIN v.f.calls : v.f.calls[i].callee = <<"Depends">>
       THEN Each(depend, SelectSeq(v.f.defs, LAMBDA d : d.label \in {"Function", "Method"}))
       ELSE <<>>

-----------------------------------------------------------------------------
(* Usages, exceptions, reads and writes.                                    *)

Usages(v) == Each(LAMBDA u : Reference(v, SourceOf(v, u.fn), u.name, "USAGE"), v.f.usages)

\* Without a node for its function a throw belongs to the file, or to nothing.
Throws(v) ==
    LET src(t) == IF v.par THEN IF Has(v.g, t.fn) THEN t.fn ELSE NoName
                  ELSE SourceOf(v, t.fn)
        throw(t) == Reference(v, src(t), t.name,
                              IF Last(t.name) \in Checked THEN "THROWS" ELSE "RAISES")
    IN Each(throw, SelectSeq(v.f.throws, LAMBDA t : t.fn # NoName))

ReadsAndWrites(v) ==
    Each(LAMBDA a : Reference(v, SourceOf(v, a.fn), a.name, IF a.write THEN "WRITES" ELSE "READS"),
         v.f.rw)

-----------------------------------------------------------------------------
(* Types and decorators.                                                    *)

TypeNamed(v, name) == ResolveType(v.reg, name, v.f.mod, v.imports, v.par)

\* A base that is an interface is implemented, but the parallel run says inherited.
BaseEdge(v, d, base) ==
    LET b == TypeNamed(v, base)
        t == IF ~v.par /\ RegisteredLabel(v.reg, b) = "Interface" THEN "IMPLEMENTS" ELSE "INHERITS"
    IN IF b # NoName /\ Has(v.g, b) /\ b # d.qn THEN <<Ed(d.qn, b, t)>> ELSE <<>>

\* A decorator that is no symbol of the project gets a node of its own.
DecoratorEdges(v, d, deco) ==
    LET q == Lookup(v, deco).qn
        n == IF q # NoName /\ Has(v.g, q) THEN q ELSE <<"<decorator>", Last(deco)>>
        made == IF n = q THEN <<>> ELSE <<Nd(n, "Decorator")>>
    IN made \o (IF n = d.qn THEN <<>> ELSE <<Ed(d.qn, n, "DECORATES"), Ed(d.qn, n, "USAGE")>>)

Definitions(v) ==
    LET def(d) == Each(LAMBDA b : BaseEdge(v, d, b), d.bases) \o
                  Each(LAMBDA k : DecoratorEdges(v, d, k), d.decos)
    IN Each(def, SelectSeq(v.f.defs, LAMBDA d : Has(v.g, d.qn)))

Implementations(v) ==
    LET impl(i) ==
          LET t == TypeNamed(v, i.trait)
              s == TypeNamed(v, i.struct)
          IN IF NoName \notin {t, s} /\ Has(v.g, t) /\ Has(v.g, s) /\ t # s
             THEN <<Ed(s, t, "IMPLEMENTS")>> ELSE <<>>
    IN Each(impl, v.f.impls)

\* All a resolve worker does for one file.
FileCommands(v) ==
    LET uses  == Usages(v) \o Throws(v) \o ReadsAndWrites(v)
        types == Definitions(v) \o Implementations(v)
    IN Calls(v) \o uses \o types

-----------------------------------------------------------------------------
(* Over the whole graph.                                                    *)

MethodsOf(g, t) ==
    LET es == EdgesFrom(g, IdOf(g, t), "DEFINES_METHOD")
    IN [i \in DOMAIN es |-> ById(g, es[i].tgt).qn]

\* A Go type that has every method of an interface implements it.
Implement(g, iface, type) ==
    LET ms == MethodsOf(g, iface)
        own(m) == SelectSeq(MethodsOf(g, type) \o <<type \o <<Last(m)>>>>,
                            LAMBDA q : Has(g, q) /\ Last(q) = Last(m))
    IN IF ms # <<>> /\ \A i \in DOMAIN ms : own(ms[i]) # <<>>
       THEN <<Ed(type, iface, "IMPLEMENTS")>> \o
            [i \in DOMAIN ms |-> Ed(Head(own(ms[i])), ms[i], "OVERRIDE")]
       ELSE <<>>

ImplementsGo(g, goFiles) ==
    LET named(label) == SelectSeq(ByLabel(g, label), LAMBDA n : n.file \in goFiles)
        types == named("Struct") \o named("Class")
        cmds  == Each(LAMBDA i : Each(LAMBDA t : Implement(g, i.qn, t.qn), types), named("Interface"))
    IN FoldLeft(LAMBDA b, c : Do(b, b, c), g, cmds)

\* Routes from the configuration files: a URL any reference denies is none.
InfraRoutes(g, files) ==
    LET denied == UNION {{r.url : r \in {r \in ToSet(f.refs) : r.upstream}} : f \in ToSet(files)}
        routes == Each(LAMBDA f : SelectSeq(f.refs, LAMBDA r : r.url \notin denied), files)
        bind(b, i) == FoldLeft(LAMBDA x, c : Do(x, x, c), b,
                               <<Nd(<<"__route__", "infra", i.url>>, "Route"),
                                 Nd(<<"__route__", "async", i.topic>>, "Route"),
                                 Ed(<<"__route__", "async", i.topic>>, <<"__route__", "infra", i.url>>,
                                    "INFRA_MAPS")>>)
        upsert(b, r) == UpsertNode(b, <<"__route__", "infra", r.url>>, "Route", "")
    IN FoldLeft(bind, FoldLeft(upsert, g, routes), Each(LAMBDA f : f.bindings, files))

============================================================================
