----------------------------- MODULE RouteNodes -----------------------------
(***************************************************************************)
(* Routes, the meeting points of callers and handlers: pass_route_nodes.c. *)
(*                                                                         *)
(* A path is a sequence of segments; a route is named by its method or     *)
(* broker and its path, an infra route by its URL, whose first segment is  *)
(* the host.  A file is its path as well, NoFile when a node has none.     *)
(* `at' holds the properties of the nodes, by name.                        *)
(***************************************************************************)
EXTENDS GraphBuffer

CONSTANTS
    ServiceOfHost,  \* hosts with a scheme, to the service they name
    Params,         \* path segments that stand for a parameter
    Groups,         \* directory segments that leave no trace in a route
    Blank           \* the properties of a node that has none recorded

NoFile  == <<>>
NoRoute == [method |-> "none", path |-> <<>>]
Brokers == {"infra", "pubsub", "cloud_tasks", "async", "cloud_scheduler", "kafka", "sqs"}

Props(at, q) == IF q \in DOMAIN at THEN at[q] ELSE Blank

Rel(g, s, t, type) == InsertEdge(g, Edge(s, t, type))

\* cbm_route_canon_path.
Canon(path) == [i \in DOMAIN path |-> IF path[i] \in Params THEN "{}" ELSE path[i]]

Route(method, path) == <<"__route__", method, path>>
Method(n)  == n.qn[2]
PathOf(n)  == n.qn[3]
IsRoute(n) == n.qn[1] = "__route__"

Routes(g)    == ByLabel(g, "Route")
Callables(g) == ByLabel(g, "Function") \o ByLabel(g, "Method")

\* Every call of a service has its route, with no file of its own.
CallerRoutes(g) ==
    LET calls == SelectSeq(g.edges, LAMBDA e : e.type \in {"HTTP_CALLS", "ASYNC_CALLS"})
        url(e, n) == IF e.type = "HTTP_CALLS" THEN Canon(PathOf(n)) ELSE PathOf(n)
        route(b, e) == LET n == ById(b, e.tgt)
                       IN IF IsRoute(n) THEN UpsertNode(b, Route(Method(n), url(e, n)), "Route", NoFile) ELSE b
    IN FoldLeft(route, g, calls)

\* ensure_decorator_routes.
DecoratorRoutes(g, at) ==
    LET declared(n) == Props(at, n.qn).route
        ensure(b, n) ==
          LET q == Route(declared(n).method, Canon(declared(n).path))
              r == UpsertNode(b, q, "Route", n.file)
          IN IF declared(n) = NoRoute THEN b ELSE Rel(r, n.id, IdOf(r, q), "HANDLES")
    IN FoldLeft(ensure, g, Callables(g))

\* connect_prefix_to_decorators: a prefix mounted in a directory handles what
\* the functions of that directory declare.
PrefixHandlers(g, at) ==
    LET prefixes == SelectSeq(Routes(g), LAMBDA r : /\ IsRoute(r) /\ Method(r) = "ANY"
                                                    /\ EdgesInto(g, r.id, "CALLS") # <<>>)
        under(n, r) ==
          LET registrar == ById(g, Head(EdgesInto(g, r.id, "CALLS")).src)
          IN /\ Len(registrar.file) > 1 /\ IsPrefix(Front(registrar.file), n.file)
             /\ Props(at, n.qn).route # NoRoute /\ Occurs(PathOf(r), n.file)
        connect(b, r) ==
          FoldLeft(LAMBDA x, n : IF under(n, r) THEN Rel(x, n.id, r.id, "HANDLES") ELSE x,
                   b, ByLabel(g, "Function"))
    IN FoldLeft(connect, g, prefixes)

\* match_infra_routes: a deployed URL is handled by whoever handles a route of
\* that service with that path; the first such route decides.
Matches(infra, r) ==
    LET path == Tail(PathOf(infra))
        svc  == ServiceOfHost[Head(PathOf(infra))]
    IN /\ IsRoute(r) /\ Method(r) \notin Brokers
       /\ svc \in ToSet(r.file) \/ Method(r) = "ANY"
       /\ \/ PathOf(r) = <<>>
          \/ Occurs(PathOf(r), path) \/ Occurs(path, PathOf(r))

InfraHandlers(g) ==
    LET infra == SelectSeq(Routes(g), LAMBDA r : /\ IsRoute(r) /\ Method(r) = "infra"
                                                 /\ Head(PathOf(r)) \in DOMAIN ServiceOfHost)
        match(b, i) ==
          LET found == SelectSeq(Routes(g), LAMBDA r : Matches(i, r))
          IN IF found = <<>> THEN b
             ELSE FoldLeft(LAMBDA x, e : Rel(x, e.src, i.id, "HANDLES"), b,
                           EdgesInto(b, Head(found).id, "HANDLES"))
    IN FoldLeft(match, g, infra)

\* create_data_flows: from the callers of a route to its handlers, unless one
\* calls the other anyway.
CallersOf(g, r) == EdgesInto(g, r.id, "HTTP_CALLS") \o EdgesInto(g, r.id, "ASYNC_CALLS")

HandlersOf(g, r) ==
    LET infra == EdgesFrom(g, r.id, "INFRA_MAPS")
    IN FoldLeft(LAMBDA s, e : s \o EdgesInto(g, e.tgt, "HANDLES"), EdgesInto(g, r.id, "HANDLES"), infra)

\* Whoever calls the handler directly is not spared (mutant of CallsDirectly).
CallsNothing(g, s, t) == FALSE

CallsDirectly(g, s, t) == \E e \in ToSet(EdgesFrom(g, s, "CALLS")) : e.tgt = t

DataFlows(g) ==
    LET flow(b, c, h) == IF c.src = h.src \/ CallsDirectly(b, c.src, h.src) THEN b
                         ELSE Rel(b, c.src, h.src, "DATA_FLOWS")
        flows(b, r) == FoldLeft(LAMBDA x, c : FoldLeft(LAMBDA y, h : flow(y, c, h), x, HandlersOf(g, r)),
                                b, CallersOf(g, r))
    IN FoldLeft(flows, g, Routes(g))

\* create_grpc_routes: the procedures of the services in protocol files.
ProtoRoutes(g, at) ==
    LET services == SelectSeq(ByLabel(g, "Class"), LAMBDA n : Props(at, n.qn).proto)
        inside(n, s) == n.file = s.file /\ IsPrefix(s.qn, n.qn)
        route(b, n) ==
          LET svc == SelectSeq(services, LAMBDA s : inside(n, s))
              q   == <<"__grpc__", Last(Head(svc).qn), Last(n.qn)>>
              r   == UpsertNode(b, q, "Route", n.file)
          IN IF svc = <<>> THEN b ELSE Rel(r, n.id, IdOf(r, q), "HANDLES")
    IN FoldLeft(route, g, SelectSeq(ByLabel(g, "Function"), LAMBDA n : Props(at, n.qn).proto))

\* create_sveltekit_routes: handlers by the place and name of their file.
KitPath(file) ==
    LET from == SelectInSeq(file, LAMBDA s : s = "routes") + 1
    IN SelectSeq(Canon(SubSeq(file, from, Len(file) - 1)), LAMBDA s : s \notin Groups)

KitMethod(file, name, label) ==
    CASE Last(file) = "+server" -> IF name = "fallback" THEN "ANY"
                                   ELSE IF name \in {"GET", "POST"} THEN name ELSE "none"
      [] Last(file) = "+page.server" -> IF name = "load" /\ label = "Function" THEN "LOAD"
                                        ELSE IF name = "actions" THEN "ACTIONS" ELSE "none"
      [] Last(file) = "+layout.server" -> IF name = "load" /\ label = "Function" THEN "LOAD" ELSE "none"
      [] OTHER -> "none"

KitRoutes(g) ==
    LET files == SelectSeq(ByLabel(g, "File"), LAMBDA n : "routes" \in ToSet(Front(n.file)))
        kids(f) == SelectSeq([i \in DOMAIN EdgesFrom(g, f.id, "DEFINES") |->
                                ById(g, EdgesFrom(g, f.id, "DEFINES")[i].tgt)],
                             LAMBDA n : n.label \in {"Function", "Variable"})
        handle(b, f, n) ==
          LET m == KitMethod(f.file, Last(n.qn), n.label)
              q == Route(m, KitPath(f.file))
              r == UpsertNode(b, q, "Route", NoFile)
          IN IF m = "none" THEN b ELSE Rel(r, n.id, IdOf(r, q), "HANDLES")
    IN FoldLeft(LAMBDA b, f : FoldLeft(LAMBDA x, n : handle(x, f, n), b, kids(f)), g, files)

\* cbm_pipeline_create_route_nodes: the order is the code's.
WithRoutes(g, at) ==
    KitRoutes(ProtoRoutes(DataFlows(InfraHandlers(PrefixHandlers(
        DecoratorRoutes(CallerRoutes(g), at), at))), at))

=============================================================================
