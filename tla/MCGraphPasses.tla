--------------------------- MODULE MCGraphPasses ----------------------------
(* A handler, a client, a helper and a test, with their configuration.      *)
EXTENDS GraphPasses

MCBlank ==
    [route |-> NoRoute, proto |-> FALSE, test |-> FALSE, loop |-> 0, self |-> FALSE,
     decos |-> <<>>, text |-> <<>>, types |-> <<>>, body |-> <<>>, shape |-> <<>>, fp |-> <<>>,
     tags |-> {}, tld |-> 0, rec |-> FALSE, rated |-> FALSE, changes |-> 0]

Def(qn, label, file, props) == [qn |-> qn, label |-> label, file |-> file, props |-> props]

Api    == <<"src", "routes", "api.py">>
Web    == <<"src", "web.py">>
Check  == <<"src", "test_web.py">>
Conf   == <<"src", "app.toml">>
Deploy == <<"infra", "run.yaml">>
H == <<"p", "api", "handleOrder">>
C == <<"p", "web", "fetch">>
D == <<"p", "web", "refetch">>
T == <<"p", "web", "test_fetch">>
P == <<"p", "shop", "Shop", "buy">>
Page   == <<"src", "routes", "(app)", "orders", ":id", "+server">>
Proto  == <<"src", "shop.proto">>
Mount  == Route("ANY", <<"routes">>)
Orders == Route("POST", <<"orders", "{}">>)

MCDefs ==
    << Def(FileQn(Api), "File", Api, MCBlank), Def(FileQn(Web), "File", Web, MCBlank),
       Def(FileQn(Check), "File", Check, MCBlank),
       Def(H, "Function", Api,
           [MCBlank EXCEPT !.route = [method |-> "POST", path |-> <<"orders", "{id}">>],
                           !.loop = 1, !.decos = << <<"traced", "app">> >>, !.fp = <<1, 2, 3, 4>>,
                           !.text = <<"order">>]),
       Def(C, "Function", Web,
           [MCBlank EXCEPT !.loop = 2, !.decos = << <<"traced">> >>, !.fp = <<1, 2, 5, 4>>,
                           !.text = <<"order">>, !.body = <<"catch">>]),
       Def(D, "Function", Web,
           [MCBlank EXCEPT !.fp = <<1, 2, 3, 4>>, !.text = <<"order">>, !.body = <<"catch">>]),
       Def(T, "Function", Check, [MCBlank EXCEPT !.text = <<"order">>, !.body = <<"catch">>]),
       Def(<<"p", "app", "handle_order">>, "Variable", Conf, MCBlank),
       Def(<<"p", "app", "dependencies", "web">>, "Variable", Conf, MCBlank),
       Def(Orders, "Route", NoFile, MCBlank), Def(Mount, "Route", NoFile, MCBlank),
       Def(FileQn(Page), "File", Page, MCBlank), Def(<<"p", "page", "POST">>, "Variable", Page, MCBlank),
       Def(<<"p", "shop", "Shop">>, "Class", Proto, [MCBlank EXCEPT !.proto = TRUE]),
       Def(P, "Function", Proto, [MCBlank EXCEPT !.proto = TRUE]),
       Def(Route("infra", <<"orders.run", "orders", "{}">>), "Route", Deploy, MCBlank) >>

MCLinks == << <<FileQn(Web), Mount, "CALLS">>, <<FileQn(Page), <<"p", "page", "POST">>, "DEFINES">>, <<T, P, "HTTP_CALLS">>,
              <<C, Orders, "HTTP_CALLS">>, <<FileQn(Api), FileQn(Web), "IMPORTS">>,
              <<FileQn(Api), H, "DEFINES">> >>

MCCallSets == {{<<T, C>>, <<C, H>>}, {<<H, C>>, <<C, T>>, <<T, C>>}, {<<T, C>>, <<T, T>>},
               {<<T, H>>, <<C, T>>}}

MCEdited == {Web}
MCLog == << <<Api, Web>>, <<Web, Api, <<"vendor", "x.js">> >>, <<Api>>, << <<"vendor", "x.js">> >> >>
MCTestFiles == [f \in {Check} |-> Web]
MCWordsOf == [handleOrder |-> <<"handle", "order">>, handle_order |-> <<"handle", "order">>,
              test_fetch |-> <<"test", "fetch">>]
MCExpansion == [conf |-> "configuration"]
MCBodyHints == [catch |-> <<"error">>]
MCCalleeHints == [fetch |-> <<"io">>]
MCNameHints == [test_fetch |-> <<"test", "testing">>]
MCServiceOfHost == [s \in {"orders.run"} |-> "orders"]
MCPlanes == << [w \in {"order", "api", "web"} |-> 1], [w \in {"order", "error"} |-> 1],
               [w \in {"fetch", "order"} |-> 1], [w \in {"error"} |-> 1] >>
MCExtOf(s) == CASE s \in {"api.py", "web.py", "test_web.py"} -> "py" [] s = "app.toml" -> "toml"
                [] s = "run.yaml" -> "yaml" [] OTHER -> ""
=============================================================================
