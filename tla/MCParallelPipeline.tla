------------------------ MODULE MCParallelPipeline ------------------------
(* Three files: a Go service and its store, and a script that calls them.   *)
EXTENDS ParallelPipeline

MCFiles   == <<"svc", "store", "app">>
MCFolders == << <<"p", "pkg">> >>

Def(qn, label, parent, bases, decos, route) ==
    [qn |-> qn, label |-> label, parent |-> parent, bases |-> bases, decos |-> decos,
     route |-> route, depends |-> <<>>]
Call(fn, callee, arg, handler) ==
    [fn |-> fn, callee |-> callee, method |-> FALSE, arg |-> arg, kwpath |-> "",
     handler |-> handler, hint |-> "Store"]
Nothing ==
    [mod |-> <<>>, lang |-> "go", len |-> 2, served |-> FALSE, defs |-> <<>>, imports |-> <<>>,
     chans |-> <<>>, calls |-> <<>>, usages |-> <<>>, throws |-> <<>>, rw |-> <<>>,
     impls |-> <<>>, envs |-> <<>>, lsp |-> <<>>, cross |-> <<>>, refs |-> <<>>,
     bindings |-> <<>>]

Svc   == <<"p", "pkg", "svc">>
Store_ == <<"p", "pkg", "store">>
App   == <<"p", "app">>

MCSource ==
    [svc |-> [Nothing EXCEPT
        !.mod = Svc,
        !.defs = << Def(Svc \o <<"Saver">>, "Interface", <<>>, <<>>, <<>>, ""),
                    Def(Svc \o <<"Saver", "Save">>, "Method", Svc \o <<"Saver">>, <<>>, <<>>, ""),
                    Def(Svc \o <<"Serve">>, "Function", <<>>, <<>>, << <<"traced">> >>, "/serve"),
                    Def(Svc \o <<"limit">>, "Variable", <<>>, <<>>, <<>>, "") >>,
        !.imports = << [local |-> "store", plain |-> Store_ \o <<"__file__">>,
                        target |-> Store_ \o <<"__file__">>] >>,
        !.chans = << [name |-> "orders", fn |-> Svc \o <<"Serve">>, emit |-> TRUE] >>,
        !.calls = << Call(Svc \o <<"Serve">>, <<"store", "Open">>, "", <<>>),
                     Call(Svc \o <<"Serve">>, <<"requests", "get">>, "/a/b", <<>>) >>,
        !.rw = << [fn |-> Svc \o <<"Serve">>, name |-> <<"limit">>, write |-> TRUE] >>],
     store |-> [Nothing EXCEPT
        !.mod = Store_, !.len = 3,
        !.defs = << Def(Store_ \o <<"Store">>, "Struct", <<>>, <<>>, <<>>, ""),
                    Def(Store_ \o <<"Store", "Save">>, "Method", Store_ \o <<"Store">>, <<>>, <<>>, ""),
                    Def(Store_ \o <<"Open">>, "Function", <<>>, <<>>, <<>>, "") >>,
        !.chans = << [name |-> "orders", fn |-> <<>>, emit |-> FALSE] >>,
        !.usages = << [fn |-> Store_ \o <<"Open">>, name |-> <<"Store">>] >>],
     app |-> [Nothing EXCEPT
        !.mod = App, !.lang = "python", !.len = 9,
        !.defs = << Def(<<"p", "pkg">>, "Module", <<>>, <<>>, <<>>, ""),
                    Def(App \o <<"main">>, "Function", <<>>, <<>>, << <<"Open">>, <<"traced">> >>, "") >>,
        !.imports = << [local |-> "Open", plain |-> <<"Open">>, target |-> Store_ \o <<"Open">>] >>,
        !.calls = << Call(App \o <<"main">>, <<"Open">>, "", <<>>),
                     Call(App \o <<"main">>, <<"options", "get">>, "key", <<>>) >>,
        !.usages = << [fn |-> App \o <<"main">>, name |-> <<"Serve">>] >>,
        !.throws = << [fn |-> App \o <<"main">>, name |-> <<"Store">>] >>,
        !.envs = << [key |-> "HOME", fn |-> <<>>] >>,
        !.refs = << [url |-> "http://x", upstream |-> FALSE] >>,
        !.bindings = << [topic |-> "orders", url |-> "http://x"] >>]]

MCOutcomes == {"ok", "partial", "oversized", "empty"}
MCServiceOf == [requests |-> "http", celery |-> "async", router |-> "route", viper |-> "config"]
MCStubOf == [GreeterClient |-> "Greeter"]
MCVerbs == {"get", "post"}
MCPaths == {"/a/b", "/serve"}
MCDeep  == {"/a/b"}
MCUrls  == {"http://x"}
============================================================================
