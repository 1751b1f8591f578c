---------------------------- MODULE MCFilterChain ----------------------------
(***************************************************************************)
(* FilterChain for TLC: routes files of up to two lines, any of the good   *)
(* ones twice over, and one that NewRoute or validateRoute refuses.        *)
(***************************************************************************)
EXTENDS FilterChain

MCControllers == [app |-> {"show", "list"}, user |-> {"show"}]

App(method) == <<<<"=", "app">>, method>>
Show == App(<<"=", "show">>)
ByName == App(<<":", "action">>)
UserShow == <<<<"=", "user">>, <<"=", "show">>>>

Lines(methods, paths, actions, absolute) ==
    [method : methods, path : paths, action : actions, absolute : {absolute}]
A == <<<<"=", "a">>>>
X == <<<<":", "x">>>>
Name == <<<<":", "action">>>>
Rest == <<<<"*", "rest">>>>
AName == A \o Name

Good == Lines({"GET", "HEAD", "POST", "*"}, {A, X, Name, Rest, AName},
              {Show, UserShow, ByName, <<>>}, TRUE)
Bad == Lines({"GET"}, {A},
             {App(<<"=", "gone">>), <<<<"=", "gone">>, <<"=", "show">>>>,
              <<<<":", "c">>, <<"=", "show">>>>, <<<<"=", "app">>>>}, TRUE)
       \cup Lines({"GET"}, {A}, {Show}, FALSE)

MCFiles == {<<>>} \cup {<<l>> : l \in Good \cup Bad}
           \cup {<<k, l>> : k \in Good, l \in Good}
           \cup {<<k, l>> : k \in Lines({"GET"}, {X}, {Show}, TRUE), l \in Bad}

Asked(method, override, path) ==
    [method |-> method, override |-> override, path |-> path]
MCRequests == {Asked(m, "", p) : m \in {"GET", "HEAD", "POST"},
                                 p \in {<<"a">>, <<"list">>, <<"a", "show">>}}
              \cup {Asked("POST", "GET", <<"a">>), Asked("GET", "POST", <<"a">>)}

\* a request that finds an action, one that does not, and one that panics
Get == Asked("GET", "", <<"a">>)
OneLine(action) == <<[method |-> "GET", path |-> A, action |-> action,
                      absolute |-> TRUE]>>
MCTraced == {OneLine(Show), OneLine(<<>>), OneLine(ByName)} \X {Get}

\* the request that finds an action, and no other
MCOneFile == {OneLine(Show)}
MCOneRequest == {Get}
MCOneTraced == MCOneFile \X MCOneRequest
=============================================================================
