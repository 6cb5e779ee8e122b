----------------------------- MODULE MCServing -----------------------------
(* Scenarios, routes and plugins for TLC. *)
EXTENDS Serving, TLC

CONSTANTS q1, q2, q3, auth, data, spare, router, ip1, verify, query, write, route, own

None == [ via |-> "never", client |-> ip1, capability |-> query, budget |-> DefaultTimeout,
          method |-> "GET", path |-> << >>, token |-> "secret", body |-> "good", verb |-> "GET" ]

Ask(via, capability, more) == more @@ [ via |-> via, capability |-> capability ] @@ None
Get(path, more) == more @@ [ via |-> "route", path |-> path ] @@ None
Posted(path, more) == more @@ [ via |-> "route", method |-> "POST", path |-> path ] @@ None

Only(r) == [ q \in Requests |-> IF q = q1 THEN r ELSE None ]
Two(r, s) == [ q \in Requests |-> CASE q = q1 -> r [] q = q2 -> s [] OTHER -> None ]
All(r) == [ q \in Requests |-> r ]
Starts(more) == more @@ [ n \in Plugins |-> 0 ]

DataOf(v) == (query :> v) @@ (write :> v)
MCOffers == (auth :> { verify :> 1 }) @@ (data :> { DataOf(1), query :> 2 })
            @@ (spare :> { DataOf(1) }) @@ (router :> { route :> 1 })

Static(s) == [ kind |-> "static", name |-> s ]
Param(s) == [ kind |-> "param", name |-> s ]
Unversioned(c) == [ capability |-> c, wellFormed |-> FALSE, versions |-> {} ]
At1(c) == [ capability |-> c, wellFormed |-> TRUE, versions |-> { 1 } ]

\* /items/{id} shadows the later /items/all of the same method.
MCRoutes == <<
    [ method |-> "GET", segments |-> << Static("items"), Param("id") >>,
      target |-> At1(query), protected |-> TRUE, auth |-> At1(verify) ],
    [ method |-> "GET", segments |-> << Static("items"), Static("all") >>,
      target |-> Unversioned(query), protected |-> FALSE, auth |-> Unversioned(verify) ],
    [ method |-> "POST", segments |-> << Static("items") >>,
      target |-> Unversioned(write), protected |-> FALSE, auth |-> Unversioned(verify) ] >>

Ready(n, o) == [ name |-> n, offer |-> o ]
AuthUp == Ready(auth, verify :> 1)
DataUp == Ready(data, DataOf(1))
SpareUp == Ready(spare, DataOf(1))
RouterUp == Ready(router, route :> 1)

Scenario(works, strategy, ready, starts, crashes, leaves) ==
    [ work : works, strategy : { strategy }, ready : { ready }, starts : { Starts(starts) },
      crashes : { crashes }, leaves : { leaves } ]

\* One client over its limit, with every way to be turned down on the way in.
Limited == Scenario(
    { Two(Ask("invoke", query, [ body |-> b ]), Ask("invoke", query, <<>>)) :
        b \in { "good", "undecodable", "oversize" } },
    "FirstReadyWins", << DataUp >>, << >>, {}, {})

\* Callers share two plugins by round robin; a plugin joins while they do.
Sharing == Ask("grpc", query, [ budget |-> 1 ])
Shared == Scenario({ All(Sharing) }, "RoundRobin", << DataUp, SpareUp >>, << >>, {}, {})
            \cup Scenario({ Two(Sharing, Sharing) }, "RoundRobin", << DataUp >>, spare :> 1, { data }, {})

\* Routes with and without auth; a restart may bring another version.
Routed == Scenario(
    { Only(Get(<< "items", "all" >>, [ token |-> t ])) : t \in { "wrong", "secret" } }
      \cup { Only(Posted(<< "items" >>, [ body |-> b ])) : b \in { "good", "unsound" } },
    "FirstReadyWins", << AuthUp, DataUp >>, data :> 1, { auth, data }, {})
      \cup Scenario({ Only(Get(<< "items", "all" >>, <<>>)) },
                    "FirstReadyWins", << AuthUp, DataUp >>, <<>>, { auth }, { q1 })

\* The http-router calls auth-jwt and data-sqlite through the kernel.
Chained == Scenario(
    { Only(Ask("invoke", route, [ token |-> t, verb |-> "POST" ])) : t \in { "wrong", "secret" } }
      \cup { Only(Ask("invoke", route, [ verb |-> v, budget |-> 1 ])) : v \in { "POST", "other" } },
    "FirstReadyWins", << RouterUp, AuthUp, DataUp >>, << >>, { router, data }, { q1 })

\* What fails on its way with nobody crashing; a statement that fails as it runs, on
\* every way to data-sqlite.
Failing == [ body |-> "failing" ]
Failed == Scenario(
    { Only(Get(<< "items" >>, <<>>)), Only(Posted(<< "items" >>, [ body |-> "oversize" ])),
      Only(Ask("invoke", route, [ token |-> "none" ])),
      Only(Get(<< "items", "all" >>, Failing)), Only(Posted(<< "items" >>, Failing)),
      Only(Ask("invoke", write, Failing)), Only(Ask("grpc", query, Failing)) }
      \cup { Only(Ask("grpc", route, [ verb |-> v ] @@ Failing)) : v \in { "GET", "POST" } }
      \cup { Only(Ask("grpc", route, [ body |-> b ])) : b \in { "malformed", "unsound" } },
    "FirstReadyWins", << RouterUp, AuthUp, DataUp >>, << >>, {}, { q1 })

\* A local handler and a plugin, and a deadline that has passed.
Local == Scenario({ Two(Ask("grpc", own, <<>>), Ask("invoke", query, [ budget |-> b ])) : b \in { 0, 1 } },
                  "FirstReadyWins", << DataUp >>, << >>, {}, { q1 })

MCScenarios == Limited \cup Shared \cup Routed \cup Chained \cup Failed \cup Local
=============================================================================
