----------------------------- MODULE PluginHost -----------------------------
(***************************************************************************)
(* The far side of the bus: the plugin processes with the SDK's service    *)
(* wrapper and kernel client (src/forge/src/sdk.rs) around the official    *)
(* plugins (src/plugins-official): auth-jwt, data-sqlite and http-router,  *)
(* which itself calls the other two through the kernel's gRPC gateway.     *)
(*                                                                         *)
(* A plugin's start, death and removal are seen here as the bus sees them; *)
(* the manager that causes them is module Manager.                         *)
(***************************************************************************)
EXTENDS Bus

CONSTANTS
    Requests,       \* ids of the requests clients make
    AuthVerify, DataQuery, DataWrite, HttpRoute,  \* the official capabilities
    Offers          \* plugin name -> what a start of it may offer

\* A "malformed" body cannot be read, an "unsound" one holds no valid statement, a
\* "failing" one a statement that fails as it runs: a constraint, a busy database.
Bodies == { "good", "undecodable", "oversize", "malformed", "unsound", "failing" }
Tokens == { "none", "wrong", "secret" }
Verbs == { "GET", "POST", "other" }

\* The client's own calls, and those the http-router makes on their behalf.
Outer(q) == << q, "outer" >>
Nested(q) == << q, "nested" >>
RequestCalls == { Outer(q) : q \in Requests } \cup { Nested(q) : q \in Requests }

ASSUME CallsAssumption == Calls = RequestCalls

ASSUME OfficialAssumption ==
    /\ { AuthVerify, DataQuery, DataWrite, HttpRoute } \subseteq Capabilities
    /\ AuthVerify \notin { DataQuery, DataWrite }
    /\ DataQuery # DataWrite
    /\ HttpRoute \notin { AuthVerify, DataQuery, DataWrite }

\* The first start of a plugin is instance 1; a plugin has one version of each
\* capability it offers.
ASSUME OffersAssumption ==
    /\ Instances \subseteq Nat \ { 0 }
    /\ 1 \in Instances
    /\ \A n \in Plugins : \A offer \in Offers[n] :
          DOMAIN offer \subseteq Capabilities /\ \A c \in DOMAIN offer : offer[c] \in Versions

VARIABLES
    scenario,   \* what clients ask for, and what may go wrong; it never changes
    proc,       \* plugin name -> its process
    verdict,    \* history: what auth-jwt decided for the request
    performed   \* history: statements data-sqlite executed for the request

hostVars == << scenario, proc, verdict, performed >>
historyVars == << verdict, performed >>

Work(q) == scenario.work[q]

\* A plugin's process: its manager's entry is off or started; `starts` bounds
\* how many starts are left.
Processes(n) == [ st : { "off", "started" }, up : BOOLEAN, inst : Instances \cup { 0 },
                  starts : Nat, offer : Offers[n] \cup { << >> } ]

HostTypeOK ==
    /\ \A n \in Plugins : proc[n] \in Processes(n)
    /\ verdict \in [ Requests -> { "none", "valid", "invalid" } ]
    /\ performed \in [ Requests -> Nat ]

\* Mutant: the instance id is left empty, as in the handle a crash builds.
HandleUnnamed(n) == [ plugin_name |-> n, instance_id |-> 0 ]

HandleOf(n) == [ plugin_name |-> n, instance_id |-> proc[n].inst ]
Missing(n) == { c \in DOMAIN proc[n].offer :
                  \A i \in DOMAIN inner[c] : inner[c][i].plugin_handle # HandleOf(n) }
Reaches(h) == h # NoHandle /\ proc[h.plugin_name].up /\ h = HandleOf(h.plugin_name)

\* What a process was working on when it died breaks.
Lost(k) == IF exchange[k].st \in { "idle", "sent" } THEN exchange[k]
           ELSE IF At(k, "rpc") THEN [ exchange[k] EXCEPT !.st = "broken" ] ELSE Idle
Loses(n) ==
    exchange' = [ k \in Calls |-> IF exchange[k].by # NoHandle /\ exchange[k].by.plugin_name = n
                                  THEN Lost(k) ELSE exchange[k] ]

\* A start of the plugin kills what may be left of its process, dials the new one
\* and registers the connection, under an instance id of its own; what is offered
\* may change between starts ...
StartPlugin(n) ==
    /\ proc[n].st = "off"
    /\ proc[n].starts > 0
    /\ proc[n].inst + 1 \in Instances
    /\ \E offer \in Offers[n] :
         proc' = [ proc EXCEPT ![n] = [ st |-> "started", up |-> TRUE, inst |-> @.inst + 1,
                                        starts |-> @.starts - 1, offer |-> offer ] ]
    /\ RegisterConnection(HandleOf(n)')
    /\ Loses(n)
    /\ UNCHANGED << registryVars, lockVars, call, turns, scenario, historyVars >>

\* ... then registers one capability after another, whether or not the process
\* still lives.
Advertise(n) ==
    /\ proc[n].st = "started"
    /\ \E c \in Missing(n) : Registers(c, proc[n].offer[c], HandleOf(n))
    /\ UNCHANGED << rr_counter, resolution, busVars, hostVars >>

\* The process dies or is killed.
Crash(n) ==
    /\ n \in scenario.crashes
    /\ proc[n].up
    /\ proc' = [ proc EXCEPT ![n].up = FALSE ]
    /\ Loses(n)
    /\ UNCHANGED << registryVars, connections, lockVars, call, turns, scenario, historyVars >>

\* The manager has noticed, after a crash or behind the kill of a drain, or a
\* health check went unanswered though the process lives and works on.  It asks
\* for the connection of an empty instance id to be removed: none is.  (Bound: all
\* is advertised; a crash noticed before that is in module Manager.)
Retire(n) ==
    /\ proc[n].st = "started"
    /\ n \in scenario.crashes
    /\ Missing(n) = {}
    /\ proc' = [ proc EXCEPT ![n].st = "off" ]
    /\ Deregisters(n)
    /\ UNCHANGED << rr_counter, resolution, busVars, scenario, historyVars >>

\* A program that embeds the kernel may remove a connection under its own key.
\* (Bound: of a process that is gone.)
HostRemovesConnection(n) ==
    /\ HandleOf(n) \in connections
    /\ ~proc[n].up
    /\ RemoveConnection(HandleOf(n))
    /\ UNCHANGED << registryVars, lockVars, call, exchange, turns, hostVars >>

-----------------------------------------------------------------------------
\* PluginServiceWrapper::invoke: the plugin's result is wrapped into a response,
\* an error too.  Nobody may be waiting for it any more.
Replied(k, o) ==
    exchange' = [ exchange EXCEPT ![k] =
                    IF At(k, "rpc") THEN [ @ EXCEPT !.st = "replied", !.outcome = o ] ELSE Idle ]

Runs(k, c) == exchange[k].st = "running" /\ exchange[k].capability = c

\* A subprocess listens on another port at each start, a server started by hand
\* on the same: the channel of an earlier instance may find the process of now,
\* or, in Break, nobody.
Take(k) ==
    LET n == exchange[k].by.plugin_name
    IN /\ exchange[k].st = "sent"
       /\ proc[n].up
       /\ IF exchange[k].capability \in DOMAIN proc[n].offer
          THEN exchange' = [ exchange EXCEPT ![k].st = "running", ![k].inst = proc[n].inst ]
          ELSE Replied(k, Fails("PluginError"))
       /\ UNCHANGED << registryVars, connections, lockVars, call, turns, hostVars >>

\* A handler without a caller is dropped, unless it finishes first.
Cancel(k) ==
    /\ exchange[k].st # "idle"
    /\ ~At(k, "rpc")
    /\ Quits(k)
    /\ UNCHANGED << registryVars, connections, lockVars, call, turns, hostVars >>

\* auth-jwt: the token against the shared secret.
Judgement(token) == IF token = "secret" THEN "valid" ELSE "invalid"

Verify(k) ==
    LET judged == Judgement(Work(k[1]).token)
    IN /\ Runs(k, AuthVerify)
       /\ verdict' = [ verdict EXCEPT ![k[1]] = judged ]
       /\ Replied(k, Bytes(judged))
       /\ UNCHANGED << registryVars, connections, lockVars, call, turns, scenario, proc, performed >>

\* data-sqlite: one statement under the mutex of the database.  One that fails has
\* no effect.  (Bound: what forge.data.write runs returns no rows.)
Refused(k) ==
    LET body == Work(k[1]).body
    IN body \in { "malformed", "unsound" } \/ (body = "failing" /\ Runs(k, DataWrite))

Swallowed(k) == Work(k[1]).body = "failing" /\ Runs(k, DataQuery)

Execute(k) ==
    /\ Runs(k, DataQuery) \/ Runs(k, DataWrite)
    /\ ~Refused(k) /\ ~Swallowed(k)
    /\ performed' = [ performed EXCEPT ![k[1]] = @ + 1 ]
    /\ Replied(k, Bytes("done"))
    /\ UNCHANGED << registryVars, connections, lockVars, call, turns, scenario, proc, verdict >>

Refuse(k) ==
    /\ Runs(k, DataQuery) \/ Runs(k, DataWrite)
    /\ Refused(k)
    /\ Replied(k, Fails("PluginError"))
    /\ UNCHANGED << registryVars, connections, lockVars, call, turns, hostVars >>

\* forge.data.query drops the rows that come as errors: nothing happened, and the
\* answer is success with the rows there were.
Swallow(k) ==
    /\ Swallowed(k)
    /\ Replied(k, Bytes("done"))
    /\ UNCHANGED << registryVars, connections, lockVars, call, turns, hostVars >>

-----------------------------------------------------------------------------
\* http-router.  KernelClient::invoke goes through the kernel's gRPC gateway
\* with empty metadata: the nested call gets a deadline of its own.
Asks(k, state, capability) ==
    /\ exchange' = [ exchange EXCEPT ![k].st = state ]
    /\ call' = [ call EXCEPT ![Nested(k[1])] = Dispatched(capability, Star, DefaultTimeout) ]

\* Before the first call: the payload, the connection to the kernel, the header.
RouterDeclines(k) ==
    /\ Runs(k, HttpRoute)
    /\ \/ Replied(k, Fails("PluginError"))
       \/ /\ Work(k[1]).body # "malformed"
          /\ Work(k[1]).token = "none"
          /\ Replied(k, Bytes("401"))
    /\ UNCHANGED << registryVars, connections, lockVars, call, turns, hostVars >>

RouterAsks(k) ==
    /\ Runs(k, HttpRoute)
    /\ Work(k[1]).body # "malformed"
    /\ Work(k[1]).token # "none"
    /\ Asks(k, "asking", AuthVerify)
    /\ UNCHANGED << registryVars, connections, lockVars, turns, hostVars >>

Answered(k, state) == exchange[k].st = state /\ At(Nested(k[1]), "ended")
AnswerOf(k) == call[Nested(k[1])].outcome
Hangs(k) == call' = [ call EXCEPT ![Nested(k[1])] = NoCall ]

\* What the router makes of the verdict that is no access.
DenialFor(o) == IF o.result = "Ok" THEN "401" ELSE "500"

RouterDenies(k) ==
    /\ Answered(k, "asking")
    /\ AnswerOf(k) # Bytes("valid")
    /\ Hangs(k)
    /\ Replied(k, Bytes(DenialFor(AnswerOf(k))))
    /\ UNCHANGED << registryVars, connections, lockVars, turns, hostVars >>

\* What the router asks data-sqlite for.
RouterTarget(q) == IF Work(q).verb = "GET" THEN DataQuery ELSE DataWrite

RouterQueries(k) ==
    /\ Answered(k, "asking")
    /\ AnswerOf(k) = Bytes("valid")
    /\ IF Work(k[1]).verb = "other"
       THEN Hangs(k) /\ Replied(k, Bytes("404"))
       ELSE Asks(k, "querying", RouterTarget(k[1]))
    /\ UNCHANGED << registryVars, connections, lockVars, turns, hostVars >>

RouterReports(k) ==
    /\ Answered(k, "querying")
    /\ Hangs(k)
    /\ Replied(k, Bytes(IF AnswerOf(k).result = "Ok" THEN "200" ELSE "500"))
    /\ UNCHANGED << registryVars, connections, lockVars, turns, hostVars >>

\* The router's handler is gone: the gateway drops the dispatch it waits for.
DropNested(q) ==
    /\ ~At(Nested(q), "none")
    /\ exchange[Outer(q)].st \notin { "asking", "querying" }
    /\ call' = [ call EXCEPT ![Nested(q)] = NoCall ]
    /\ guards' = guards \ { Nested(q) }
    /\ UNCHANGED << registryVars, connections, handlers, writer, exchange, turns, hostVars >>

Lifecycle(n) == StartPlugin(n) \/ Advertise(n) \/ Crash(n) \/ Retire(n) \/ HostRemovesConnection(n)

PluginStep(k) ==
    \/ Take(k) \/ Cancel(k) \/ Verify(k) \/ Execute(k) \/ Refuse(k) \/ Swallow(k)
    \/ RouterDeclines(k) \/ RouterAsks(k) \/ RouterDenies(k) \/ RouterQueries(k) \/ RouterReports(k)
=============================================================================
