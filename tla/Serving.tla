------------------------------ MODULE Serving ------------------------------
(***************************************************************************)
(* The kernel serving requests: the handlers of the HTTP gateway           *)
(* (src/forge/src/gateway/http.rs) and of the gRPC gateway (grpc.rs) over  *)
(* the bus, the registry and the plugins, while plugins start, crash and   *)
(* are retired, a host program registers local handlers, clients leave     *)
(* and time passes.                                                        *)
(***************************************************************************)
EXTENDS PluginHost, RateLimiter

CONSTANTS
    Scenarios,    \* what clients may ask, of which plugins, and what goes wrong
    Routes,       \* gateway.routes, compiled: a sequence
    NoRoute,
    HostCapabilities,  \* capabilities the host may register a handler for
    AuthTimeout   \* the declarative handler's ten seconds for auth, in ticks

Vias == { "invoke", "route", "grpc", "never" }

ASSUME ServingAssumption ==
    /\ AuthTimeout \in Nat \ { 0 }
    /\ NoRoute \notin { Routes[i] : i \in DOMAIN Routes }
    /\ HostCapabilities \subseteq Capabilities \ { AuthVerify, HttpRoute }
    /\ \A i \in DOMAIN Routes :
          /\ Routes[i].protected => Routes[i].auth.capability = AuthVerify
          /\ \A target \in { Routes[i].auth, Routes[i].target } :
                target.capability \in Capabilities /\ target.versions \subseteq Versions
    /\ \A s \in Scenarios : /\ s.work \in [ Requests -> [ via : Vias, client : Clients,
                                   capability : Capabilities, budget : 0 .. DefaultTimeout,
                                   method : Verbs, path : Seq(STRING), token : Tokens,
                                   body : Bodies, verb : Verbs ] ]
                            /\ s.strategy \in Strategies
                            /\ s.starts \in [ Plugins -> Nat ]
                            /\ s.ready \in Seq([ name : Plugins,
                                                  offer : UNION { Offers[n] : n \in Plugins } ])
                            /\ \A i \in DOMAIN s.ready : s.ready[i].offer \in Offers[s.ready[i].name]
                            /\ \A i, j \in DOMAIN s.ready : s.ready[i].name = s.ready[j].name => i = j
                            /\ s.crashes \subseteq Plugins
                            /\ s.leaves \subseteq Requests

Codes == { "none", "200", "400", "401", "404", "413", "429", "502", "503", "504", "gone" }
Stages == { "new", "auth", "target", "done" }

VARIABLES
    stage,    \* request -> where its handler is
    answer    \* request -> status and payload of its answer

gatewayVars == << stage, answer >>
vars == << registryVars, busVars, hostVars, entries, stage, answer >>

TypeOK ==
    /\ RegistryTypeOK
    /\ BusTypeOK
    /\ HostTypeOK
    /\ RateLimiterTypeOK
    /\ stage \in [ Requests -> Stages ]
    /\ answer \in [ Requests -> [ code : Codes, payload : Payloads ] ]

Unanswered == [ code |-> "none", payload |-> "none" ]

\* The plugins in scenario.ready have started and advertised, in that order,
\* before the first request; the others start while requests come in.
Index(s, n) == { i \in DOMAIN s.ready : s.ready[i].name = n }
FirstHandle(n) == [ plugin_name |-> n, instance_id |-> 1 ]
FirstProcess(s, n) ==
    IF Index(s, n) = {}
    THEN [ st |-> "off", up |-> FALSE, inst |-> 0, starts |-> s.starts[n], offer |-> << >> ]
    ELSE [ st |-> "started", up |-> TRUE, inst |-> 1, starts |-> s.starts[n],
           offer |-> s.ready[CHOOSE i \in Index(s, n) : TRUE].offer ]
Advertised(s, c) ==
    LET offering == Filtered(s.ready, { i \in DOMAIN s.ready : c \in DOMAIN s.ready[i].offer })
    IN [ i \in DOMAIN offering |-> [ version |-> offering[i].offer[c],
                                     plugin_handle |-> FirstHandle(offering[i].name) ] ]

Init ==
    \E s \in Scenarios :
      /\ scenario = s
      /\ proc = [ n \in Plugins |-> FirstProcess(s, n) ]
      /\ NewRegistry(s.strategy, [ c \in Capabilities |-> Advertised(s, c) ])
      /\ NewBus({ FirstHandle(s.ready[i].name) : i \in DOMAIN s.ready })
      /\ verdict = [ q \in Requests |-> "none" ]
      /\ performed = [ q \in Requests |-> 0 ]
      /\ NewRateLimiter
      /\ stage = [ q \in Requests |-> "new" ]
      /\ answer = [ q \in Requests |-> Unanswered ]

-----------------------------------------------------------------------------
\* Route patterns.  A segment is static or a parameter that takes any one
\* segment of the path; the first route in order that matches is taken.
MatchPath(segments, path) ==
    /\ Len(segments) = Len(path)
    /\ \A i \in DOMAIN segments : segments[i].kind = "static" => segments[i].name = path[i]

Matches(i, q) == Routes[i].method = Work(q).method /\ MatchPath(Routes[i].segments, Work(q).path)

Taken(i, q) == Matches(i, q) /\ \A j \in 1 .. i - 1 : ~Matches(j, q)

RouteOf(q) ==
    IF \E i \in DOMAIN Routes : Taken(i, q)
    THEN Routes[CHOOSE i \in DOMAIN Routes : Taken(i, q)]
    ELSE NoRoute

\* parse_route_capability: a missing or malformed version means any.
ConstraintOf(target) == IF target.wellFormed THEN target.versions ELSE Star

-----------------------------------------------------------------------------
Arrives(q, via) == stage[q] = "new" /\ Work(q).via = via
Advances(q, to) == stage' = [ stage EXCEPT ![q] = to ] /\ UNCHANGED answer
Answers(q, a) == stage' = [ stage EXCEPT ![q] = "done" ] /\ answer' = [ answer EXCEPT ![q] = a ]
Rejects(q, code) == Answers(q, [ code |-> code, payload |-> "none" ]) /\ UNCHANGED call

Dispatches(q, capability, constraint, budget) ==
    call' = [ call EXCEPT ![Outer(q)] = Dispatched(capability, constraint, budget) ]

DispatchesTarget(q) ==
    LET target == RouteOf(q).target
    IN /\ Dispatches(q, target.capability, ConstraintOf(target), DefaultTimeout)
       /\ Advances(q, "target")

DispatchesAuth(q) ==
    LET verifier == RouteOf(q).auth
    IN /\ Dispatches(q, verifier.capability, ConstraintOf(verifier), AuthTimeout)
       /\ Advances(q, "auth")

\* What a handler leaves alone: everything but its call and its answer.
HandlerFrame == UNCHANGED << registryVars, connections, lockVars, exchange, turns, hostVars >>

\* The middleware in front of every HTTP handler, for a declared length.
RejectTooLarge(q) ==
    /\ stage[q] = "new"
    /\ Work(q).via # "grpc"
    /\ Work(q).body = "oversize"
    /\ Rejects(q, "413")
    /\ HandlerFrame /\ UNCHANGED entries

\* POST /v1/invoke: the limiter, base64, the deadline of the metadata or the
\* default, then the bus, with no constraint on the version.
HttpInvoke(q) ==
    LET ip == Work(q).client
    IN /\ Arrives(q, "invoke")
       /\ Check(ip)
       /\ CASE ~Admits(ip) -> Rejects(q, "429")
            [] Admits(ip) /\ Work(q).body = "undecodable" -> Rejects(q, "400")
            [] OTHER -> /\ Dispatches(q, Work(q).capability, Star, Work(q).budget)
                        /\ Advances(q, "target")
       /\ HandlerFrame

\* The gRPC gateway's Invoke: the same without limiter and encoding.
GrpcInvoke(q) ==
    /\ Arrives(q, "grpc")
    /\ Dispatches(q, Work(q).capability, Star, Work(q).budget)
    /\ Advances(q, "target")
    /\ HandlerFrame /\ UNCHANGED entries

\* The fallback handler: route, size of the body, auth if the route asks for
\* it, target.
DeclarativeRoute(q) ==
    /\ Arrives(q, "route")
    /\ CASE RouteOf(q) = NoRoute -> Rejects(q, "404")
         [] RouteOf(q) # NoRoute /\ Work(q).body = "oversize" -> Rejects(q, "413")
         [] OTHER -> IF RouteOf(q).protected THEN DispatchesAuth(q) ELSE DispatchesTarget(q)
    /\ HandlerFrame /\ UNCHANGED entries

\* Mutant: whatever is no denial opens the way.
GrantsUnlessDenied(o) == o # Bytes("invalid")

\* The auth capability answered.  Only {"valid": true} opens the way; an error
\* of any kind and any other payload are a 401.
Grants(o) == o = Bytes("valid")

AuthAnswered(q) ==
    /\ stage[q] = "auth"
    /\ At(Outer(q), "ended")
    /\ IF Grants(call[Outer(q)].outcome)
       THEN DispatchesTarget(q)
       ELSE /\ Answers(q, [ code |-> "401", payload |-> "none" ])
            /\ call' = [ call EXCEPT ![Outer(q)] = NoCall ]
    /\ HandlerFrame /\ UNCHANGED entries

\* Mutant: a connection lost under the call is reported like a missing plugin.
StatusLost(o) ==
    CASE o.result = "Ok" -> "200"
      [] o.result \in { "NotFound", "TransportError" } -> "404"
      [] o.result = "DeadlineExceeded" -> "504"
      [] o.result = "PluginUnhealthy" -> "503"
      [] o.result = "PluginError" -> "400"

\* invocation_error_status.  The gRPC gateway gives the same six cases the
\* names of the errors instead.
StatusOf(o) ==
    CASE o.result = "Ok" -> "200"
      [] o.result = "NotFound" -> "404"
      [] o.result = "DeadlineExceeded" -> "504"
      [] o.result = "PluginUnhealthy" -> "503"
      [] o.result = "TransportError" -> "502"
      [] o.result = "PluginError" -> "400"

TargetAnswered(q) ==
    LET o == call[Outer(q)].outcome
    IN /\ stage[q] = "target"
       /\ At(Outer(q), "ended")
       /\ Answers(q, [ code |-> StatusOf(o), payload |-> o.payload ])
       /\ call' = [ call EXCEPT ![Outer(q)] = NoCall ]
       /\ HandlerFrame /\ UNCHANGED entries

\* The client closes its connection: the server drops the handler's future, and
\* with it the dispatch and the lock it may hold.
ClientLeaves(q) ==
    /\ q \in scenario.leaves
    /\ stage[q] \in { "auth", "target" }
    /\ Answers(q, [ code |-> "gone", payload |-> "none" ])
    /\ call' = [ call EXCEPT ![Outer(q)] = NoCall ]
    /\ guards' = guards \ { Outer(q) }
    /\ UNCHANGED << registryVars, connections, handlers, writer, exchange, turns, hostVars, entries >>

-----------------------------------------------------------------------------
Handler(q) == AuthAnswered(q) \/ TargetAnswered(q)
Arrival(q) == RejectTooLarge(q) \/ HttpInvoke(q) \/ GrpcInvoke(q) \/ DeclarativeRoute(q)

\* The errors behind which a local handler may have done its work.
Unsure == Errors \ { "NotFound", "PluginError" }

\* The local handler of the host does what it is for and returns, or returns an
\* error.  (Bound: behind NotFound and PluginError it has done nothing.)
HandlerReturns(k) ==
    /\ \/ /\ \/ LocalReturns(k, Bytes("done"))
             \/ \E e \in Unsure : LocalReturns(k, Fails(e))
          /\ performed' = [ performed EXCEPT ![k[1]] = @ + 1 ]
       \/ /\ \E e \in Errors : LocalReturns(k, Fails(e))
          /\ UNCHANGED performed
    /\ UNCHANGED << scenario, proc, verdict, entries, gatewayVars >>

Dispatching(k) ==
    /\ KernelStep(k) \/ Break(k, Reaches(exchange[k].by))
    /\ UNCHANGED << hostVars, entries, gatewayVars >>

Kernel ==
    \/ \E q \in Requests : Handler(q)
    \/ \E k \in Calls : Dispatching(k)
    \/ InstallHandler /\ UNCHANGED << hostVars, entries, gatewayVars >>

Tick == Elapse /\ Ages /\ UNCHANGED << hostVars, gatewayVars >>

Sweeper ==
    /\ Sweep
    /\ UNCHANGED << registryVars, busVars, hostVars, gatewayVars >>

\* A host program registers a handler of its own, at any time.  (Bound: only
\* for a capability that some request asks for.)
HostRegisters(c) ==
    /\ \E q \in Requests : Work(q).capability = c
    /\ RegisterHandler(c)
    /\ UNCHANGED << hostVars, entries, gatewayVars >>

Environment ==
    /\ \/ \E n \in Plugins : Lifecycle(n)
       \/ \E k \in Calls : PluginStep(k)
       \/ \E q \in Requests : DropNested(q)
    /\ UNCHANGED << entries, gatewayVars >>

Next ==
    \/ \E q \in Requests : Arrival(q) \/ ClientLeaves(q)
    \/ Kernel
    \/ \E k \in Calls : HandlerReturns(k)
    \/ \E c \in HostCapabilities : HostRegisters(c)
    \/ Tick \/ Sweeper \/ Environment

Spec == Init /\ [][Next]_vars

\* The scheduler runs a task that can go on, time passes, and the host's local
\* handlers return.  Nothing is asked of plugins, clients or the host.
Fairness ==
    /\ WF_vars(Kernel)
    /\ WF_vars(Tick)
    /\ WF_vars(\E k \in Calls : HandlerReturns(k))

FairSpec == Spec /\ Fairness

-----------------------------------------------------------------------------
\* A request is protected by the auth of its route, or because it goes to the
\* http-router, which asks auth-jwt itself.
Protected(q) ==
    \/ Work(q).via \in { "invoke", "grpc" } /\ Work(q).capability = HttpRoute
    \/ /\ Work(q).via = "route"
       /\ RouteOf(q) # NoRoute
       /\ RouteOf(q).protected \/ RouteOf(q).target.capability = HttpRoute

\* No statement runs for a protected request unless auth-jwt found its token
\* valid: not when the auth plugin is missing, crashes, answers with an error or
\* too late, and not when the answer of one call meets the handler of another
\* (declarative_handler, http-router's invoke).
ProtectedNeedsVerdict ==
    \A q \in Requests : Protected(q) /\ performed[q] > 0 => verdict[q] = "valid"

\* The process that works on a call offers its capability in a version the call
\* accepts, as long as it is the process of the lookup: whatever was restarted
\* or deregistered between the lookup and the call (Bus::dispatch).
ServedAsAsked ==
    \A k \in Calls :
      /\ At(k, "rpc")
      /\ exchange[k].st \in { "running", "asking", "querying" }
      /\ exchange[k].inst = call[k].handle.instance_id
      => /\ exchange[k].by = call[k].handle
         /\ proc[exchange[k].by.plugin_name].offer[call[k].capability] \in call[k].constraint

\* A call to a plugin outlives its deadline at most by what the dispatch waited
\* for the connections' lock, between reading the clock and starting the timeout
\* (Bus::dispatch computes the timeout before that wait).
DeadlineHonoured ==
    \A k \in Calls : At(k, "rpc") => call[k].left + call[k].lag >= 0

\* Round robin is fair: while the list of matches stays the same, no plugin in
\* it is ever two turns ahead of another, with any number of concurrent callers
\* (Registry::lookup).  The list's length must divide the counter's range: where
\* it does not, every wrap of the counter favours the first plugins of the list.
RoundRobinEven ==
    \A c \in Capabilities :
      \A i, j \in DOMAIN turns[c].counts :
        CounterSize % Len(turns[c].list) = 0
        => turns[c].counts[i] <= turns[c].counts[j] + 1

-----------------------------------------------------------------------------
\* The capability the client asks for, behind the auth of its route.
Target(q) ==
    CASE Work(q).via \in { "invoke", "grpc" } -> Work(q).capability
      [] Work(q).via = "route" /\ RouteOf(q) # NoRoute -> RouteOf(q).target.capability
      [] OTHER -> NoCapability

\* A failing statement whose way leads to forge.data.query.
Unreported(q) ==
    /\ Work(q).body = "failing"
    /\ Target(q) = DataQuery \/ (Target(q) = HttpRoute /\ RouterTarget(q) = DataQuery)

\* The promise to clients, and what of this model is its state.
PromiseOf(q) ==
    LET a == answer[q]
    IN CASE stage[q] = "new" -> "new"
         [] stage[q] \in { "auth", "target" } -> "open"
         [] stage[q] = "done" /\ a.code = "200" /\ a.payload \in { "done", "200" } -> "done"
         [] stage[q] = "done" /\ a.code \in { "502", "503", "504", "gone" } -> "unknown"
         [] stage[q] = "done" /\ a.code = "200" /\ a.payload = "500" -> "unknown"
         [] OTHER -> "refused"

Promise == INSTANCE CallPromise
             WITH promise <- [ q \in Requests |-> PromiseOf(q) ],
                  guarded <- { q \in Requests : Protected(q) },
                  unreported <- { q \in Requests : Unreported(q) }

\* The kernel keeps the promise of CallPromise to every client: at most one
\* effect, none behind a refusal and none without the verdict, success only if
\* it happened, however late a plugin or gone a caller is (all handlers, the bus,
\* the plugins).  Success without it is what a failing statement gets that goes to
\* forge.data.query, and no other request (data-sqlite's invoke).
KeepsPromise == Promise!Safety

\* Every client's request that a gateway has taken on is answered in the end,
\* also if its plugin hangs, crashes or is replaced (the timeout of every RPC of
\* Bus::dispatch, the fair lock of the local handlers).
AnswersInTheEnd == Promise!Liveness

-----------------------------------------------------------------------------
\* The supervision of the plugins, and what of this model is its state: the
\* entries of all lists, without their order and their version.
OfferOf(c, e) == [ cap |-> c, plugin |-> e.plugin_handle.plugin_name,
                   inst |-> e.plugin_handle.instance_id ]
OnOffer == UNION { { OfferOf(c, inner[c][i]) : i \in DOMAIN inner[c] } : c \in Capabilities }

Supply == INSTANCE Supervisor
            WITH MayOffer <- [ n \in Plugins |-> UNION { DOMAIN offer : offer \in Offers[n] } ],
                 newest <- [ n \in Plugins |-> proc[n].inst ],
                 offered <- OnOffer

\* The plugins of this model come and go in the order the lifecycle manager keeps,
\* whose model implements the same Supervisor: instances one after the other, only
\* the newest advertised, and a plugin withdrawn as a whole (Registry::deregister).
SuppliedInOrder == Supply!Spec
=============================================================================
