------------------------------ MODULE Gateway ------------------------------
(***************************************************************************)
(* The two listeners and their supervision (src/forge/src/gateway/mod.rs,  *)
(* `serve` and `serve_tls` of http.rs, `serve` of grpc.rs): how they fail, *)
(* how they are told to stop, what `start` returns, and the connections of *)
(* the HTTP listener up to the rate limiter of POST /v1/invoke.  What a    *)
(* request does behind the limiter is module Serving.                      *)
(***************************************************************************)
EXTENDS RateLimiter, FiniteSets

CONSTANTS
    Connections,   \* connections that clients open, one after another
    ClientOf,      \* connection -> client address
    MaxTls         \* permits of the TLS listener's semaphore, 256 in the code

ASSUME GatewayAssumption ==
    /\ IsFiniteSet(Connections)
    /\ ClientOf \in [ Connections -> Clients ]
    /\ MaxTls \in Nat \ { 0 }

Listeners == { "grpc", "http" }
ListenerStates == { "off", "binding", "serving", "stopping", "ok", "failed" }
ConnectionStates == { "none", "accepted", "handshake", "open", "busy", "closed", "dropped" }

VARIABLES
    listener,   \* what each of the two spawned `serve` tasks is doing
    signal,     \* the value of the shutdown channel
    joined,     \* what Gateway::start returned
    conn,       \* the HTTP connections
    permits,    \* permits left in the semaphore
    recent      \* history: client -> i -> calls admitted in the last i ticks

gatewayVars == << listener, signal, joined, conn, permits, entries, recent >>

Ended(l) == listener[l] \in { "ok", "failed" }

GatewayTypeOK ==
    /\ RateLimiterTypeOK
    /\ listener \in [ Listeners -> ListenerStates ]
    /\ signal \in BOOLEAN
    /\ joined \in { "no", "ok", "error" }
    /\ conn \in [ Connections -> ConnectionStates ]
    /\ permits \in 0 .. MaxTls
    /\ recent \in [ Clients -> [ 1 .. Window -> Nat ] ]

NewGateway ==
    /\ listener = [ l \in Listeners |-> "off" ]
    /\ signal = FALSE
    /\ joined = "no"
    /\ conn = [ c \in Connections |-> "none" ]
    /\ permits = MaxTls
    /\ NewRateLimiter
    /\ recent = [ ip \in Clients |-> [ i \in 1 .. Window |-> 0 ] ]

Moves(l, to) == listener' = [ listener EXCEPT ![l] = to ]
Becomes(c, to) == conn' = [ conn EXCEPT ![c] = to ]

-----------------------------------------------------------------------------
\* Gateway::start spawns both listeners.
SpawnListeners == listener' = [ l \in Listeners |-> "binding" ]

\* Parsing the address, reading the certificate and binding succeed, or the
\* task ends with the error.
Bind(l) ==
    /\ listener[l] = "binding"
    /\ Moves(l, "serving")
    /\ UNCHANGED << signal, joined, conn, permits, entries, recent >>

BindFails(l) ==
    /\ listener[l] = "binding"
    /\ Moves(l, "failed")
    /\ UNCHANGED << signal, joined, conn, permits, entries, recent >>

\* serve_tls ends with the first error of accept; the plain listener retries.
AcceptFails(tls) ==
    /\ tls
    /\ listener["http"] = "serving"
    /\ Moves("http", "failed")
    /\ UNCHANGED << signal, joined, conn, permits, entries, recent >>

\* Gateway::shutdown.  `start` consumes the gateway, so only a call before it
\* compiles; the listeners read the value when they get to serve.
Signal ==
    /\ ~signal
    /\ \A l \in Listeners : listener[l] = "off"
    /\ signal' = TRUE
    /\ UNCHANGED << listener, joined, conn, permits, entries, recent >>

\* Mutant: the gRPC listener waits for a change behind its start.
SeeSignalAsChange(l, tls) ==
    /\ listener[l] = "serving"
    /\ signal
    /\ l # "grpc"
    /\ Moves(l, IF tls THEN "ok" ELSE "stopping")
    /\ UNCHANGED << signal, joined, conn, permits, entries, recent >>

\* The listener sees the signal.  The plain one and the gRPC one stop accepting,
\* close what is idle and wait for what is in flight; the TLS loop returns and
\* leaves its connections to their tasks.
SeeSignal(l, tls) ==
    LET drains == l = "http" /\ ~tls
    IN /\ listener[l] = "serving"
       /\ signal
       /\ Moves(l, IF tls /\ l = "http" THEN "ok" ELSE "stopping")
       /\ conn' = [ c \in Connections |-> IF drains /\ conn[c] = "open" THEN "closed" ELSE conn[c] ]
       /\ UNCHANGED << signal, joined, permits, entries, recent >>

Stop(l) ==
    /\ listener[l] = "stopping"
    /\ l = "http" => \A c \in Connections : conn[c] # "busy"
    /\ Moves(l, "ok")
    /\ UNCHANGED << signal, joined, conn, permits, entries, recent >>

\* join! of the two, and the chain of unwrap_or and or_else over their errors:
\* the gRPC error only selects the HTTP error, the HTTP error alone is lost.
ResultOf(grpcFailed, httpFailed) == IF grpcFailed /\ httpFailed THEN "error" ELSE "ok"

\* Mutant: the first of the two to end is enough.
JoinEither ==
    /\ joined = "no"
    /\ \E l \in Listeners : Ended(l)
    /\ joined' = ResultOf(listener["grpc"] = "failed", listener["http"] = "failed")
    /\ UNCHANGED << listener, signal, conn, permits, entries, recent >>

Join ==
    /\ joined = "no"
    /\ \A l \in Listeners : Ended(l)
    /\ joined' = ResultOf(listener["grpc"] = "failed", listener["http"] = "failed")
    /\ UNCHANGED << listener, signal, conn, permits, entries, recent >>

-----------------------------------------------------------------------------
\* A connection is accepted; under TLS its task needs a permit or drops it.
Accept(c, tls) ==
    /\ listener["http"] = "serving"
    /\ conn[c] = "none"
    /\ Becomes(c, IF tls THEN "accepted" ELSE "open")
    /\ UNCHANGED << listener, signal, joined, permits, entries, recent >>

TryAcquire(c) ==
    /\ conn[c] = "accepted"
    /\ IF permits > 0
       THEN Becomes(c, "handshake") /\ permits' = permits - 1
       ELSE Becomes(c, "dropped") /\ UNCHANGED permits
    /\ UNCHANGED << listener, signal, joined, entries, recent >>

Handshake(c) ==
    /\ conn[c] = "handshake"
    /\ Becomes(c, "open")
    /\ UNCHANGED << listener, signal, joined, permits, entries, recent >>

\* Mutant: a plain connection gives a permit back too.
ReleasedAlways(tls) == permits + 1

\* The end of a connection's task, at any point, drops its permit if it is one
\* of the TLS listener.
Released(tls) == IF tls THEN permits + 1 ELSE permits

\* Mutant: a handshake that fails keeps its permit.
HandshakeFailsHolding(c) ==
    /\ conn[c] = "handshake"
    /\ Becomes(c, "closed")
    /\ UNCHANGED << listener, signal, joined, permits, entries, recent >>

HandshakeFails(c) ==
    /\ conn[c] = "handshake"
    /\ Becomes(c, "closed")
    /\ permits' = Released(TRUE)
    /\ UNCHANGED << listener, signal, joined, entries, recent >>

Disconnect(c, tls) ==
    /\ conn[c] \in { "open", "busy" }
    /\ Becomes(c, "closed")
    /\ permits' = Released(tls)
    /\ UNCHANGED << listener, signal, joined, entries, recent >>

Total(ip) == recent[ip][Window]

\* POST /v1/invoke on an open connection: served, or turned away with 429.
\* (Bound: the history counts no further than twice the limit and one.)
Invoke(c, limited) ==
    LET ip == ClientOf[c]
    IN /\ conn[c] = "open"
       /\ ~limited \/ Admits(ip)
       /\ Becomes(c, "busy")
       /\ IF limited
          THEN /\ Total(ip) <= 2 * MaxPerMinute
               /\ Check(ip)
               /\ recent' = [ recent EXCEPT ![ip] = [ i \in 1 .. Window |-> @[i] + 1 ] ]
          ELSE UNCHANGED << entries, recent >>
       /\ UNCHANGED << listener, signal, joined, permits >>

InvokeLimited(c, limited) ==
    LET ip == ClientOf[c]
    IN /\ conn[c] = "open"
       /\ limited
       /\ ~Admits(ip)
       /\ Check(ip)
       /\ UNCHANGED << listener, signal, joined, conn, permits, recent >>

Respond(c) ==
    /\ conn[c] = "busy"
    /\ Becomes(c, IF listener["http"] = "stopping" THEN "closed" ELSE "open")
    /\ UNCHANGED << listener, signal, joined, permits, entries, recent >>

\* Time, for the limiter's windows and the history; and a round of the sweeper.
Minute ==
    /\ Ages
    /\ recent' = [ ip \in Clients |-> [ i \in 1 .. Window |-> IF i = 1 THEN 0 ELSE recent[ip][i - 1] ] ]
    /\ UNCHANGED << listener, signal, joined, conn, permits >>

Sweeper ==
    /\ Sweep
    /\ UNCHANGED << listener, signal, joined, conn, permits, recent >>

ListenerStep(tls) ==
    \E l \in Listeners : Bind(l) \/ BindFails(l) \/ SeeSignal(l, tls) \/ Stop(l)
ConnectionStep == \E c \in Connections : TryAcquire(c) \/ Handshake(c) \/ Respond(c)
ClientStep(c, tls, limited) ==
    \/ Accept(c, tls) \/ HandshakeFails(c) \/ Disconnect(c, tls)
    \/ Invoke(c, limited) \/ InvokeLimited(c, limited)

-----------------------------------------------------------------------------
\* Whatever the phase of a client's windows and of the sweeper, no stretch of
\* Window ticks admits more than twice the limit (RateLimiter::check restarts
\* the window at the first call behind it; the sweeper only forgets what is
\* over).
BurstBound == \A ip \in Clients : Total(ip) <= 2 * MaxPerMinute

\* A call is turned away only when its client had the full limit admitted within
\* the last Window ticks: refused calls are counted too, but never prolong the
\* refusal, and the sweeper never makes it harsher (RateLimiter::check).
RefusedJustly ==
    \A ip \in Clients : ~Admits(ip) => Total(ip) >= MaxPerMinute

\* The permits of the TLS listener and the connections that hold one add up,
\* however a connection's task ends (serve_tls).
Holders == { c \in Connections : conn[c] \in { "handshake", "open", "busy" } }
PermitsConserved(tls) == tls => permits + Cardinality(Holders) = MaxTls
=============================================================================
