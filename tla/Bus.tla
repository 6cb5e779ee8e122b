-------------------------------- MODULE Bus --------------------------------
(***************************************************************************)
(* The message bus (src/forge/src/bus.rs): the steps of `dispatch`, cut    *)
(* where the code awaits, and the maps it reads.                           *)
(*                                                                         *)
(* A dispatch checks its deadline, awaits the read lock of the local       *)
(* handlers, runs a local handler while it holds that lock or looks the    *)
(* capability up, checks the deadline again, awaits the lock of the        *)
(* connections, and sends the call with a timeout.  Time is counted in     *)
(* ticks; a deadline is what is left of it.                                *)
(***************************************************************************)
EXTENDS Registry, Integers

CONSTANTS
    Calls,          \* ids of invocations; an id is used again once it ended
    NoCapability,   \* no register_handler is waiting
    NoHandle,       \* the call has not chosen a plugin
    DefaultTimeout, \* Bus::default_timeout, 30 s, in ticks
    MaxLag          \* bound: ticks a dispatch waits for the connections' lock

ASSUME BusAssumption ==
    /\ DefaultTimeout \in Nat \ { 0 }
    /\ MaxLag \in Nat
    /\ NoHandle \notin Handles
    /\ NoCapability \notin Capabilities

\* What a dispatch returns: bytes, or an InvocationError.  Nothing in the code
\* builds PluginUnhealthy; a local handler may return it, as any other.
Errors == { "NotFound", "DeadlineExceeded", "PluginUnhealthy", "TransportError", "PluginError" }
Results == { "Ok" } \cup Errors
Payloads == { "none", "done", "valid", "invalid", "200", "401", "404", "500" }
Outcomes == [ result : Results, payload : Payloads ]
Fails(e) == [ result |-> e, payload |-> "none" ]
Bytes(p) == [ result |-> "Ok", payload |-> p ]

CallPcs == { "none", "arrived", "local", "resolved", "rpc", "ended" }

CallRecords ==
    [ pc : CallPcs, capability : Capabilities \cup { NoCapability },
      constraint : Constraints, left : Int, timer : Nat, lag : 0 .. MaxLag,
      handle : Handles \cup { NoHandle }, outcome : Outcomes ]

\* The exchange of a call with a plugin process: sent over the channel of the
\* handle `by`, taken by the process `inst` of that plugin, in one of the
\* plugin's own states, answered; "broken" is a connection lost under it.
ExchangeStates ==
    { "idle", "sent", "running", "asking", "querying", "replied", "broken" }

Exchanges ==
    [ st : ExchangeStates, capability : Capabilities \cup { NoCapability },
      by : Handles \cup { NoHandle }, inst : Nat, outcome : Outcomes ]

VARIABLES
    connections,  \* handles the bus holds a channel for
    handlers,     \* capabilities with a local handler
    writer,       \* a register_handler waiting for the write lock
    guards,       \* calls that hold the read lock: their local handler runs
    call,         \* the invocations
    exchange,     \* their exchanges with plugins
    turns         \* history: round-robin picks from an unchanged list of matches

busVars == << connections, handlers, writer, guards, call, exchange, turns >>
lockVars == << handlers, writer, guards >>

NoCall == [ pc |-> "none", capability |-> NoCapability, constraint |-> Star,
            left |-> 0, timer |-> 0, lag |-> 0, handle |-> NoHandle,
            outcome |-> Fails("NotFound") ]
Ended(o) == [ NoCall EXCEPT !.pc = "ended", !.outcome = o ]
Idle == [ st |-> "idle", capability |-> NoCapability, by |-> NoHandle, inst |-> 0,
          outcome |-> Fails("NotFound") ]

BusTypeOK ==
    /\ connections \subseteq Handles
    /\ handlers \subseteq Capabilities
    /\ writer \in Capabilities \cup { NoCapability }
    /\ guards \subseteq Calls
    /\ call \in [ Calls -> CallRecords ]
    /\ exchange \in [ Calls -> Exchanges ]

\* Bus::new, and the connections of the plugins that have started since.
NewBus(connected) ==
    /\ connections = connected
    /\ handlers = {}
    /\ writer = NoCapability
    /\ guards = {}
    /\ call = [ k \in Calls |-> NoCall ]
    /\ exchange = [ k \in Calls |-> Idle ]
    /\ turns = [ c \in Capabilities |-> [ list |-> << >>, counts |-> << >> ] ]

Smaller(a, b) == IF a <= b THEN a ELSE b
At(k, pc) == call[k].pc = pc
Ends(k, o) == call' = [ call EXCEPT ![k] = Ended(o) ]
Quits(k) == exchange' = [ exchange EXCEPT ![k] = Idle ]

\* The head of dispatch: the deadline is checked at once.  A budget of 0 is a
\* deadline_unix_ms that had passed when the gateway read it.
Dispatched(capability, constraint, budget) ==
    IF budget = 0
    THEN Ended(Fails("DeadlineExceeded"))
    ELSE [ NoCall EXCEPT !.pc = "arrived", !.capability = capability,
                         !.constraint = constraint, !.left = budget ]

-----------------------------------------------------------------------------
\* register_connection and remove_connection: one insertion or removal each,
\* under the key "name:instance".
RegisterConnection(h) == connections' = connections \cup { h }
RemoveConnection(h) == connections' = connections \ { h }

\* register_handler queues for the write lock.  tokio's RwLock is fair: while a
\* writer waits no reader is let in.
RegisterHandler(c) ==
    /\ writer = NoCapability
    /\ c \notin handlers
    /\ writer' = c
    /\ UNCHANGED << registryVars, connections, handlers, guards, call, exchange, turns >>

InstallHandler ==
    /\ writer # NoCapability
    /\ guards = {}
    /\ handlers' = handlers \cup { writer }
    /\ writer' = NoCapability
    /\ UNCHANGED << registryVars, connections, guards, call, exchange, turns >>

\* The dispatch gets the read lock: no writer waits for it.
Reads(k) == At(k, "arrived") /\ writer = NoCapability

\* The local handler runs inside the block that holds the read guard.
RunLocal(k) ==
    /\ Reads(k)
    /\ call[k].capability \in handlers
    /\ guards' = guards \cup { k }
    /\ call' = [ call EXCEPT ![k].pc = "local" ]
    /\ UNCHANGED << registryVars, connections, handlers, writer, exchange, turns >>

\* What it returns, an error too, is what the dispatch returns.
LocalReturns(k, o) ==
    /\ At(k, "local")
    /\ guards' = guards \ { k }
    /\ Ends(k, o)
    /\ UNCHANGED << registryVars, connections, handlers, writer, exchange, turns >>

NothingOffered(k) ==
    /\ Reads(k)
    /\ call[k].capability \notin handlers
    /\ Matching(call[k].capability, call[k].constraint) = << >>
    /\ Ends(k, Fails("NotFound"))
    /\ UNCHANGED << registryVars, connections, lockVars, exchange, turns >>

\* History of the picks: counts per position of the list the lookups filtered
\* so far, started anew for another list, less a turn that everybody had.
Turned(c, con) ==
    LET list == Matching(c, con)
        old  == IF turns[c].list = list THEN turns[c].counts
                ELSE [ i \in DOMAIN list |-> 0 ]
        new  == [ old EXCEPT ![TurnOf(c, con)] = @ + 1 ]
        all  == \A i \in DOMAIN new : new[i] > 0
    IN [ list |-> list, counts |-> [ i \in DOMAIN new |-> IF all THEN new[i] - 1 ELSE new[i] ] ]

\* Mutant: the default stands in for the deadline.
ClampedToDefault(left) == DefaultTimeout

\* The timeout of the call: what was left when `now` was read after the
\* lookup, never more than the default.
Clamped(left) == Smaller(left, DefaultTimeout)

\* The lookup, and behind it the second check of the deadline.
Resolve(k) ==
    LET c == call[k].capability
        con == call[k].constraint
    IN /\ Reads(k)
       /\ c \notin handlers
       /\ Matching(c, con) # << >>
       /\ CountsTurn(c)
       /\ turns' = IF resolution = "RoundRobin" THEN [ turns EXCEPT ![c] = Turned(c, con) ] ELSE turns
       /\ call' = [ call EXCEPT ![k] =
                      IF @.left <= 0
                      THEN Ended(Fails("DeadlineExceeded"))
                      ELSE [ @ EXCEPT !.pc = "resolved", !.timer = Clamped(call[k].left),
                                      !.handle = Found(c, con).plugin_handle ] ]
       /\ UNCHANGED << inner, resolution, connections, lockVars, exchange >>

\* The connections' lock is held, the channel cloned and the call sent.
Send(k) ==
    /\ At(k, "resolved")
    /\ call[k].handle \in connections
    /\ call' = [ call EXCEPT ![k].pc = "rpc" ]
    /\ exchange' = [ exchange EXCEPT ![k] =
                       [ Idle EXCEPT !.st = "sent", !.capability = call[k].capability,
                                     !.by = call[k].handle ] ]
    /\ UNCHANGED << registryVars, connections, lockVars, turns >>

NotConnected(k) ==
    /\ At(k, "resolved")
    /\ call[k].handle \notin connections
    /\ Ends(k, Fails("TransportError"))
    /\ UNCHANGED << registryVars, connections, lockVars, exchange, turns >>

\* The call's answer arrives before its timeout ...
Respond(k) ==
    /\ At(k, "rpc")
    /\ exchange[k].st = "replied"
    /\ Ends(k, exchange[k].outcome)
    /\ Quits(k)
    /\ UNCHANGED << registryVars, connections, lockVars, turns >>

\* ... or the connection breaks ...
Break(k, reached) ==
    /\ At(k, "rpc")
    /\ exchange[k].st = "broken" \/ (exchange[k].st = "sent" /\ ~reached)
    /\ Ends(k, Fails("TransportError"))
    /\ Quits(k)
    /\ UNCHANGED << registryVars, connections, lockVars, turns >>

\* Mutant: the timeout bounds the connection to the plugin, not the call.
ExpireUntaken(k) ==
    /\ At(k, "rpc")
    /\ call[k].timer = 0
    /\ exchange[k].st = "sent"
    /\ Ends(k, Fails("DeadlineExceeded"))
    /\ UNCHANGED << registryVars, connections, lockVars, turns, exchange >>

\* ... or the timeout fires.  The plugin's handler may go on without a caller.
Expire(k) ==
    /\ At(k, "rpc")
    /\ call[k].timer = 0
    /\ Ends(k, Fails("DeadlineExceeded"))
    /\ IF exchange[k].st \in { "replied", "broken" } THEN Quits(k) ELSE UNCHANGED exchange
    /\ UNCHANGED << registryVars, connections, lockVars, turns >>

\* One tick for every invocation.  A fired timeout is taken at once; the wait
\* for the connections' lock is bounded by MaxLag; where nothing but the
\* deadline's passing matters, what is left stops at 0.
Passed(r) ==
    CASE r.pc \in { "arrived", "local" } -> [ r EXCEPT !.left = IF @ > 0 THEN @ - 1 ELSE 0 ]
      [] r.pc = "resolved" -> [ r EXCEPT !.left = @ - 1, !.lag = @ + 1 ]
      [] r.pc = "rpc" -> [ r EXCEPT !.left = @ - 1, !.timer = @ - 1 ]
      [] OTHER -> r

TimeMayPass ==
    \A k \in Calls : /\ At(k, "rpc") => call[k].timer > 0
                     /\ At(k, "resolved") => call[k].lag < MaxLag

Elapse ==
    /\ TimeMayPass
    /\ call' = [ k \in Calls |-> Passed(call[k]) ]
    /\ UNCHANGED << registryVars, connections, lockVars, exchange, turns >>

KernelStep(k) ==
    \/ RunLocal(k) \/ NothingOffered(k) \/ Resolve(k)
    \/ Send(k) \/ NotConnected(k) \/ Respond(k) \/ Expire(k)
=============================================================================
