------------------------ MODULE ServingPromiseProofs ------------------------
(***************************************************************************)
(* Serving implements the steps of CallPromise: what a client may rely on  *)
(* holds for every set of requests, plugins, routes, scenarios and         *)
(* deadlines that meets the assumptions of the modules.  That a request is *)
(* answered in the end is liveness, and not proved here.  At the end, that *)
(* it implements Supervisor, as the lifecycle manager does.                *)
(***************************************************************************)
EXTENDS ServingProofs

(***************************************************************************)
(* The right to take effect for a request is a token that its handler, its *)
(* call, its exchange with a plugin, and the http-router's call and        *)
(* exchange pass on.  The invariant says of one request, with the stage s  *)
(* and the answer a of its handler, its calls co and cn (outer, nested),   *)
(* their exchanges xo and xn, the effects p so far and the number d of     *)
(* effects due for a success: who has the token, that nobody else has it,  *)
(* and that it is gone with the first effect.                              *)
(***************************************************************************)

Waits(r) == r.pc \in { "arrived", "local", "resolved" }

\* A call, or an exchange, that may take effect without a further dispatch.
Pending(r) == Waits(r) /\ r.capability # AuthVerify
Working(x) == x.st = "asking" \/ (x.st \in { "sent", "running" } /\ x.capability # AuthVerify)

Undecided(s) == s \in { "new", "auth" }

MayAct(s, co, xo, cn, xn) ==
    Undecided(s) \/ Pending(co) \/ Working(xo) \/ Pending(cn) \/ Working(xn)

\* No effect, and none to come.
Void(s, co, xo, cn, xn, p) == p = 0 /\ ~MayAct(s, co, xo, cn, xn)

\* Nothing nested has happened yet.
Unasked(cn, xn) == cn.pc = "none" /\ xn.st = "idle"

OneToken(s, co, xo, cn, xn, p) ==
    /\ Undecided(s) => ~Pending(co) /\ ~Working(xo)
    /\ Undecided(s) \/ Waits(co) \/ xo.st \in { "sent", "running" } => Unasked(cn, xn)
    /\ Pending(co) => ~Working(xo)
    /\ xo.st = "asking" => ~Pending(cn) /\ ~Working(xn)
    /\ Pending(cn) => ~Working(xn)
    /\ MayAct(s, co, xo, cn, xn) => p = 0
    /\ p \in { 0, 1 }

\* A call on its way and its exchange are about the same; only the client's own
\* call asks for the http-router.
Matched(r, x) == r.pc = "rpc" => x.st # "idle" /\ x.capability = r.capability
NoRouter(r, x) == /\ r.capability # HttpRoute /\ x.capability # HttpRoute
                  /\ x.st \notin { "asking", "querying" }

\* Success stands for an effect; if none is due, for none now or ever.
Earned(d, p, void) == p = 1 \/ (d = 0 /\ void)

\* What an outcome tells the client is so.
Successes == { "done", "200" }
Refuses(o) == \/ o.result \in { "NotFound", "PluginError" }
              \/ o.result = "Ok" /\ o.payload \notin Successes \cup { "500" }
Honest(o, d, p, void) ==
    /\ o \in Outcomes
    /\ o.result = "Ok" /\ o.payload \in Successes => Earned(d, p, void)
    /\ Refuses(o) => void

\* The http-router reports success of the call it has made only if it had one.
Reported(d, s, co, xo, cn, xn, p) ==
    LET void == Void(s, co, xo, cn, xn, p)
    IN xo.st = "querying" =>
         /\ Waits(cn) \/ cn.pc = "rpc" => cn.capability # AuthVerify
         /\ cn.pc = "ended" /\ cn.outcome.result = "Ok" => Earned(d, p, void)
         /\ cn.pc = "rpc" /\ xn.st = "replied" /\ xn.outcome.result = "Ok"
               => Earned(d, p, void)

\* What a request with the target under way, or with an answer, has come to.
Targeted(d, s, co, xo, cn, xn, p) ==
    LET void == Void(s, co, xo, cn, xn, p)
    IN s = "target" =>
         /\ co.pc = "ended" => Honest(co.outcome, d, p, void)
         /\ (Waits(co) \/ co.pc = "rpc") /\ co.capability = AuthVerify => void
         /\ co.pc = "rpc" /\ xo.st = "replied" => Honest(xo.outcome, d, p, void)

\* PromiseOf, of a stage and an answer.
Promised(s, a) ==
    IF s = "new" THEN "new"
    ELSE IF s # "done" THEN "open"
    ELSE IF a.code = "200" /\ a.payload \in { "done", "200" } THEN "done"
    ELSE IF a.code \in { "502", "503", "504", "gone" } \/ (a.code = "200" /\ a.payload = "500")
    THEN "unknown"
    ELSE "refused"

AnswerOK(d, s, a, co, xo, cn, xn, p) ==
    /\ s = "new" => co.pc = "none" /\ xo.st = "idle"
    /\ s = "done" => co.pc = "none"
    /\ Promised(s, a) = "done" => Earned(d, p, Void(s, co, xo, cn, xn, p))
    /\ Promised(s, a) = "refused" => Void(s, co, xo, cn, xn, p)

RequestOK(d, s, a, co, xo, cn, xn, p) ==
    /\ s \in Stages
    /\ OneToken(s, co, xo, cn, xn, p)
    /\ Matched(co, xo) /\ Matched(cn, xn) /\ NoRouter(cn, xn)
    /\ Reported(d, s, co, xo, cn, xn, p)
    /\ Targeted(d, s, co, xo, cn, xn, p)
    /\ AnswerOK(d, s, a, co, xo, cn, xn, p)

\* No effect is due for the success of a request whose failure goes unreported.
Due(q) == IF Unreported(q) THEN 0 ELSE 1

RequestKept(q) ==
    RequestOK(Due(q), stage[q], answer[q], call[Outer(q)], exchange[Outer(q)],
              call[Nested(q)], exchange[Nested(q)], performed[q])
PromiseInv == /\ DOMAIN stage = Requests /\ DOMAIN answer = Requests
              /\ \A q \in Requests : RequestKept(q)

-----------------------------------------------------------------------------
(***************************************************************************)
(* One step of a request: the invariant, of the records before it, gives the *)
(* invariant of the records after it.                                      *)
(***************************************************************************)

USE DEF RequestOK, OneToken, MayAct, Undecided, Waits, Pending, Working, Void, Unasked, Matched,
        NoRouter, Reported, Targeted, Honest, Earned, Refuses, Successes, AnswerOK, Promised

\* Nothing that matters of its calls changes.
LEMMA StaysAlike ==
    ASSUME NEW d, NEW s, NEW a, NEW co, NEW xo, NEW cn, NEW xn, NEW p,
           RequestOK(d, s, a, co, xo, cn, xn, p), NEW co2, NEW cn2,
           co2.pc = co.pc, co2.capability = co.capability, co2.outcome = co.outcome,
           cn2.pc = cn.pc, cn2.capability = cn.capability, cn2.outcome = cn.outcome
    PROVE  RequestOK(d, s, a, co2, xo, cn2, xn, p)
OBVIOUS

\* The client's own call waits on ...
LEMMA OuterWaits ==
    ASSUME NEW d, NEW s, NEW a, NEW co, NEW xo, NEW cn, NEW xn, NEW p,
           RequestOK(d, s, a, co, xo, cn, xn, p), NEW co2,
           Waits(co), Waits(co2), co2.capability = co.capability
    PROVE  RequestOK(d, s, a, co2, xo, cn, xn, p)
OBVIOUS

\* ... is sent ...
LEMMA OuterSends ==
    ASSUME NEW d, NEW s, NEW a, NEW co, NEW xo, NEW cn, NEW xn, NEW p,
           RequestOK(d, s, a, co, xo, cn, xn, p), NEW co2, NEW xo2,
           co.pc = "resolved", co2.pc = "rpc", co2.capability = co.capability,
           xo2.st = "sent", xo2.capability = co.capability
    PROVE  RequestOK(d, s, a, co2, xo2, cn, xn, p)
OBVIOUS

\* ... fails, without an exchange or with one that goes on or not ...
LEMMA OuterFails ==
    ASSUME NEW d, NEW s, NEW a, NEW co, NEW xo, NEW cn, NEW xn, NEW p,
           RequestOK(d, s, a, co, xo, cn, xn, p), NEW co2, NEW xo2, NEW e,
           \/ Waits(co) /\ xo2 = xo /\ e \in Errors
           \/ co.pc = "rpc" /\ (xo2 = xo \/ xo2.st = "idle")
                /\ e \in { "DeadlineExceeded", "TransportError" },
           co2.pc = "ended", co2.outcome = Fails(e)
    PROVE  RequestOK(d, s, a, co2, xo2, cn, xn, p)
BY DEF Fails, Outcomes, Results, Errors, Payloads

\* ... or is answered.
LEMMA OuterResponds ==
    ASSUME NEW d, NEW s, NEW a, NEW co, NEW xo, NEW cn, NEW xn, NEW p,
           RequestOK(d, s, a, co, xo, cn, xn, p), NEW co2, NEW xo2,
           co.pc = "rpc", xo.st = "replied",
           co2.pc = "ended", co2.outcome = xo.outcome, xo2.st = "idle"
    PROVE  RequestOK(d, s, a, co2, xo2, cn, xn, p)
OBVIOUS

\* The http-router's call waits on ...
LEMMA NestedWaits ==
    ASSUME NEW d, NEW s, NEW a, NEW co, NEW xo, NEW cn, NEW xn, NEW p,
           RequestOK(d, s, a, co, xo, cn, xn, p), NEW cn2,
           Waits(cn), Waits(cn2), cn2.capability = cn.capability
    PROVE  RequestOK(d, s, a, co, xo, cn2, xn, p)
OBVIOUS

\* ... is sent ...
LEMMA NestedSends ==
    ASSUME NEW d, NEW s, NEW a, NEW co, NEW xo, NEW cn, NEW xn, NEW p,
           RequestOK(d, s, a, co, xo, cn, xn, p), NEW cn2, NEW xn2,
           cn.pc = "resolved", cn2.pc = "rpc", cn2.capability = cn.capability,
           xn2.st = "sent", xn2.capability = cn.capability
    PROVE  RequestOK(d, s, a, co, xo, cn2, xn2, p)
OBVIOUS

\* ... fails ...
LEMMA NestedFails ==
    ASSUME NEW d, NEW s, NEW a, NEW co, NEW xo, NEW cn, NEW xn, NEW p,
           RequestOK(d, s, a, co, xo, cn, xn, p), NEW cn2, NEW xn2, NEW e,
           Waits(cn) \/ cn.pc = "rpc", xn2 = xn \/ (xn2.st = "idle" /\ xn2.capability # HttpRoute),
           e \in Errors,
           cn2.pc = "ended", cn2.capability # HttpRoute, cn2.outcome = Fails(e)
    PROVE  RequestOK(d, s, a, co, xo, cn2, xn2, p)
BY DEF Fails, Results, Errors

\* ... or is answered.
LEMMA NestedResponds ==
    ASSUME NEW d, NEW s, NEW a, NEW co, NEW xo, NEW cn, NEW xn, NEW p,
           RequestOK(d, s, a, co, xo, cn, xn, p), NEW cn2, NEW xn2,
           cn.pc = "rpc", xn.st = "replied",
           cn2.pc = "ended", cn2.capability # HttpRoute, cn2.outcome = xn.outcome,
           xn2.st = "idle", xn2.capability # HttpRoute
    PROVE  RequestOK(d, s, a, co, xo, cn2, xn2, p)
OBVIOUS

\* An exchange breaks under its call, or ends without one ...
LEMMA OuterDrops ==
    ASSUME NEW d, NEW s, NEW a, NEW co, NEW xo, NEW cn, NEW xn, NEW p,
           RequestOK(d, s, a, co, xo, cn, xn, p), NEW xo2,
           \/ xo.st # "idle" /\ xo2.st = "broken" /\ xo2.capability = xo.capability
           \/ xo2.st = "idle" /\ co.pc # "rpc"
    PROVE  RequestOK(d, s, a, co, xo2, cn, xn, p)
OBVIOUS

\* ... and the same for the router's.
LEMMA NestedDrops ==
    ASSUME NEW d, NEW s, NEW a, NEW co, NEW xo, NEW cn, NEW xn, NEW p,
           RequestOK(d, s, a, co, xo, cn, xn, p), NEW xn2, xn2.capability # HttpRoute,
           \/ xn.st # "idle" /\ xn2.st = "broken" /\ xn2.capability = xn.capability
           \/ xn2.st = "idle" /\ cn.pc # "rpc"
    PROVE  RequestOK(d, s, a, co, xo, cn, xn2, p)
OBVIOUS

\* A process takes a call.
LEMMA OuterTaken ==
    ASSUME NEW d, NEW s, NEW a, NEW co, NEW xo, NEW cn, NEW xn, NEW p,
           RequestOK(d, s, a, co, xo, cn, xn, p), NEW xo2,
           xo.st = "sent", xo2.st = "running", xo2.capability = xo.capability
    PROVE  RequestOK(d, s, a, co, xo2, cn, xn, p)
OBVIOUS

\* And the router's.
LEMMA NestedTaken ==
    ASSUME NEW d, NEW s, NEW a, NEW co, NEW xo, NEW cn, NEW xn, NEW p,
           RequestOK(d, s, a, co, xo, cn, xn, p), NEW xn2,
           xn.st = "sent", xn2.st = "running", xn2.capability = xn.capability
    PROVE  RequestOK(d, s, a, co, xo, cn, xn2, p)
OBVIOUS

\* An answer reaches the exchange of a call that still waits for it.
Hears(r, x, o, x2) ==
    IF r.pc = "rpc"
    THEN x2.st = "replied" /\ x2.capability = x.capability /\ x2.outcome = o
    ELSE x2.st = "idle" /\ x2.capability = NoCapability

USE DEF Hears

\* A plugin turns a call down, without an effect, now or ever ...
LEMMA OuterDeclined ==
    ASSUME NEW d, NEW s, NEW a, NEW co, NEW xo, NEW cn, NEW xn, NEW p,
           RequestOK(d, s, a, co, xo, cn, xn, p), NEW xo2, NEW o \in Outcomes,
           xo.st \in { "sent", "running" }, Refuses(o), Hears(co, xo, o, xo2)
    PROVE  RequestOK(d, s, a, co, xo2, cn, xn, p)
OBVIOUS

\* ... or one of the router's, with an answer that is no success in a query.
LEMMA NestedDeclined ==
    ASSUME NEW d, NEW s, NEW a, NEW co, NEW xo, NEW cn, NEW xn, NEW p,
           RequestOK(d, s, a, co, xo, cn, xn, p), NEW xn2, NEW o \in Outcomes,
           xn.st \in { "sent", "running" }, Hears(cn, xn, o, xn2),
           o.result = "Ok" => xn.capability = AuthVerify
    PROVE  RequestOK(d, s, a, co, xo, cn, xn2, p)
BY OfficialAssumption, BusAssumption

\* The effect happens for the client, or not, for one who may know it: it is the first
\* and there is no other.
Acts(s, a, p) == p = 0 /\ Promised(s, a) \in { "open", "unknown" }

USE DEF Acts

\* data-sqlite executes the client's own call ...
LEMMA OuterExecuted ==
    ASSUME NEW d, NEW s, NEW a, NEW co, NEW xo, NEW cn, NEW xn, NEW p,
           RequestOK(d, s, a, co, xo, cn, xn, p), NEW xo2,
           xo.st = "running", xo.capability # AuthVerify, Hears(co, xo, Bytes("done"), xo2)
    PROVE  Acts(s, a, p) /\ RequestOK(d, s, a, co, xo2, cn, xn, p + 1)
BY DEF Stages, Bytes, Outcomes, Results, Errors, Payloads

\* ... or the router's.
LEMMA NestedExecuted ==
    ASSUME NEW d, NEW s, NEW a, NEW co, NEW xo, NEW cn, NEW xn, NEW p,
           RequestOK(d, s, a, co, xo, cn, xn, p), NEW xn2,
           xn.st = "running", xn.capability # AuthVerify, Hears(cn, xn, Bytes("done"), xn2)
    PROVE  Acts(s, a, p) /\ RequestOK(d, s, a, co, xo, cn, xn2, p + 1)
BY OfficialAssumption, BusAssumption DEF Stages

\* forge.data.query drops the error of the client's own call ...
LEMMA OuterSwallowed ==
    ASSUME NEW d, NEW s, NEW a, NEW co, NEW xo, NEW cn, NEW xn, NEW p,
           RequestOK(d, s, a, co, xo, cn, xn, p), NEW xo2, d = 0,
           xo.st = "running", xo.capability # AuthVerify, Hears(co, xo, Bytes("done"), xo2)
    PROVE  RequestOK(d, s, a, co, xo2, cn, xn, p)
BY DEF Stages, Bytes, Outcomes, Results, Errors, Payloads

\* ... or of the router's.
LEMMA NestedSwallowed ==
    ASSUME NEW d, NEW s, NEW a, NEW co, NEW xo, NEW cn, NEW xn, NEW p,
           RequestOK(d, s, a, co, xo, cn, xn, p), NEW xn2, d = 0,
           xn.st = "running", xn.capability # AuthVerify, Hears(cn, xn, Bytes("done"), xn2)
    PROVE  RequestOK(d, s, a, co, xo, cn, xn2, p)
BY OfficialAssumption, BusAssumption DEF Stages

\* A handler of the host has its effect, and returns or fails ...
LEMMA OuterLocal ==
    ASSUME NEW d, NEW s, NEW a, NEW co, NEW xo, NEW cn, NEW xn, NEW p,
           RequestOK(d, s, a, co, xo, cn, xn, p), NEW co2,
           co.pc = "local", co.capability # AuthVerify,
           co2.pc = "ended", co2.outcome \in { Bytes("done") } \cup { Fails(e) : e \in Unsure }
    PROVE  Acts(s, a, p) /\ RequestOK(d, s, a, co2, xo, cn, xn, p + 1)
BY DEF Stages, Bytes, Fails, Unsure, Outcomes, Results, Errors, Payloads

\* ... for either call.
LEMMA NestedLocal ==
    ASSUME NEW d, NEW s, NEW a, NEW co, NEW xo, NEW cn, NEW xn, NEW p,
           RequestOK(d, s, a, co, xo, cn, xn, p), NEW cn2,
           cn.pc = "local", cn.capability # AuthVerify,
           cn2.pc = "ended", cn2.capability # HttpRoute
    PROVE  Acts(s, a, p) /\ RequestOK(d, s, a, co, xo, cn2, xn, p + 1)
BY DEF Stages

\* The http-router asks for the verdict ...
LEMMA RouterAsked ==
    ASSUME NEW d, NEW s, NEW a, NEW co, NEW xo, NEW cn, NEW xn, NEW p,
           RequestOK(d, s, a, co, xo, cn, xn, p), NEW xo2, NEW cn2,
           xo.st = "running", xo.capability = HttpRoute,
           xo2.st = "asking", xo2.capability = xo.capability,
           cn2.pc \in { "arrived", "ended" }, cn2.pc = "arrived" => cn2.capability = AuthVerify,
           cn2.capability # HttpRoute
    PROVE  RequestOK(d, s, a, co, xo2, cn2, xn, p)
BY OfficialAssumption DEF Stages

\* ... answers without the data ...
LEMMA RouterDenied ==
    ASSUME NEW d, NEW s, NEW a, NEW co, NEW xo, NEW cn, NEW xn, NEW p,
           RequestOK(d, s, a, co, xo, cn, xn, p), NEW xo2, NEW cn2,
           xo.st = "asking", NEW c \in { "401", "404", "500" }, Hears(co, xo, Bytes(c), xo2),
           cn2.pc = "none", cn2.capability # HttpRoute
    PROVE  RequestOK(d, s, a, co, xo2, cn2, xn, p)
BY DEF Bytes, Outcomes, Results, Errors, Payloads

\* ... asks for them ...
LEMMA RouterQueried ==
    ASSUME NEW d, NEW s, NEW a, NEW co, NEW xo, NEW cn, NEW xn, NEW p,
           RequestOK(d, s, a, co, xo, cn, xn, p), NEW xo2, NEW cn2,
           xo.st = "asking", xo2.st = "querying", xo2.capability = xo.capability,
           cn2.pc \in { "arrived", "ended" }, cn2.capability # HttpRoute,
           cn2.pc = "arrived" => cn2.capability # AuthVerify,
           cn2.pc = "ended" => cn2.outcome.result # "Ok"
    PROVE  RequestOK(d, s, a, co, xo2, cn2, xn, p)
BY DEF Stages

\* ... and reports what came of it.
LEMMA RouterReported ==
    ASSUME NEW d, NEW s, NEW a, NEW co, NEW xo, NEW cn, NEW xn, NEW p,
           RequestOK(d, s, a, co, xo, cn, xn, p), NEW xo2, NEW cn2,
           xo.st = "querying", cn.pc = "ended",
           Hears(co, xo, Bytes(IF cn.outcome.result = "Ok" THEN "200" ELSE "500"), xo2),
           cn2.pc = "none", cn2.capability # HttpRoute
    PROVE  RequestOK(d, s, a, co, xo2, cn2, xn, p)
BY DEF Bytes, Outcomes, Results, Errors, Payloads

\* Its call is dropped behind it.
LEMMA NestedDropped ==
    ASSUME NEW d, NEW s, NEW a, NEW co, NEW xo, NEW cn, NEW xn, NEW p,
           RequestOK(d, s, a, co, xo, cn, xn, p), NEW cn2,
           xo.st \notin { "asking", "querying" }, cn2.pc = "none", cn2.capability # HttpRoute
    PROVE  RequestOK(d, s, a, co, xo, cn2, xn, p)
OBVIOUS

\* A handler asks for the verdict first ...
LEMMA HandlerAsks ==
    ASSUME NEW d, NEW s, NEW a, NEW co, NEW xo, NEW cn, NEW xn, NEW p,
           RequestOK(d, s, a, co, xo, cn, xn, p), NEW co2,
           s = "new", co2.pc \in { "arrived", "ended" },
           co2.pc = "arrived" => co2.capability = AuthVerify
    PROVE  RequestOK(d, "auth", a, co2, xo, cn, xn, p)
BY DEF Stages

\* ... or for the target ...
LEMMA HandlerOpens ==
    ASSUME NEW d, NEW s, NEW a, NEW co, NEW xo, NEW cn, NEW xn, NEW p,
           RequestOK(d, s, a, co, xo, cn, xn, p), NEW co2,
           Undecided(s), co2.pc \in { "arrived", "ended" },
           co2.pc = "ended" => co2.outcome = Fails("DeadlineExceeded")
    PROVE  RequestOK(d, "target", a, co2, xo, cn, xn, p)
BY DEF Stages, Fails, Outcomes, Results, Errors, Payloads

\* ... or turns the request down ...
LEMMA HandlerRefuses ==
    ASSUME NEW d, NEW s, NEW a, NEW co, NEW xo, NEW cn, NEW xn, NEW p,
           RequestOK(d, s, a, co, xo, cn, xn, p), NEW co2, NEW b,
           Undecided(s), co2.pc = "none",
           b.code \in { "400", "401", "404", "413", "429" }
    PROVE  RequestOK(d, "done", b, co2, xo, cn, xn, p)
BY DEF Stages

\* ... or answers it ...
LEMMA HandlerAnswers ==
    ASSUME NEW d, NEW s, NEW a, NEW co, NEW xo, NEW cn, NEW xn, NEW p,
           RequestOK(d, s, a, co, xo, cn, xn, p), NEW co2, NEW b,
           s = "target", co.pc = "ended", co2.pc = "none",
           b.code = StatusOf(co.outcome), b.payload = co.outcome.payload
    PROVE  /\ Promised("done", b) \in { "done", "refused", "unknown" }
           /\ Promised("done", b) = "done" => p = 1 \/ d = 0
           /\ Promised("done", b) = "refused" => p = 0
           /\ RequestOK(d, "done", b, co2, xo, cn, xn, p)
BY DEF Stages, StatusOf, Outcomes, Results, Errors

\* ... or is dropped.
LEMMA HandlerLeaves ==
    ASSUME NEW d, NEW s, NEW a, NEW co, NEW xo, NEW cn, NEW xn, NEW p,
           RequestOK(d, s, a, co, xo, cn, xn, p), NEW co2, NEW b,
           s \in { "auth", "target" }, co2.pc = "none", b.code = "gone"
    PROVE  RequestOK(d, "done", b, co2, xo, cn, xn, p)
BY DEF Stages

HIDE DEF RequestOK, OneToken, MayAct, Undecided, Waits, Pending, Working, Void, Unasked, Matched,
         NoRouter, Reported, Targeted, Honest, Earned, Refuses, Successes, AnswerOK,
         Promised, Hears, Acts

-----------------------------------------------------------------------------
\* What a request asks for is a matter of its scenario.
LEMMA DueFrame ==
    ASSUME UNCHANGED scenario
    PROVE  \A q : /\ Target(q)' = Target(q) /\ RouterTarget(q)' = RouterTarget(q)
                  /\ Unreported(q)' = Unreported(q) /\ Due(q)' = Due(q)
<1>1. \A q : Target(q)' = Target(q)
  BY DEF Target, RouteOf, Taken, Matches, Work
<1>2. \A q : RouterTarget(q)' = RouterTarget(q)
  BY DEF RouterTarget, Work
<1>3. \A q : Unreported(q)' = Unreported(q)
  BY <1>1, <1>2 DEF Unreported, Work
<1> QED
  BY <1>1, <1>2, <1>3 DEF Due

\* The capability of a call, and of its exchange, is one that its request's way leads
\* to: that of auth, the target, and the http-router's target behind it.
Askable(k) ==
    { AuthVerify, NoCapability }
      \cup (IF k = Outer(k[1]) THEN { Target(k[1]) } ELSE {})
      \cup (IF k # Outer(k[1]) /\ Target(k[1]) = HttpRoute THEN { RouterTarget(k[1]) } ELSE {})

AskedExchange(k, x) ==
    /\ x.capability \in Askable(k)
    /\ x.st \in { "asking", "querying" } => x.capability = HttpRoute

\* Only a route asks for auth before the target.
Routed(q) == Work(q).via = "route" /\ RouteOf(q) # NoRoute

AskedInv ==
    /\ \A k \in Calls : call[k].capability \in Askable(k) /\ AskedExchange(k, exchange[k])
    /\ \A q \in Requests : stage[q] = "auth" => Routed(q)

\* A step that keeps what is asked for, or asks for what it may.
LEMMA AskedKept ==
    ASSUME AskedInv, UNCHANGED scenario,
           \A k \in Calls : \/ call'[k].capability = call[k].capability
                            \/ call'[k].capability \in Askable(k),
           \A k \in Calls : exchange'[k] = exchange[k] \/ AskedExchange(k, exchange'[k]),
           \A q \in Requests : stage'[q] = "auth" => stage[q] = "auth" \/ Routed(q)
    PROVE  AskedInv'
<1>1. \A k : Askable(k)' = Askable(k)
  BY DueFrame DEF Askable
<1>2. \A q : Routed(q)' = Routed(q)
  BY DEF Routed, RouteOf, Taken, Matches, Work
<1> QED
  BY <1>1, <1>2 DEF AskedInv, AskedExchange

\* Nothing is asked for that nobody asked for.
LEMMA AskedFrame ==
    ASSUME AskedInv, UNCHANGED << scenario, call, exchange, stage >>
    PROVE  AskedInv'
BY AskedKept

-----------------------------------------------------------------------------
(***************************************************************************)
(* What a step of Serving is for the promise: to one request it is a step  *)
(* of CallPromise or none, to the others it is none.                       *)
(***************************************************************************)
Moves(q) ==
    LET old == Promised(stage[q], answer[q])
        new == Promised(stage'[q], answer'[q])
    IN \/ new = old /\ performed'[q] = performed[q]
       \/ new = old /\ Acts(stage[q], answer[q], performed[q]) /\ performed'[q] = performed[q] + 1
       \/ old = "new" /\ new \in { "open", "refused" } /\ performed'[q] = performed[q]
       \/ /\ old = "open" /\ new \in { "done", "refused", "unknown" }
          /\ new = "done" => performed[q] = 1 \/ Due(q) = 0
          /\ new = "refused" => performed[q] = 0
          /\ performed'[q] = performed[q]

Alone(q) ==
    \A r \in Requests \ { q } :
      /\ stage'[r] = stage[r] /\ answer'[r] = answer[r] /\ performed'[r] = performed[r]
      /\ call'[Outer(r)] = call[Outer(r)] /\ exchange'[Outer(r)] = exchange[Outer(r)]
      /\ call'[Nested(r)] = call[Nested(r)] /\ exchange'[Nested(r)] = exchange[Nested(r)]

StepOf(q) ==
    /\ Alone(q) /\ Moves(q) /\ RequestKept(q)'
    /\ DOMAIN stage' = Requests /\ DOMAIN answer' = Requests

\* Every call is the outer or the nested one of its request.
LEMMA CallNames ==
    /\ \A q, r \in Requests : /\ Outer(q) # Nested(r)
                              /\ Outer(q) = Outer(r) => q = r
                              /\ Nested(q) = Nested(r) => q = r
    /\ \A k \in Calls : k[1] \in Requests /\ k \in { Outer(k[1]), Nested(k[1]) }
BY CallsAssumption DEF RequestCalls, Outer, Nested

\* One call's record is replaced ...
LEMMA CallSet ==
    ASSUME CallsOK, NEW k \in Calls, NEW r, call' = [ call EXCEPT ![k] = r ]
    PROVE  call'[k] = r /\ \A j \in Calls \ { k } : call'[j] = call[j]
BY DEF CallsOK

\* ... or one exchange's.
LEMMA ExchangeSet ==
    ASSUME ExchangesOK, NEW k \in Calls, NEW x, exchange' = [ exchange EXCEPT ![k] = x ]
    PROVE  exchange'[k] = x /\ \A j \in Calls \ { k } : exchange'[j] = exchange[j]
BY DEF ExchangesOK

\* The request after a step of its own call, or of the router's.
OuterNow(q) ==
    RequestOK(Due(q), stage[q], answer[q], call'[Outer(q)], exchange'[Outer(q)],
              call[Nested(q)], exchange[Nested(q)], performed'[q])
NestedNow(q) ==
    RequestOK(Due(q), stage[q], answer[q], call[Outer(q)], exchange[Outer(q)],
              call'[Nested(q)], exchange'[Nested(q)], performed'[q])

\* A step of one call and its exchange, which may have its effect.
LEMMA CallChanges ==
    ASSUME PromiseInv, NEW q \in Requests, NEW k \in { Outer(q), Nested(q) },
           \A j \in Calls \ { k } : call'[j] = call[j] /\ exchange'[j] = exchange[j],
           UNCHANGED << stage, answer, scenario >>,
           \A r \in Requests \ { q } : performed'[r] = performed[r],
           \/ performed'[q] = performed[q]
           \/ /\ performed'[q] = performed[q] + 1
              /\ Acts(stage[q], answer[q], performed[q]),
           k = Outer(q) => OuterNow(q), k = Nested(q) => NestedNow(q)
    PROVE  StepOf(q)
<1>1. \A r \in Requests : /\ Outer(r) \in Calls /\ Nested(r) \in Calls
                          /\ r # q => Outer(r) # k /\ Nested(r) # k
  BY CallIds, CallNames
<1>2. Alone(q)
  BY <1>1 DEF Alone
<1>3. Moves(q)
  BY DEF Moves
<1>4. RequestKept(q)'
  <2>1. CASE k = Outer(q)
    <3>1. call'[Nested(q)] = call[Nested(q)] /\ exchange'[Nested(q)] = exchange[Nested(q)]
      BY <1>1, <2>1, CallNames
    <3> QED
      BY <2>1, <3>1, DueFrame DEF RequestKept, OuterNow
  <2>2. CASE k = Nested(q)
    <3>1. call'[Outer(q)] = call[Outer(q)] /\ exchange'[Outer(q)] = exchange[Outer(q)]
      BY <1>1, <2>2, CallNames
    <3> QED
      BY <2>2, <3>1, DueFrame DEF RequestKept, NestedNow
  <2> QED
    BY <2>1, <2>2
<1> QED
  BY <1>2, <1>3, <1>4 DEF StepOf, PromiseInv

\* The other requests are as they should be too.
LEMMA StepKeeps ==
    ASSUME PromiseInv, NEW q \in Requests, StepOf(q), UNCHANGED scenario
    PROVE  PromiseInv'
<1>1. ASSUME NEW r \in Requests, r # q PROVE RequestKept(r)'
  BY <1>1, DueFrame DEF PromiseInv, StepOf, Alone, RequestKept
<1> QED
  BY <1>1 DEF PromiseInv, StepOf

-----------------------------------------------------------------------------
\* The abstract state is the one of Serving's refinement mapping.
LEMMA PromiseIs ==
    ASSUME NEW q, stage[q] \in Stages
    PROVE  PromiseOf(q) = Promised(stage[q], answer[q])
<1>1. CASE stage[q] = "new"
  BY <1>1 DEF PromiseOf, Promised
<1>2. CASE stage[q] \in { "auth", "target" }
  BY <1>2 DEF PromiseOf, Promised
<1>3. CASE stage[q] = "done"
  BY <1>3 DEF PromiseOf, Promised
<1> QED
  BY <1>1, <1>2, <1>3 DEF Stages

\* The same of the next state.
LEMMA PromiseIsNext ==
    ASSUME NEW q, stage'[q] \in Stages
    PROVE  PromiseOf(q)' = Promised(stage'[q], answer'[q])
<1>1. CASE stage'[q] = "new"
  BY <1>1 DEF PromiseOf, Promised
<1>2. CASE stage'[q] \in { "auth", "target" }
  BY <1>2 DEF PromiseOf, Promised
<1>3. CASE stage'[q] = "done"
  BY <1>3 DEF PromiseOf, Promised
<1> QED
  BY <1>1, <1>2, <1>3 DEF Stages

\* So a step that does nothing but to one request is one of CallPromise.
LEMMA StepPromised ==
    ASSUME PromiseInv, ServingInv, ServingInv', NEW q \in Requests, StepOf(q),
           UNCHANGED << scenario, verdict >>
    PROVE  [Promise!Next]_(Promise!vars)
<1> DEFINE old == Promised(stage[q], answer[q])
           new == Promised(stage'[q], answer'[q])
           promise == [ r \in Requests |-> PromiseOf(r) ]
<1>1. \A r \in Requests : PromiseOf(r) = Promised(stage[r], answer[r])
  BY PromiseIs DEF PromiseInv, RequestKept, RequestOK
<1>2. \A r \in Requests : PromiseOf(r)' = Promised(stage'[r], answer'[r])
  <2>1. PromiseInv'
    BY StepKeeps
  <2>2. \A r \in Requests : stage'[r] \in Stages
    BY <2>1 DEF PromiseInv, RequestKept, RequestOK
  <2> QED
    BY <2>2, PromiseIsNext
<1>3. \A r \in Requests \ { q } : PromiseOf(r)' = PromiseOf(r)
  BY <1>1, <1>2 DEF StepOf, Alone
<1>4. promise' = [ promise EXCEPT ![q] = new ] /\ promise[q] = old
  BY <1>1, <1>2, <1>3
<1>5. /\ performed \in [ Requests -> Nat ]
      /\ performed' = [ performed EXCEPT ![q] = performed'[q] ]
  <2>1. performed \in [ Requests -> Nat ] /\ performed' \in [ Requests -> Nat ]
    BY DEF ServingInv, HistoryOK
  <2> QED
    BY <2>1 DEF StepOf, Alone
<1>6. UNCHANGED Promise!asked /\ verdict' = verdict
  BY SetsFrame, DueFrame DEF Promise!asked
<1>7. Moves(q)
  BY DEF StepOf
<1>8. CASE new = old /\ performed'[q] = performed[q]
  <2>1. UNCHANGED << promise, performed >>
    BY <1>4, <1>5, <1>8
  <2> QED
    BY <1>6, <2>1 DEF Promise!vars
<1>9. CASE new = old /\ Acts(stage[q], answer[q], performed[q]) /\ performed'[q] = performed[q] + 1
  <2>1. promise' = promise /\ promise[q] \in { "open", "unknown" } /\ performed[q] = 0
    BY <1>4, <1>9 DEF Acts
  <2>2. performed' = [ performed EXCEPT ![q] = 1 ]
    BY <1>5, <1>9, <2>1
  <2>3. Protected(q) => verdict[q] = "valid"
    <3>1. performed'[q] > 0
      BY <1>9, <2>1
    <3>2. Protected(q)' = Protected(q)
      BY SetsFrame
    <3>3. Protected(q)' /\ performed'[q] > 0 => verdict'[q] = "valid"
      BY DEF ServingInv, HistoryOK, ProtectedNeedsVerdict
    <3> QED
      BY <1>6, <3>1, <3>2, <3>3
  <2>4. Promise!Perform(q)
    BY <1>6, <2>1, <2>2, <2>3 DEF Promise!Perform
  <2> QED
    BY <2>4 DEF Promise!Next
<1>10. CASE old = "new" /\ new \in { "open", "refused" } /\ performed'[q] = performed[q]
  <2>1. UNCHANGED performed
    BY <1>5, <1>10
  <2>2. Promise!Open(q) \/ Promise!Refuse(q)
    BY <1>4, <1>6, <1>10, <2>1 DEF Promise!Open, Promise!Refuse
  <2> QED
    BY <2>2 DEF Promise!Next
<1>11. CASE /\ old = "open" /\ new \in { "done", "refused", "unknown" }
            /\ new = "done" => performed[q] = 1 \/ Due(q) = 0
            /\ new = "refused" => performed[q] = 0
            /\ performed'[q] = performed[q]
  <2>1. UNCHANGED performed
    BY <1>5, <1>11
  <2>2. Due(q) = 0 => q \in { r \in Requests : Unreported(r) }
    BY DEF Due
  <2>3. Promise!Settle(q)
    BY <1>4, <1>6, <1>11, <2>1, <2>2 DEF Promise!Settle, Promise!Settlements
  <2> QED
    BY <2>3 DEF Promise!Next
<1> QED
  BY <1>7, <1>8, <1>9, <1>10, <1>11 DEF Moves

-----------------------------------------------------------------------------
\* A dispatch sets out, or is too late.
LEMMA DispatchedForm ==
    ASSUME NEW capability, NEW constraint, NEW budget \in Int
    PROVE  LET d == Dispatched(capability, constraint, budget)
           IN \/ d.pc = "arrived" /\ d.capability = capability
              \/ /\ d.pc = "ended" /\ d.capability = NoCapability /\ budget = 0
                 /\ d.outcome = Fails("DeadlineExceeded")
<1>1. CASE budget = 0
  BY <1>1, EndedShape DEF Dispatched
<1>2. CASE budget # 0
  <2>1. Dispatched(capability, constraint, budget) = SetOut(capability, constraint, budget)
    BY <1>2 DEF Dispatched, SetOut
  <2> QED
    BY <2>1, SetOutShape
<1> QED
  BY <1>1, <1>2

\* What is replied is heard by a call that waits for it.
LEMMA RepliedHears ==
    ASSUME ExchangesOK, NEW k \in Calls, NEW o, Replied(k, o)
    PROVE  /\ Hears(call[k], exchange[k], o, exchange'[k])
           /\ \A j \in Calls \ { k } : exchange'[j] = exchange[j]
<1> DEFINE x == IF At(k, "rpc") THEN Settled(exchange[k], o) ELSE Idle
<1>1. exchange' = [ exchange EXCEPT ![k] = x ]
  BY DEF Replied, Settled
<1>2. exchange'[k] = x /\ \A j \in Calls \ { k } : exchange'[j] = exchange[j]
  BY <1>1, ExchangeSet
<1>3. ShapedExchange(exchange[k])
  BY DEF ExchangesOK, ExchangeOK
<1>4. /\ Settled(exchange[k], o).capability = exchange[k].capability
      /\ Settled(exchange[k], o).outcome = o
  BY <1>3, ExchangeShape
<1>5. Settled(exchange[k], o).st = "replied"
  BY <1>3 DEF ShapedExchange, ExchangesOver, Settled
<1>6. Idle.st = "idle" /\ Idle.capability = NoCapability
  BY DEF Idle
<1> QED
  BY <1>2, <1>4, <1>5, <1>6 DEF Hears, At

\* The other changes of an exchange.
LEMMA ExchangeFields ==
    ASSUME NEW x, ShapedExchange(x), NEW st, NEW inst, NEW capability, NEW by
    PROVE  /\ Staged(x, st).st = st /\ Staged(x, st).capability = x.capability
           /\ TakenUp(x, inst).st = "running" /\ TakenUp(x, inst).capability = x.capability
           /\ Sent(capability, by).st = "sent" /\ Sent(capability, by).capability = capability
           /\ Idle.st = "idle" /\ Idle.capability = NoCapability
BY SentShape, ExchangeShape
   DEF ShapedExchange, ExchangesOver, Staged, TakenUp, Sent, Idle

\* No official capability is the one of no call.
LEMMA Officials ==
    /\ AuthVerify # HttpRoute /\ NoCapability \notin { AuthVerify, HttpRoute }
    /\ DataQuery \notin { AuthVerify, HttpRoute, NoCapability }
    /\ DataWrite \notin { AuthVerify, HttpRoute, NoCapability }
    /\ AuthVerify \notin HostCapabilities
BY OfficialAssumption, BusAssumption, ServingAssumption

-----------------------------------------------------------------------------
\* The bus: each step of a dispatch is a step of its request.
LEMMA DispatchMoves ==
    ASSUME PromiseInv, ServingInv, NEW k \in Calls, Dispatching(k)
    PROVE  \E q \in Requests : StepOf(q)
<1> USE DEF ServingInv
<1> DEFINE q == k[1]
<1>1. q \in Requests /\ k \in { Outer(q), Nested(q) }
  BY CallNames
<1>2. UNCHANGED << stage, answer, performed, scenario >>
  BY DEF Dispatching, gatewayVars, hostVars
<1>3. /\ ShapedCall(call[k]) /\ ShapedExchange(exchange[k])
      /\ CallsOK /\ ExchangesOK
  BY DEF CallsOK, CallOK, ExchangesOK, ExchangeOK
<1>4. RequestKept(q)
  BY <1>1 DEF PromiseInv
<1> HIDE DEF q
<1>5. SUFFICES /\ \A j \in Calls \ { k } : call'[j] = call[j] /\ exchange'[j] = exchange[j]
               /\ k = Outer(q) => OuterNow(q)
               /\ k = Nested(q) => NestedNow(q)
  BY <1>1, <1>2, CallChanges
<1>6. CASE RunLocal(k)
  <2>1. call' = [ call EXCEPT ![k] = Moved(call[k], "local") ] /\ UNCHANGED exchange
    BY <1>6 DEF RunLocal, Moved
  <2>2. /\ call'[k] = Moved(call[k], "local")
        /\ \A j \in Calls \ { k } : call'[j] = call[j] /\ exchange'[j] = exchange[j]
    BY <1>3, <2>1, CallSet
  <2>3. /\ Waits(call[k]) /\ Waits(call'[k])
        /\ call'[k].capability = call[k].capability
    BY <1>3, <1>6, <2>2, MovedShape DEF RunLocal, Reads, At, Waits
  <2> QED
    BY <1>2, <1>4, <2>1, <2>2, <2>3, OuterWaits, NestedWaits DEF OuterNow, NestedNow, RequestKept
<1>7. CASE Resolve(k) /\ call[k].left > 0
  <2> DEFINE h == Found(call[k].capability, call[k].constraint).plugin_handle
             t == Timed(call[k], Clamped(call[k].left), h)
  <2>1. call' = [ call EXCEPT ![k] = t ] /\ UNCHANGED exchange
    <3>1. ~(call[k].left <= 0)
      BY <1>3, <1>7 DEF ShapedCall, CallsOver
    <3> QED
      BY <1>7, <3>1 DEF Resolve, Timed
  <2>2. t.pc = "resolved" /\ t.capability = call[k].capability
    <3>1. Clamped(call[k].left) \in Int
      BY <1>3, BusAssumption DEF ShapedCall, CallsOver, Clamped, Smaller
    <3> QED
      BY <1>3, <3>1, TimedShape
  <2> HIDE DEF t
  <2>3. /\ call'[k] = t
        /\ \A j \in Calls \ { k } : call'[j] = call[j] /\ exchange'[j] = exchange[j]
    BY <1>3, <2>1, CallSet
  <2>4. /\ Waits(call[k]) /\ Waits(call'[k])
        /\ call'[k].capability = call[k].capability
    BY <1>7, <2>2, <2>3 DEF Resolve, Reads, At, Waits
  <2> QED
    BY <1>2, <1>4, <2>1, <2>3, <2>4, OuterWaits, NestedWaits DEF OuterNow, NestedNow, RequestKept
<1>8. CASE Send(k)
  <2>1. /\ call' = [ call EXCEPT ![k] = Moved(call[k], "rpc") ]
        /\ exchange' = [ exchange EXCEPT ![k] = Sent(call[k].capability, call[k].handle) ]
        /\ call[k].pc = "resolved"
    BY <1>8 DEF Send, Moved, Sent, At
  <2>2. /\ call'[k] = Moved(call[k], "rpc")
        /\ exchange'[k] = Sent(call[k].capability, call[k].handle)
        /\ \A j \in Calls \ { k } : call'[j] = call[j] /\ exchange'[j] = exchange[j]
    BY <1>3, <2>1, CallSet, ExchangeSet
  <2>3. /\ call'[k].pc = "rpc" /\ call'[k].capability = call[k].capability
        /\ exchange'[k].st = "sent" /\ exchange'[k].capability = call[k].capability
    BY <1>3, <2>2, MovedShape, ExchangeFields
  <2> QED
    BY <1>2, <1>4, <2>1, <2>2, <2>3, OuterSends, NestedSends DEF OuterNow, NestedNow, RequestKept
<1>9. CASE Respond(k)
  <2>1. /\ call' = [ call EXCEPT ![k] = Ended(exchange[k].outcome) ]
        /\ exchange' = [ exchange EXCEPT ![k] = Idle ]
        /\ call[k].pc = "rpc" /\ exchange[k].st = "replied"
    BY <1>9 DEF Respond, Ends, Quits, At
  <2>2. /\ call'[k] = Ended(exchange[k].outcome) /\ exchange'[k] = Idle
        /\ \A j \in Calls \ { k } : call'[j] = call[j] /\ exchange'[j] = exchange[j]
    BY <1>3, <2>1, CallSet, ExchangeSet
  <2>3. /\ call'[k].pc = "ended" /\ call'[k].outcome = exchange[k].outcome
        /\ call'[k].capability # HttpRoute
        /\ exchange'[k].st = "idle" /\ exchange'[k].capability # HttpRoute
    BY <1>3, <2>2, EndedShape, ExchangeFields, Officials
  <2> QED
    BY <1>2, <1>4, <2>1, <2>2, <2>3, OuterResponds, NestedResponds
       DEF OuterNow, NestedNow, RequestKept
<1>10. CASE \/ NothingOffered(k) \/ NotConnected(k) \/ Expire(k)
            \/ Break(k, Reaches(exchange[k].by))
            \/ Resolve(k) /\ ~(call[k].left > 0)
  <2>1. PICK e \in Errors :
          /\ call' = [ call EXCEPT ![k] = Ended(Fails(e)) ]
          /\ \/ Waits(call[k]) /\ UNCHANGED exchange
             \/ /\ call[k].pc = "rpc" /\ e \in { "DeadlineExceeded", "TransportError" }
                /\ UNCHANGED exchange \/ exchange' = [ exchange EXCEPT ![k] = Idle ]
    <3>1. CASE NothingOffered(k)
      BY <3>1 DEF NothingOffered, Reads, At, Waits, Ends, Errors
    <3>2. CASE NotConnected(k)
      BY <3>2 DEF NotConnected, At, Waits, Ends, Errors
    <3>3. CASE Expire(k)
      BY <3>3 DEF Expire, At, Ends, Quits, Errors
    <3>4. CASE Break(k, Reaches(exchange[k].by))
      BY <3>4 DEF Break, At, Ends, Quits, Errors
    <3>5. CASE Resolve(k) /\ ~(call[k].left > 0)
      <4>1. call[k].left <= 0
        BY <1>3, <3>5 DEF ShapedCall, CallsOver
      <4> QED
        BY <3>5, <4>1 DEF Resolve, Reads, At, Waits, Errors
    <3> QED
      BY <1>10, <3>1, <3>2, <3>3, <3>4, <3>5
  <2>2. call'[k] = Ended(Fails(e)) /\ \A j \in Calls \ { k } : call'[j] = call[j]
    BY <1>3, <2>1, CallSet
  <2>3. /\ call'[k].pc = "ended" /\ call'[k].outcome = Fails(e)
        /\ call'[k].capability # HttpRoute
    BY <2>2, EndedShape, Officials
  <2>4. /\ \A j \in Calls \ { k } : exchange'[j] = exchange[j]
        /\ \/ exchange'[k] = exchange[k]
           \/ exchange'[k].st = "idle" /\ exchange'[k].capability # HttpRoute
    <3>1. CASE UNCHANGED exchange
      BY <3>1
    <3>2. CASE exchange' = [ exchange EXCEPT ![k] = Idle ]
      BY <1>3, <3>2, ExchangeSet, ExchangeFields, Officials
    <3> QED
      BY <2>1, <3>1, <3>2
  <2>5. k = Outer(q) => OuterNow(q)
    BY <1>2, <1>4, <2>1, <2>3, <2>4, OuterFails DEF OuterNow, RequestKept
  <2>6. k = Nested(q) => NestedNow(q)
    BY <1>2, <1>4, <2>1, <2>3, <2>4, NestedFails DEF NestedNow, RequestKept
  <2> QED
    BY <2>2, <2>4, <2>5, <2>6
<1> QED
  BY <1>6, <1>7, <1>8, <1>9, <1>10 DEF Dispatching, KernelStep

\* The host's handler: the call's effect or none, and its answer.
LEMMA LocalMoves ==
    ASSUME PromiseInv, ServingInv, NEW k \in Calls, HandlerReturns(k)
    PROVE  \E q \in Requests : StepOf(q)
<1> USE DEF ServingInv
<1> DEFINE q == k[1]
<1>1. q \in Requests /\ k \in { Outer(q), Nested(q) }
  BY CallNames
<1>2. /\ UNCHANGED << stage, answer, scenario, exchange >>
      /\ call[k].pc = "local"
  BY DEF HandlerReturns, LocalReturns, gatewayVars, At
<1>3. RequestKept(q)
  BY <1>1 DEF PromiseInv
<1>4. call[k].capability # AuthVerify /\ Waits(call[k])
  BY <1>2, Officials DEF CallsOK, CallOK, Waits
<1>5. ASSUME NEW o, LocalReturns(k, o)
      PROVE  /\ call'[k].pc = "ended" /\ call'[k].outcome = o /\ call'[k].capability # HttpRoute
             /\ \A j \in Calls \ { k } : call'[j] = call[j] /\ exchange'[j] = exchange[j]
  <2>1. call' = [ call EXCEPT ![k] = Ended(o) ]
    BY <1>5 DEF LocalReturns, Ends
  <2>2. call'[k] = Ended(o) /\ \A j \in Calls \ { k } : call'[j] = call[j]
    BY <2>1, CallSet
  <2> QED
    BY <1>2, <2>2, EndedShape, Officials
<1>6. ASSUME NEW o \in { Bytes("done") } \cup { Fails(e) : e \in Unsure }, LocalReturns(k, o),
             performed' = [ performed EXCEPT ![k[1]] = @ + 1 ]
      PROVE  StepOf(q)
  <2>1. /\ performed'[q] = performed[q] + 1
        /\ \A r \in Requests \ { q } : performed'[r] = performed[r]
    BY <1>1, <1>6 DEF HistoryOK
  <2> HIDE DEF q
  <2>2. k = Outer(q) => OuterNow(q) /\ Acts(stage[q], answer[q], performed[q])
    BY <1>2, <1>3, <1>4, <1>5, <1>6, <2>1, OuterLocal DEF OuterNow, RequestKept
  <2>3. k = Nested(q) => NestedNow(q) /\ Acts(stage[q], answer[q], performed[q])
    BY <1>2, <1>3, <1>4, <1>5, <1>6, <2>1, NestedLocal DEF NestedNow, RequestKept
  <2> QED
    BY <1>1, <1>2, <1>5, <1>6, <2>1, <2>2, <2>3, CallChanges
<1>7. ASSUME NEW e \in Errors, LocalReturns(k, Fails(e)), UNCHANGED performed
      PROVE  StepOf(q)
  <2> HIDE DEF q
  <2>1. k = Outer(q) => OuterNow(q)
    BY <1>2, <1>3, <1>4, <1>5, <1>7, OuterFails DEF OuterNow, RequestKept
  <2>2. k = Nested(q) => NestedNow(q)
    BY <1>2, <1>3, <1>4, <1>5, <1>7, NestedFails DEF NestedNow, RequestKept
  <2> QED
    BY <1>1, <1>2, <1>5, <1>7, <2>1, <2>2, CallChanges
<1> QED
  BY <1>1, <1>6, <1>7 DEF HandlerReturns

\* The plugins: a call is taken, dropped, turned down, or served.
LEMMA PluginMoves ==
    ASSUME PromiseInv, ServingInv, NEW k \in Calls,
           Take(k) \/ Cancel(k) \/ Refuse(k) \/ Swallow(k) \/ Execute(k) \/ RouterDeclines(k),
           Swallow(k) => Due(k[1]) = 0, UNCHANGED << stage, answer >>
    PROVE  \E q \in Requests : StepOf(q)
<1> USE DEF ServingInv
<1> DEFINE q == k[1]
<1>1. q \in Requests /\ k \in { Outer(q), Nested(q) }
  BY CallNames
<1>2. UNCHANGED << stage, answer, scenario, call >>
  BY DEF Take, Cancel, Refuse, Swallow, Execute, RouterDeclines, hostVars
<1>3. ShapedExchange(exchange[k]) /\ CallsOK /\ ExchangesOK
  BY DEF ExchangesOK, ExchangeOK
<1>4. RequestKept(q)
  BY <1>1 DEF PromiseInv
<1> HIDE DEF q
<1>5. CASE Execute(k)
  <2>1. /\ Replied(k, Bytes("done")) /\ exchange[k].st = "running"
        /\ exchange[k].capability # AuthVerify
        /\ performed' = [ performed EXCEPT ![q] = @ + 1 ]
    BY <1>5, Officials DEF Execute, Runs, q
  <2>2. /\ Hears(call[k], exchange[k], Bytes("done"), exchange'[k])
        /\ \A j \in Calls \ { k } : call'[j] = call[j] /\ exchange'[j] = exchange[j]
    BY <1>2, <1>3, <2>1, RepliedHears
  <2>3. /\ performed'[q] = performed[q] + 1
        /\ \A r \in Requests \ { q } : performed'[r] = performed[r]
    BY <1>1, <2>1 DEF HistoryOK
  <2>4. k = Outer(q) => OuterNow(q) /\ Acts(stage[q], answer[q], performed[q])
    BY <1>2, <1>4, <2>1, <2>2, <2>3, OuterExecuted DEF OuterNow, RequestKept
  <2>5. k = Nested(q) => NestedNow(q) /\ Acts(stage[q], answer[q], performed[q])
    BY <1>2, <1>4, <2>1, <2>2, <2>3, NestedExecuted DEF NestedNow, RequestKept
  <2> QED
    BY <1>1, <1>2, <2>2, <2>3, <2>4, <2>5, CallChanges
<1>6. CASE ~Execute(k)
  <2>1. UNCHANGED performed
    BY <1>6 DEF Take, Cancel, Refuse, Swallow, RouterDeclines, hostVars
  <2>2. SUFFICES /\ \A j \in Calls \ { k } : exchange'[j] = exchange[j]
                 /\ k = Outer(q) => OuterNow(q)
                 /\ k = Nested(q) => NestedNow(q)
    BY <1>1, <1>2, <2>1, CallChanges
  <2>3. CASE /\ exchange[k].st = "sent"
             /\ \E inst : exchange' = [ exchange EXCEPT ![k] = TakenUp(exchange[k], inst) ]
    <3>1. PICK inst : exchange' = [ exchange EXCEPT ![k] = TakenUp(exchange[k], inst) ]
      BY <2>3
    <3>2. /\ exchange'[k] = TakenUp(exchange[k], inst)
          /\ \A j \in Calls \ { k } : exchange'[j] = exchange[j]
      BY <1>3, <3>1, ExchangeSet
    <3>3. exchange'[k].st = "running" /\ exchange'[k].capability = exchange[k].capability
      BY <1>3, <3>2, ExchangeFields
    <3> QED
      BY <1>2, <1>4, <2>1, <2>3, <3>2, <3>3, OuterTaken, NestedTaken
         DEF OuterNow, NestedNow, RequestKept
  <2>4. CASE Cancel(k)
    <3>1. exchange' = [ exchange EXCEPT ![k] = Idle ] /\ call[k].pc # "rpc"
      BY <2>4 DEF Cancel, Quits, At
    <3>2. exchange'[k] = Idle /\ \A j \in Calls \ { k } : exchange'[j] = exchange[j]
      BY <1>3, <3>1, ExchangeSet
    <3>3. exchange'[k].st = "idle" /\ exchange'[k].capability # HttpRoute
      BY <1>3, <3>2, ExchangeFields, Officials
    <3> QED
      BY <1>2, <1>4, <2>1, <3>1, <3>2, <3>3, OuterDrops, NestedDrops
         DEF OuterNow, NestedNow, RequestKept
  <2>5. CASE /\ exchange[k].st \in { "sent", "running" }
             /\ \/ Replied(k, Fails("PluginError"))
                \/ Replied(k, Bytes("401")) /\ exchange[k].capability = HttpRoute
    <3>1. PICK o \in { Fails("PluginError"), Bytes("401") } :
            Replied(k, o) /\ (o = Bytes("401") => exchange[k].capability = HttpRoute)
      <4>1. Fails("PluginError") # Bytes("401")
        BY DEF Fails, Bytes
      <4> QED
        BY <2>5, <4>1
    <3>2. /\ Hears(call[k], exchange[k], o, exchange'[k])
          /\ \A j \in Calls \ { k } : exchange'[j] = exchange[j]
      BY <1>3, <3>1, RepliedHears
    <3>3. o \in Outcomes /\ Refuses(o)
      BY <3>1 DEF Outcomes, Results, Errors, Payloads, Fails, Bytes, Refuses, Successes
    <3>4. k = Outer(q) => OuterNow(q)
      BY <1>2, <1>4, <2>1, <2>5, <3>2, <3>3, OuterDeclined DEF OuterNow, RequestKept
    <3>5. k = Nested(q) => NestedNow(q)
      <4>1. ASSUME k = Nested(q) PROVE o.result # "Ok"
        <5>1. exchange[k].capability # HttpRoute
          BY <1>4, <4>1 DEF RequestKept, RequestOK, NoRouter
        <5> QED
          BY <3>1, <5>1 DEF Fails
      <4> QED
        BY <1>2, <1>4, <2>1, <2>5, <3>2, <3>3, <4>1, NestedDeclined DEF NestedNow, RequestKept
    <3> QED
      BY <3>2, <3>4, <3>5
  <2>6. CASE Swallow(k)
    <3>1. /\ Replied(k, Bytes("done")) /\ exchange[k].st = "running"
          /\ exchange[k].capability # AuthVerify /\ Due(q) = 0
      BY <2>6, Officials DEF Swallow, Swallowed, Runs, q
    <3>2. /\ Hears(call[k], exchange[k], Bytes("done"), exchange'[k])
          /\ \A j \in Calls \ { k } : exchange'[j] = exchange[j]
      BY <1>3, <3>1, RepliedHears
    <3>3. k = Outer(q) => OuterNow(q)
      BY <1>2, <1>4, <2>1, <3>1, <3>2, OuterSwallowed DEF OuterNow, RequestKept
    <3>4. k = Nested(q) => NestedNow(q)
      BY <1>2, <1>4, <2>1, <3>1, <3>2, NestedSwallowed DEF NestedNow, RequestKept
    <3> QED
      BY <3>2, <3>3, <3>4
  <2>7. Take(k) => \/ /\ exchange[k].st = "sent"
                      /\ \E inst : exchange' = [ exchange EXCEPT ![k] = TakenUp(exchange[k], inst) ]
                   \/ exchange[k].st = "sent" /\ Replied(k, Fails("PluginError"))
    <3> DEFINE m == exchange[k].by.plugin_name
    <3>1. [ exchange EXCEPT ![k].st = "running", ![k].inst = proc[m].inst ]
            = [ exchange EXCEPT ![k] = TakenUp(exchange[k], proc[m].inst) ]
      BY DEF TakenUp, ExchangesOK
    <3> QED
      BY <3>1 DEF Take
  <2> QED
    BY <1>6, <2>3, <2>4, <2>5, <2>6, <2>7 DEF Refuse, RouterDeclines, Runs
<1> QED
  BY <1>5, <1>6

\* auth-jwt answers: no effect, and a verdict at most once.
LEMMA VerifyMoves ==
    ASSUME PromiseInv, ServingInv, NEW k \in Calls, Verify(k), UNCHANGED << stage, answer >>
    PROVE  StepOf(k[1])
<1> USE DEF ServingInv
<1> DEFINE q == k[1]
           judged == Judgement(Work(q).token)
<1>1. q \in Requests /\ k \in { Outer(q), Nested(q) }
  BY CallNames
<1>2. /\ UNCHANGED << stage, answer, call, performed, scenario >>
      /\ exchange[k].st = "running" /\ exchange[k].capability = AuthVerify
      /\ Replied(k, Bytes(judged))
  BY DEF Verify, Runs
<1>3. Bytes(judged) \in Outcomes /\ Refuses(Bytes(judged))
  BY DEF Judgement, Bytes, Outcomes, Results, Errors, Payloads, Refuses, Successes
<1>4. RequestKept(q)
  BY <1>1 DEF PromiseInv
<1> HIDE DEF judged
<1>5. /\ Hears(call[k], exchange[k], Bytes(judged), exchange'[k])
      /\ \A j \in Calls \ { k } : call'[j] = call[j] /\ exchange'[j] = exchange[j]
  BY <1>2, RepliedHears
<1>6. k = Outer(q) => OuterNow(q)
  BY <1>2, <1>3, <1>4, <1>5, OuterDeclined DEF OuterNow, RequestKept
<1>7. k = Nested(q) => NestedNow(q)
  BY <1>2, <1>3, <1>4, <1>5, NestedDeclined DEF NestedNow, RequestKept
<1> HIDE DEF q
<1>8. StepOf(q)
  BY <1>1, <1>2, <1>5, <1>6, <1>7, CallChanges
<1> QED
  BY <1>8 DEF q

\* The verdict is a step of the promise, or none.
LEMMA VerifyPromised ==
    ASSUME PromiseInv, ServingInv, NEW k \in Calls, Verify(k), UNCHANGED << stage, answer >>
    PROVE  [Promise!Next]_(Promise!vars)
<1> DEFINE q == k[1]
           judged == Judgement(Work(q).token)
           promise == [ r \in Requests |-> PromiseOf(r) ]
<1>1. q \in Requests /\ k \in { Outer(q), Nested(q) }
  BY CallNames
<1>2. /\ UNCHANGED << scenario, performed >>
      /\ verdict' = [ verdict EXCEPT ![q] = judged ]
      /\ exchange[k].st = "running"
  BY DEF Verify, Runs
<1>3. promise' = promise
  BY DEF PromiseOf
<1>4. promise[q] # "new"
  <2>1. RequestKept(q)
    BY <1>1 DEF PromiseInv
  <2>2. stage[q] \in Stages /\ stage[q] # "new"
    BY <1>1, <1>2, <2>1 DEF RequestKept, RequestOK, AnswerOK, OneToken, Undecided, Unasked
  <2>3. Promised(stage[q], answer[q]) # "new"
    BY <2>2 DEF Promised
  <2> QED
    BY <1>1, <2>2, <2>3, PromiseIs
<1>5. UNCHANGED Promise!asked
  BY <1>2, SetsFrame, DueFrame DEF Promise!asked
<1>6. /\ verdict \in [ Requests -> { "none", "valid", "invalid" } ]
      /\ verdict[q] # "none" => verdict[q] = judged
  BY <1>1 DEF ServingInv, HistoryOK
<1>7. judged \in { "valid", "invalid" }
  BY DEF Judgement
<1> HIDE DEF judged, promise
<1>8. CASE verdict[q] = "none"
  <2>1. \E v \in { "valid", "invalid" } : verdict' = [ verdict EXCEPT ![q] = v ]
    BY <1>2, <1>7
  <2>2. Promise!Judge(q)
    BY <1>2, <1>3, <1>4, <1>5, <1>8, <2>1 DEF Promise!Judge, promise
  <2> QED
    BY <1>1, <2>2 DEF Promise!Next
<1>9. CASE verdict[q] # "none"
  <2>1. verdict' = verdict
    BY <1>1, <1>2, <1>6, <1>9
  <2> QED
    BY <1>2, <1>3, <1>5, <2>1 DEF Promise!vars, promise
<1> QED
  BY <1>8, <1>9

\* The http-router's exchange and its call move together.
LEMMA RouterMoves ==
    ASSUME PromiseInv, ServingInv, NEW k \in Calls,
           RouterAsks(k) \/ RouterDenies(k) \/ RouterQueries(k) \/ RouterReports(k),
           UNCHANGED << stage, answer >>
    PROVE  \E q \in Requests : StepOf(q)
<1> USE DEF ServingInv
<1> DEFINE q == k[1]
           n == Nested(q)
<1>1. /\ q \in Requests /\ k \in { Outer(q), n } /\ n \in Calls /\ Outer(q) \in Calls
      /\ n # Outer(q)
  BY CallNames, CallIds
<1>2. UNCHANGED << stage, answer, performed, scenario >>
  BY DEF RouterAsks, RouterDenies, RouterQueries, RouterReports, hostVars
<1>3. ShapedExchange(exchange[k]) /\ CallsOK /\ ExchangesOK
  BY DEF ExchangesOK, ExchangeOK
<1>4. RequestKept(q)
  BY <1>1 DEF PromiseInv
<1>5. k = Outer(q)
  <2>1. exchange[k].capability = HttpRoute \/ exchange[k].st \in { "asking", "querying" }
    BY DEF RouterAsks, RouterDenies, RouterQueries, RouterReports, Runs, Answered
  <2> QED
    BY <1>1, <1>4, <2>1 DEF RequestKept, RequestOK, NoRouter
<1>6. SUFFICES /\ \A j \in Calls \ { n } : call'[j] = call[j]
               /\ \A j \in Calls \ { k } : exchange'[j] = exchange[j]
               /\ RequestOK(Due(q), stage[q], answer[q], call[k], exchange'[k], call'[n],
                            exchange[n], performed[q])
  <2>1. ASSUME NEW r \in Requests, r # q
        PROVE  /\ Outer(r) \in Calls /\ Nested(r) \in Calls
               /\ Outer(r) \notin { k, n } /\ Nested(r) \notin { k, n }
    BY <1>1, <1>5, <2>1, CallNames, CallIds
  <2>2. Alone(q)
    BY <1>2, <1>6, <2>1 DEF Alone
  <2>3. RequestKept(q)'
    BY <1>1, <1>2, <1>5, <1>6, DueFrame DEF RequestKept
  <2>4. StepOf(q)
    BY <1>2, <2>2, <2>3 DEF StepOf, Moves, PromiseInv
  <2> QED
    BY <1>1, <2>4
<1>7. /\ NoCall.pc = "none" /\ NoCall.capability # HttpRoute
      /\ DefaultTimeout \in Int /\ DefaultTimeout # 0
  BY NoCallShape, Officials, BusAssumption
<1>8. CASE RouterAsks(k)
  <2> DEFINE d == Dispatched(AuthVerify, Star, DefaultTimeout)
  <2>1. /\ exchange[k].st = "running" /\ exchange[k].capability = HttpRoute
        /\ exchange' = [ exchange EXCEPT ![k] = Staged(exchange[k], "asking") ]
        /\ call' = [ call EXCEPT ![n] = d ]
    BY <1>8 DEF RouterAsks, Runs, Asks, Staged
  <2>2. d.pc = "arrived" /\ d.capability = AuthVerify
    BY <1>7, DispatchedForm
  <2> HIDE DEF d
  <2>3. /\ exchange'[k] = Staged(exchange[k], "asking") /\ call'[n] = d
        /\ \A j \in Calls \ { n } : call'[j] = call[j]
        /\ \A j \in Calls \ { k } : exchange'[j] = exchange[j]
    BY <1>1, <1>3, <2>1, CallSet, ExchangeSet
  <2>4. exchange'[k].st = "asking" /\ exchange'[k].capability = exchange[k].capability
    BY <1>3, <2>3, ExchangeFields
  <2> QED
    BY <1>4, <1>5, <2>1, <2>2, <2>3, <2>4, Officials, RouterAsked DEF RequestKept
<1>9. CASE RouterQueries(k) /\ Work(q).verb # "other"
  <2> DEFINE c == RouterTarget(q)
             d == Dispatched(c, Star, DefaultTimeout)
  <2>1. /\ exchange[k].st = "asking"
        /\ exchange' = [ exchange EXCEPT ![k] = Staged(exchange[k], "querying") ]
        /\ call' = [ call EXCEPT ![n] = d ]
    BY <1>9 DEF RouterQueries, Answered, Asks, Staged
  <2>2. c \notin { AuthVerify, HttpRoute }
    BY Officials DEF RouterTarget
  <2> HIDE DEF c
  <2>3. d.pc = "arrived" /\ d.capability = c
    BY <1>7, DispatchedForm
  <2> HIDE DEF d
  <2>4. /\ exchange'[k] = Staged(exchange[k], "querying") /\ call'[n] = d
        /\ \A j \in Calls \ { n } : call'[j] = call[j]
        /\ \A j \in Calls \ { k } : exchange'[j] = exchange[j]
    BY <1>1, <1>3, <2>1, CallSet, ExchangeSet
  <2>5. exchange'[k].st = "querying" /\ exchange'[k].capability = exchange[k].capability
    BY <1>3, <2>4, ExchangeFields
  <2> QED
    BY <1>4, <1>5, <2>1, <2>2, <2>3, <2>4, <2>5, RouterQueried DEF RequestKept
<1>10. CASE RouterDenies(k) \/ (RouterQueries(k) /\ Work(q).verb = "other")
  <2>1. PICK c \in { "401", "404", "500" } : Replied(k, Bytes(c))
    <3>1. CASE RouterDenies(k)
      BY <3>1 DEF RouterDenies, DenialFor
    <3>2. CASE RouterQueries(k) /\ Work(q).verb = "other"
      BY <3>2 DEF RouterQueries
    <3> QED
      BY <1>10, <3>1, <3>2
  <2>2. exchange[k].st = "asking" /\ call' = [ call EXCEPT ![n] = NoCall ]
    BY <1>10 DEF RouterDenies, RouterQueries, Answered, Hangs
  <2>3. /\ Hears(call[k], exchange[k], Bytes(c), exchange'[k]) /\ call'[n] = NoCall
        /\ \A j \in Calls \ { n } : call'[j] = call[j]
        /\ \A j \in Calls \ { k } : exchange'[j] = exchange[j]
    BY <1>1, <1>3, <2>1, <2>2, CallSet, RepliedHears
  <2> QED
    BY <1>4, <1>5, <1>7, <2>2, <2>3, RouterDenied DEF RequestKept
<1>11. CASE RouterReports(k)
  <2>1. /\ exchange[k].st = "querying" /\ call[n].pc = "ended"
        /\ call' = [ call EXCEPT ![n] = NoCall ]
        /\ Replied(k, Bytes(IF call[n].outcome.result = "Ok" THEN "200" ELSE "500"))
    BY <1>11 DEF RouterReports, Answered, AnswerOf, Hangs, At
  <2>2. /\ Hears(call[k], exchange[k],
                 Bytes(IF call[n].outcome.result = "Ok" THEN "200" ELSE "500"), exchange'[k])
        /\ call'[n] = NoCall
        /\ \A j \in Calls \ { n } : call'[j] = call[j]
        /\ \A j \in Calls \ { k } : exchange'[j] = exchange[j]
    BY <1>1, <1>3, <2>1, CallSet, RepliedHears
  <2> QED
    BY <1>4, <1>5, <1>7, <2>1, <2>2, RouterReported DEF RequestKept
<1> QED
  BY <1>8, <1>9, <1>10, <1>11

\* The gateway drops the call of a router that is gone.
LEMMA DropMoves ==
    ASSUME PromiseInv, ServingInv, NEW q \in Requests, DropNested(q),
           UNCHANGED << stage, answer >>
    PROVE  StepOf(q)
<1> DEFINE n == Nested(q)
<1>1. n \in Calls /\ CallsOK /\ RequestKept(q)
  BY CallIds DEF ServingInv, PromiseInv
<1>2. /\ call' = [ call EXCEPT ![n] = NoCall ]
      /\ exchange[Outer(q)].st \notin { "asking", "querying" }
      /\ UNCHANGED << stage, answer, exchange, performed, scenario >>
  BY DEF DropNested, hostVars
<1>3. call'[n] = NoCall /\ \A j \in Calls \ { n } : call'[j] = call[j] /\ exchange'[j] = exchange[j]
  BY <1>1, <1>2, CallSet
<1>4. call'[n].pc = "none" /\ call'[n].capability # HttpRoute
  BY <1>3, NoCallShape, Officials
<1>5. NestedNow(q)
  BY <1>1, <1>2, <1>4, NestedDropped DEF NestedNow, RequestKept
<1>6. n # Outer(q)
  BY CallNames
<1> QED
  BY <1>2, <1>3, <1>5, <1>6, CallChanges

\* The handlers of the gateways: a request arrives, goes on, or is answered.
LEMMA HandlerMoves ==
    ASSUME PromiseInv, ServingInv, NEW q \in Requests,
           Arrival(q) \/ Handler(q) \/ ClientLeaves(q)
    PROVE  StepOf(q)
<1> USE DEF ServingInv
<1> DEFINE k == Outer(q)
           n == Nested(q)
           Becomes(to, a, r) ==
             /\ DOMAIN stage' = Requests /\ DOMAIN answer' = Requests
             /\ stage'[q] = to /\ answer'[q] = a /\ call'[k] = r
             /\ \A p \in Requests \ { q } : stage'[p] = stage[p] /\ answer'[p] = answer[p]
             /\ \A j \in Calls \ { k } : call'[j] = call[j]
<1>1. k \in Calls /\ n \in Calls /\ k # n
  BY CallIds, CallNames
<1>2. UNCHANGED << exchange, scenario, performed >>
  BY DEF Arrival, RejectTooLarge, HttpInvoke, GrpcInvoke, DeclarativeRoute, Handler, AuthAnswered,
     TargetAnswered, ClientLeaves, HandlerFrame, hostVars
<1>3. RequestKept(q) /\ CallsOK /\ DOMAIN stage = Requests /\ DOMAIN answer = Requests
  BY DEF PromiseInv
<1>4. ASSUME NEW to, NEW a, NEW r,
             Becomes(to, a, r),
             RequestOK(Due(q), to, a, r, exchange[k], call[n], exchange[n], performed[q]),
             LET old == Promised(stage[q], answer[q])
                 new == Promised(to, a)
             IN \/ old = "new" /\ new \in { "open", "refused" }
                \/ old = "open" /\ new = "open"
                \/ /\ old = "open" /\ new \in { "done", "refused", "unknown" }
                   /\ new = "done" => performed[q] = 1 \/ Due(q) = 0
                   /\ new = "refused" => performed[q] = 0
      PROVE  StepOf(q)
  <2>1. call'[k] = r /\ \A j \in Calls \ { k } : call'[j] = call[j]
    BY <1>4
  <2>2. ASSUME NEW p \in Requests, p # q
        PROVE  /\ Outer(p) \in Calls /\ Nested(p) \in Calls
               /\ Outer(p) # k /\ Nested(p) # k
    BY <2>2, CallIds, CallNames
  <2>3. Alone(q)
    BY <1>2, <1>3, <1>4, <2>1, <2>2 DEF Alone
  <2>4. stage'[q] = to /\ answer'[q] = a
    BY <1>3, <1>4
  <2>5. RequestKept(q)'
    BY <1>1, <1>2, <1>4, <2>1, <2>4, DueFrame DEF RequestKept
  <2>6. Moves(q)
    BY <1>2, <1>4, <2>4 DEF Moves
  <2> QED
    BY <1>3, <1>4, <2>3, <2>5, <2>6 DEF StepOf
<1>5. Promised("auth", answer[q]) = "open" /\ Promised("target", answer[q]) = "open"
  BY DEF Promised
<1>6. ASSUME NEW capability, NEW constraint, NEW budget \in Int, stage[q] \in { "new", "auth" },
             Dispatches(q, capability, constraint, budget), Advances(q, "target")
      PROVE  StepOf(q)
  <2> DEFINE d == Dispatched(capability, constraint, budget)
  <2>1. Becomes("target", answer[q], d)
    BY <1>1, <1>3, CallSet, <1>6 DEF Dispatches, Advances
  <2>2. /\ d.pc \in { "arrived", "ended" }
        /\ d.pc = "ended" => d.outcome = Fails("DeadlineExceeded")
    BY <1>6, DispatchedForm
  <2> HIDE DEF d
  <2>3. RequestOK(Due(q), "target", answer[q], d, exchange[k], call[n], exchange[n], performed[q])
    BY <1>3, <1>6, <2>2, HandlerOpens DEF RequestKept, Undecided
  <2>4. Promised(stage[q], answer[q]) \in { "new", "open" }
    BY <1>6 DEF Promised
  <2> QED
    BY <1>4, <1>5, <2>1, <2>3, <2>4
<1>7. ASSUME NEW constraint, stage[q] = "new",
             Dispatches(q, AuthVerify, constraint, AuthTimeout), Advances(q, "auth")
      PROVE  StepOf(q)
  <2> DEFINE d == Dispatched(AuthVerify, constraint, AuthTimeout)
  <2>1. Becomes("auth", answer[q], d)
    BY <1>1, <1>3, CallSet, <1>7 DEF Dispatches, Advances
  <2>2. /\ d.pc \in { "arrived", "ended" }
        /\ d.pc = "arrived" => d.capability = AuthVerify
    BY DispatchedForm, ServingAssumption
  <2> HIDE DEF d
  <2>3. RequestOK(Due(q), "auth", answer[q], d, exchange[k], call[n], exchange[n], performed[q])
    BY <1>3, <1>7, <2>2, HandlerAsks DEF RequestKept
  <2>4. Promised(stage[q], answer[q]) = "new"
    BY <1>7 DEF Promised
  <2> QED
    BY <1>4, <1>5, <2>1, <2>3, <2>4
<1>8. ASSUME NEW c \in { "400", "401", "404", "413", "429" }, stage[q] \in { "new", "auth" },
             Answers(q, [ code |-> c, payload |-> "none" ]),
             \/ stage[q] = "new" /\ UNCHANGED call
             \/ call' = [ call EXCEPT ![k] = NoCall ]
      PROVE  StepOf(q)
  <2> DEFINE b == [ code |-> c, payload |-> "none" ]
             r == IF stage[q] = "new" /\ UNCHANGED call THEN call[k] ELSE NoCall
  <2>1. Becomes("done", b, r)
    BY <1>1, <1>3, <1>8, CallSet DEF Answers
  <2>2. r.pc = "none"
    BY <1>3, <1>8, NoCallShape DEF RequestKept, RequestOK, AnswerOK
  <2>3. b.code = c
    OBVIOUS
  <2> HIDE DEF b, r
  <2>4. RequestOK(Due(q), "done", b, r, exchange[k], call[n], exchange[n], performed[q])
    BY <1>3, <1>8, <2>2, <2>3, HandlerRefuses DEF RequestKept, Undecided
  <2>5. /\ Promised(stage[q], answer[q]) \in { "new", "open" } /\ Promised("done", b) = "refused"
        /\ performed[q] = 0
    BY <1>3, <1>8, <2>3 DEF Promised, RequestKept, RequestOK, OneToken, MayAct, Undecided
  <2> QED
    BY <1>4, <2>1, <2>4, <2>5
<1>9. CASE RejectTooLarge(q)
  BY <1>8, <1>9 DEF RejectTooLarge, Rejects
<1>10. Work(q).budget \in Int /\ DefaultTimeout \in Int
  <2>1. scenario.work \in [ Requests -> [ via : Vias, client : Clients,
                                 capability : Capabilities, budget : 0 .. DefaultTimeout,
                                 method : Verbs, path : Seq(STRING), token : Tokens,
                                 body : Bodies, verb : Verbs ] ]
    BY ServingAssumption
  <2>2. Work(q).budget \in 0 .. DefaultTimeout
    BY <2>1 DEF Work
  <2> QED
    BY <2>2, BusAssumption
<1>11. CASE HttpInvoke(q) \/ GrpcInvoke(q)
  <2>1. stage[q] = "new"
    BY <1>11 DEF HttpInvoke, GrpcInvoke, Arrives
  <2>2. \/ Rejects(q, "429")
        \/ Rejects(q, "400")
        \/ /\ Dispatches(q, Work(q).capability, Star, Work(q).budget)
           /\ Advances(q, "target")
    BY <1>11 DEF HttpInvoke, GrpcInvoke
  <2> QED
    BY <1>6, <1>8, <1>10, <2>1, <2>2 DEF Rejects
<1>12. ASSUME stage[q] \in { "new", "auth" }, DispatchesTarget(q) PROVE StepOf(q)
  BY <1>6, <1>10, <1>12 DEF DispatchesTarget
<1>13. CASE DeclarativeRoute(q)
  <2>1. stage[q] = "new"
    BY <1>13 DEF DeclarativeRoute, Arrives
  <2>2. \/ Rejects(q, "404")
        \/ Rejects(q, "413")
        \/ RouteOf(q) # NoRoute /\ RouteOf(q).protected /\ DispatchesAuth(q)
        \/ DispatchesTarget(q)
    BY <1>13 DEF DeclarativeRoute
  <2>3. CASE RouteOf(q) # NoRoute /\ RouteOf(q).protected /\ DispatchesAuth(q)
    <3>1. \E i \in DOMAIN Routes : Taken(i, q)
      BY <2>3 DEF RouteOf
    <3>2. \E i \in DOMAIN Routes : RouteOf(q) = Routes[i]
      BY <3>1 DEF RouteOf
    <3>3. RouteOf(q).auth.capability = AuthVerify
      BY <2>3, <3>2, ServingAssumption
    <3> QED
      BY <1>7, <2>1, <2>3, <3>3 DEF DispatchesAuth
  <2> QED
    BY <1>8, <1>12, <2>1, <2>2, <2>3 DEF Rejects
<1>14. CASE AuthAnswered(q)
  BY <1>8, <1>12, <1>14 DEF AuthAnswered
<1>15. CASE TargetAnswered(q)
  <2> DEFINE o == call[k].outcome
             b == [ code |-> StatusOf(o), payload |-> o.payload ]
  <2>1. /\ stage[q] = "target" /\ call[k].pc = "ended"
        /\ Becomes("done", b, NoCall)
    BY <1>1, <1>3, CallSet, <1>15 DEF TargetAnswered, At, Answers
  <2>2. b.code = StatusOf(o) /\ b.payload = o.payload
    OBVIOUS
  <2> HIDE DEF b
  <2>3. /\ Promised("done", b) \in { "done", "refused", "unknown" }
        /\ Promised("done", b) = "done" => performed[q] = 1 \/ Due(q) = 0
        /\ Promised("done", b) = "refused" => performed[q] = 0
        /\ RequestOK(Due(q), "done", b, NoCall, exchange[k], call[n], exchange[n], performed[q])
    BY <1>3, <2>1, <2>2, NoCallShape, HandlerAnswers DEF RequestKept
  <2>4. Promised(stage[q], answer[q]) = "open"
    BY <2>1 DEF Promised
  <2> QED
    BY <1>4, <2>1, <2>3, <2>4
<1>16. CASE ClientLeaves(q)
  <2> DEFINE b == [ code |-> "gone", payload |-> "none" ]
  <2>1. /\ stage[q] \in { "auth", "target" }
        /\ Becomes("done", b, NoCall)
    BY <1>1, <1>3, CallSet, <1>16 DEF ClientLeaves, Answers
  <2>2. b.code = "gone"
    OBVIOUS
  <2> HIDE DEF b
  <2>3. RequestOK(Due(q), "done", b, NoCall, exchange[k], call[n], exchange[n], performed[q])
    BY <1>3, <2>1, <2>2, NoCallShape, HandlerLeaves DEF RequestKept
  <2>4. Promised(stage[q], answer[q]) = "open" /\ Promised("done", b) = "unknown"
    BY <2>1, <2>2 DEF Promised
  <2> QED
    BY <1>4, <2>1, <2>3, <2>4
<1> QED
  BY <1>9, <1>11, <1>13, <1>14, <1>15, <1>16 DEF Arrival, Handler

-----------------------------------------------------------------------------
\* A call that is set anew asks for what it may, the rest goes on.
LEMMA CallAsked ==
    ASSUME AskedInv, ServingInv, NEW k \in Calls, NEW r, r.capability \in Askable(k),
           call' = [ call EXCEPT ![k] = r ],
           \A j \in Calls : exchange'[j] = exchange[j] \/ AskedExchange(j, exchange'[j]),
           \A q \in Requests : stage'[q] = "auth" => stage[q] = "auth" \/ Routed(q),
           UNCHANGED scenario
    PROVE  AskedInv'
<1>1. call'[k] = r /\ \A j \in Calls \ { k } : call'[j] = call[j]
  BY CallSet DEF ServingInv
<1> QED
  BY <1>1, AskedKept

\* An exchange that is set anew is about the same as before, or about nothing.
LEMMA ExchangeAsked ==
    ASSUME AskedInv, ServingInv, NEW k \in Calls, NEW x, AskedExchange(k, x),
           exchange' = [ exchange EXCEPT ![k] = x ]
    PROVE  \A j \in Calls : exchange'[j] = exchange[j] \/ AskedExchange(j, exchange'[j])
<1>1. exchange'[k] = x /\ \A j \in Calls \ { k } : exchange'[j] = exchange[j]
  BY ExchangeSet DEF ServingInv
<1> QED
  BY <1>1

\* What an exchange may become: of those, all are about what it was about.
LEMMA ExchangesAskable ==
    ASSUME AskedInv, ServingInv, NEW k \in Calls
    PROVE  /\ AskedExchange(k, Idle)
           /\ \A by : call[k].capability \in Askable(k)
                      => AskedExchange(k, Sent(call[k].capability, by))
           /\ \A inst : AskedExchange(k, TakenUp(exchange[k], inst))
           /\ AskedExchange(k, Staged(exchange[k], "broken"))
           /\ \A st : exchange[k].capability = HttpRoute
                      => AskedExchange(k, Staged(exchange[k], st))
           /\ \A o : AskedExchange(k, Settled(exchange[k], o))
<1>1. ShapedExchange(exchange[k]) /\ AskedExchange(k, exchange[k])
  BY DEF ServingInv, ExchangesOK, ExchangeOK, AskedInv
<1>2. NoCapability \in Askable(k)
  BY DEF Askable
<1>3. \A o : Settled(exchange[k], o).capability = exchange[k].capability
  BY <1>1, ExchangeShape
<1>4. \A o : Settled(exchange[k], o).st = "replied"
  BY <1>1 DEF ShapedExchange, ExchangesOver, Settled
<1> QED
  BY <1>1, <1>2, <1>3, <1>4, ExchangeFields DEF AskedExchange

\* A reply is about what was asked.
LEMMA ReplyAsked ==
    ASSUME AskedInv, ServingInv, NEW k \in Calls, NEW o, Replied(k, o)
    PROVE  \A j \in Calls : exchange'[j] = exchange[j] \/ AskedExchange(j, exchange'[j])
<1>1. \/ exchange' = [ exchange EXCEPT ![k] = Settled(exchange[k], o) ]
      \/ exchange' = [ exchange EXCEPT ![k] = Idle ]
  BY DEF Replied, Settled
<1> QED
  BY <1>1, ExchangesAskable, ExchangeAsked

\* A request's budget and the gateways' own are numbers ...
LEMMA Budgets ==
    ASSUME ServingInv, NEW q \in Requests
    PROVE  Work(q).budget \in Int /\ DefaultTimeout \in Int /\ AuthTimeout \in Int
<1>1. Work(q).budget \in Int
  BY WorkType DEF ServingInv
<1>2. DefaultTimeout \in Int
  BY BusAssumption
<1>3. AuthTimeout \in Int
  BY ServingAssumption
<1> QED
  BY <1>1, <1>2, <1>3

\* ... and a protected route asks auth-jwt.
LEMMA AuthOfRoute ==
    ASSUME NEW q, RouteOf(q) # NoRoute, RouteOf(q).protected
    PROVE  RouteOf(q).auth.capability = AuthVerify
<1>1. \E i \in DOMAIN Routes : Taken(i, q)
  BY DEF RouteOf
<1>2. \E i \in DOMAIN Routes : RouteOf(q) = Routes[i]
  BY <1>1 DEF RouteOf
<1> QED
  BY <1>2, ServingAssumption

\* The gateways ask for auth and for the target.
LEMMA HandlerAsked ==
    ASSUME AskedInv, ServingInv, NEW q \in Requests, Arrival(q) \/ Handler(q) \/ ClientLeaves(q)
    PROVE  AskedInv'
<1> DEFINE k == Outer(q)
           Staging(to) == stage' = [ stage EXCEPT ![q] = to ]
<1>1. k \in Calls /\ k[1] = q
  BY CallIds
<1>2. UNCHANGED << exchange, scenario >>
  BY DEF Arrival, RejectTooLarge, HttpInvoke, GrpcInvoke, DeclarativeRoute, Handler, AuthAnswered,
     TargetAnswered, ClientLeaves, HandlerFrame, hostVars
<1>3. { AuthVerify, NoCapability, Target(q) } \subseteq Askable(k)
  BY <1>1 DEF Askable
<1>4. ASSUME NEW to, Staging(to), to = "auth" => Routed(q)
      PROVE  \A r \in Requests : stage'[r] = "auth" => stage[r] = "auth" \/ Routed(r)
  BY <1>4
<1>5. ASSUME NEW c \in { AuthVerify, Target(q) }, NEW con, NEW budget \in Int,
             Dispatches(q, c, con, budget),
             NEW to, Staging(to), to = "auth" => Routed(q)
      PROVE  AskedInv'
  <2> DEFINE d == Dispatched(c, con, budget)
  <2>1. call' = [ call EXCEPT ![k] = d ]
    BY <1>5 DEF Dispatches
  <2>2. d.capability \in Askable(k)
    BY <1>3, <1>5, DispatchedForm
  <2>3. \A r \in Requests : stage'[r] = "auth" => stage[r] = "auth" \/ Routed(r)
    BY <1>4, <1>5
  <2> HIDE DEF d, k, Staging
  <2> QED
    BY <1>1, <1>2, <2>1, <2>2, <2>3, CallAsked
<1>6. ASSUME NEW a, Answers(q, a), UNCHANGED call \/ call' = [ call EXCEPT ![k] = NoCall ]
      PROVE  AskedInv'
  <2>1. \A r \in Requests : stage'[r] = "auth" => stage[r] = "auth" \/ Routed(r)
    BY <1>4, <1>6 DEF Answers
  <2> HIDE DEF k, Staging
  <2>2. CASE UNCHANGED call
    BY <1>2, <2>1, <2>2, AskedKept
  <2>3. CASE call' = [ call EXCEPT ![k] = NoCall ]
    <3>1. NoCall.capability \in Askable(k)
      BY <1>3, NoCallShape
    <3> QED
      BY <1>1, <1>2, <2>1, <2>3, <3>1, CallAsked
  <2> QED
    BY <1>6, <2>2, <2>3
<1>7. Work(q).budget \in Int /\ DefaultTimeout \in Int /\ AuthTimeout \in Int
  BY Budgets
<1>8. CASE HttpInvoke(q) \/ GrpcInvoke(q)
  <2>1. \/ \E c : Rejects(q, c)
        \/ /\ Dispatches(q, Work(q).capability, Star, Work(q).budget)
           /\ Advances(q, "target")
    BY <1>8 DEF HttpInvoke, GrpcInvoke
  <2>2. Work(q).capability = Target(q)
    BY <1>8 DEF HttpInvoke, GrpcInvoke, Arrives, Target
  <2> QED
    BY <1>5, <1>6, <1>7, <2>1, <2>2 DEF Rejects, Advances
<1>9. ASSUME Routed(q), DispatchesTarget(q) PROVE AskedInv'
  <2>1. RouteOf(q).target.capability = Target(q)
    BY <1>9 DEF Target, Routed
  <2> QED
    BY <1>5, <1>7, <1>9, <2>1 DEF DispatchesTarget, Advances
<1>10. ASSUME Routed(q), RouteOf(q).protected, DispatchesAuth(q) PROVE AskedInv'
  <2>1. RouteOf(q).auth.capability = AuthVerify
    BY <1>10, AuthOfRoute DEF Routed
  <2> QED
    BY <1>5, <1>7, <1>10, <2>1 DEF DispatchesAuth, Advances
<1>11. CASE DeclarativeRoute(q)
  <2>1. \/ \E c : Rejects(q, c)
        \/ Routed(q) /\ RouteOf(q).protected /\ DispatchesAuth(q)
        \/ Routed(q) /\ DispatchesTarget(q)
    BY <1>11 DEF DeclarativeRoute, Arrives, Routed
  <2> QED
    BY <1>6, <1>9, <1>10, <2>1 DEF Rejects
<1>12. CASE AuthAnswered(q)
  <2>1. Routed(q)
    BY <1>12 DEF AuthAnswered, AskedInv
  <2> QED
    BY <1>6, <1>9, <1>12, <2>1 DEF AuthAnswered
<1>13. CASE RejectTooLarge(q) \/ TargetAnswered(q) \/ ClientLeaves(q)
  BY <1>6, <1>13 DEF RejectTooLarge, Rejects, TargetAnswered, ClientLeaves
<1> QED
  BY <1>8, <1>11, <1>12, <1>13 DEF Arrival, Handler

\* The bus passes on what it was asked for.
LEMMA BusAsked ==
    ASSUME AskedInv, ServingInv, NEW k \in Calls, Dispatching(k) \/ HandlerReturns(k)
    PROVE  AskedInv'
<1> DEFINE Becomes(r) == call' = [ call EXCEPT ![k] = r ]
<1>1. UNCHANGED << stage, scenario >>
  BY DEF Dispatching, HandlerReturns, hostVars, gatewayVars
<1>2. /\ ShapedCall(call[k]) /\ call[k].capability \in Askable(k)
      /\ NoCapability \in Askable(k)
  BY DEF ServingInv, CallsOK, CallOK, AskedInv, Askable
<1>3. ASSUME NEW pc, Becomes(Moved(call[k], pc))
      PROVE  \E r : Becomes(r) /\ r.capability \in Askable(k)
  <2>1. Moved(call[k], pc).capability \in Askable(k)
    BY <1>2, MovedShape
  <2> HIDE DEF Becomes
  <2> QED
    BY <1>3, <2>1
<1>4. ASSUME NEW o, Becomes(Ended(o))
      PROVE  \E r : Becomes(r) /\ r.capability \in Askable(k)
  BY <1>2, <1>4, EndedShape
<1>5. \E r : Becomes(r) /\ r.capability \in Askable(k)
  <2>1. CASE RunLocal(k) \/ Send(k)
    BY <1>3, <2>1 DEF RunLocal, Send, Moved
  <2>2. CASE Resolve(k) /\ call[k].left > 0
    <3> DEFINE h == Found(call[k].capability, call[k].constraint).plugin_handle
               t == Timed(call[k], Clamped(call[k].left), h)
    <3>1. Becomes(t)
      <4>1. ~(call[k].left <= 0)
        BY <1>2, <2>2 DEF ShapedCall, CallsOver
      <4> QED
        BY <2>2, <4>1 DEF Resolve, Timed
    <3>2. Clamped(call[k].left) \in Int
      BY <1>2, BusAssumption DEF ShapedCall, CallsOver, Clamped, Smaller
    <3>3. t.capability \in Askable(k)
      BY <1>2, <3>2, TimedShape
    <3> HIDE DEF t
    <3> QED
      BY <3>1, <3>3
  <2>3. CASE \/ NothingOffered(k) \/ NotConnected(k) \/ Respond(k) \/ Expire(k)
             \/ Break(k, Reaches(exchange[k].by))
             \/ Resolve(k) /\ ~(call[k].left > 0)
    <3>1. Resolve(k) /\ ~(call[k].left > 0) => call[k].left <= 0
      BY <1>2 DEF ShapedCall, CallsOver
    <3>2. \E o : Becomes(Ended(o))
      BY <2>3, <3>1 DEF NothingOffered, NotConnected, Respond, Expire, Break, Resolve, Ends
    <3> QED
      BY <1>4, <3>2
  <2>4. CASE HandlerReturns(k)
    <3>1. \E o : Becomes(Ended(o))
      BY <2>4 DEF HandlerReturns, LocalReturns, Ends
    <3> QED
      BY <1>4, <3>1
  <2> QED
    BY <2>1, <2>2, <2>3, <2>4 DEF Dispatching, KernelStep
<1> HIDE DEF Becomes
<1>6. \A j \in Calls : exchange'[j] = exchange[j] \/ AskedExchange(j, exchange'[j])
  <2>1. \/ UNCHANGED exchange
        \/ exchange' = [ exchange EXCEPT ![k] = Idle ]
        \/ exchange' = [ exchange EXCEPT ![k] = Sent(call[k].capability, call[k].handle) ]
    BY DEF Dispatching, KernelStep, RunLocal, Send, NothingOffered, NotConnected, Respond, Expire,
       Break, Resolve, HandlerReturns, LocalReturns, Quits, Sent
  <2> QED
    BY <1>2, <2>1, ExchangesAskable, ExchangeAsked
<1>7. PICK r : Becomes(r) /\ r.capability \in Askable(k)
  BY <1>5
<1> QED
  BY <1>1, <1>6, <1>7, CallAsked DEF Becomes

\* The http-router serves the client's own call, to a target it is; behind it it
\* asks auth-jwt and the router's target.
LEMMA RouterAtWork ==
    ASSUME AskedInv, NEW k \in Calls,
           Runs(k, HttpRoute) \/ exchange[k].st \in { "asking", "querying" }
    PROVE  /\ exchange[k].capability = HttpRoute
           /\ { AuthVerify, NoCapability, RouterTarget(k[1]) } \subseteq Askable(Nested(k[1]))
<1>1. exchange[k].capability = HttpRoute /\ HttpRoute \in Askable(k)
  BY DEF AskedInv, AskedExchange, Runs
<1>2. RouterTarget(k[1]) # HttpRoute /\ HttpRoute \notin { AuthVerify, NoCapability }
  BY Officials DEF RouterTarget
<1>3. Target(k[1]) = HttpRoute
  BY <1>1, <1>2 DEF Askable
<1>4. /\ k[1] \in Requests /\ Nested(k[1])[1] = k[1]
      /\ Nested(k[1]) # Outer(k[1])
  BY CallIds, CallNames
<1> QED
  BY <1>1, <1>3, <1>4 DEF Askable

\* A plugin's exchange is about one capability, and so are the router's calls.
LEMMA PluginAsked ==
    ASSUME AskedInv, ServingInv, NEW k \in Calls, PluginStep(k), UNCHANGED stage
    PROVE  AskedInv'
<1>1. UNCHANGED scenario
  BY DEF PluginStep, Take, Cancel, Verify, Execute, Refuse, Swallow, RouterDeclines, RouterAsks,
     RouterDenies, RouterQueries, RouterReports, hostVars
<1>2. CASE \/ Take(k) \/ Cancel(k) \/ Verify(k) \/ Execute(k) \/ Refuse(k) \/ Swallow(k)
           \/ RouterDeclines(k)
  <2>1. UNCHANGED call
    BY <1>2 DEF Take, Cancel, Verify, Execute, Refuse, Swallow, RouterDeclines, hostVars
  <2>2. \/ \E o : Replied(k, o)
        \/ exchange' = [ exchange EXCEPT ![k] = Idle ]
        \/ \E inst : exchange' = [ exchange EXCEPT ![k] = TakenUp(exchange[k], inst) ]
    <3> DEFINE m == exchange[k].by.plugin_name
    <3>1. [ exchange EXCEPT ![k].st = "running", ![k].inst = proc[m].inst ]
            = [ exchange EXCEPT ![k] = TakenUp(exchange[k], proc[m].inst) ]
      BY DEF TakenUp, ServingInv, ExchangesOK
    <3>2. Take(k) => \/ \E o : Replied(k, o)
                     \/ \E inst : exchange' = [ exchange EXCEPT ![k] = TakenUp(exchange[k], inst) ]
      BY <3>1 DEF Take
    <3> QED
      BY <1>2, <3>2 DEF Cancel, Quits, Verify, Execute, Refuse, Swallow, RouterDeclines
  <2>3. \A j \in Calls : exchange'[j] = exchange[j] \/ AskedExchange(j, exchange'[j])
    BY <2>2, ReplyAsked, ExchangesAskable, ExchangeAsked
  <2> QED
    BY <1>1, <2>1, <2>3, AskedKept
<1>3. CASE RouterAsks(k) \/ RouterDenies(k) \/ RouterQueries(k) \/ RouterReports(k)
  <2> DEFINE n == Nested(k[1])
  <2>1. /\ exchange[k].capability = HttpRoute /\ n \in Calls
        /\ { AuthVerify, NoCapability, RouterTarget(k[1]) } \subseteq Askable(n)
    <3>1. Runs(k, HttpRoute) \/ exchange[k].st \in { "asking", "querying" }
      BY <1>3 DEF RouterAsks, RouterDenies, RouterQueries, RouterReports, Answered
    <3> QED
      BY <3>1, RouterAtWork, CallIds
  <2>2. \/ /\ \E c \in { AuthVerify, RouterTarget(k[1]) } :
                 call' = [ call EXCEPT ![n] = Dispatched(c, Star, DefaultTimeout) ]
           /\ \E st : exchange' = [ exchange EXCEPT ![k] = Staged(exchange[k], st) ]
        \/ call' = [ call EXCEPT ![n] = NoCall ] /\ \E o : Replied(k, o)
    <3>1. CASE RouterAsks(k)
      BY <3>1 DEF RouterAsks, Asks, Staged
    <3>2. CASE RouterQueries(k)
      BY <3>2 DEF RouterQueries, Asks, Staged, Hangs
    <3>3. CASE RouterDenies(k) \/ RouterReports(k)
      BY <3>3 DEF RouterDenies, RouterReports, Hangs
    <3> QED
      BY <1>3, <3>1, <3>2, <3>3
  <2>3. \A j \in Calls : exchange'[j] = exchange[j] \/ AskedExchange(j, exchange'[j])
    BY <2>1, <2>2, ReplyAsked, ExchangesAskable, ExchangeAsked
  <2> HIDE DEF n
  <2>4. \E r : r.capability \in Askable(n) /\ call' = [ call EXCEPT ![n] = r ]
    <3>1. DefaultTimeout \in Int /\ DefaultTimeout # 0
      BY BusAssumption
    <3>2. \A c : Dispatched(c, Star, DefaultTimeout).capability = c
      BY <3>1, DispatchedForm
    <3> QED
      BY <2>1, <2>2, <3>2, NoCallShape
  <2>5. PICK r : r.capability \in Askable(n) /\ call' = [ call EXCEPT ![n] = r ]
    BY <2>4
  <2> QED
    BY <1>1, <2>1, <2>3, <2>5, CallAsked
<1> QED
  BY <1>2, <1>3 DEF PluginStep

\* Nobody asks for what he was not asked for.
LEMMA AskedStep ==
    ASSUME AskedInv, ServingInv, [Next]_vars
    PROVE  AskedInv'
<1>1. CASE \E q \in Requests : Arrival(q) \/ Handler(q) \/ ClientLeaves(q)
  BY <1>1, HandlerAsked
<1>2. CASE \E k \in Calls : Dispatching(k) \/ HandlerReturns(k)
  BY <1>2, BusAsked
<1>3. CASE Environment
  <2>1. UNCHANGED stage
    BY <1>3 DEF Environment, gatewayVars
  <2>2. CASE \E k \in Calls : PluginStep(k)
    BY <2>1, <2>2, PluginAsked
  <2>3. CASE \E q \in Requests : DropNested(q)
    <3>1. PICK q \in Requests : DropNested(q)
      BY <2>3
    <3>2. /\ call' = [ call EXCEPT ![Nested(q)] = NoCall ] /\ Nested(q) \in Calls
          /\ UNCHANGED << exchange, scenario >>
      BY <3>1, CallIds DEF DropNested, hostVars
    <3>3. NoCall.capability \in Askable(Nested(q))
      BY NoCallShape DEF Askable
    <3> QED
      BY <2>1, <3>2, <3>3, CallAsked
  <2>4. CASE \E m \in Plugins : Lifecycle(m)
    <3>1. PICK m \in Plugins : Lifecycle(m)
      BY <2>4
    <3>2. UNCHANGED << call, scenario >> /\ (UNCHANGED exchange \/ Loses(m))
      BY <3>1 DEF Lifecycle, StartPlugin, Advertise, Crash, Retire, HostRemovesConnection, busVars,
         hostVars
    <3>3. ASSUME NEW k \in Calls
          PROVE  exchange'[k] = exchange[k] \/ AskedExchange(k, exchange'[k])
      <4>1. exchange'[k] \in { exchange[k], Idle, Staged(exchange[k], "broken") }
        BY <3>2 DEF Loses, Lost, Staged
      <4> QED
        BY <4>1, ExchangesAskable
    <3> QED
      BY <2>1, <3>2, <3>3, AskedKept
  <2> QED
    BY <1>3, <2>2, <2>3, <2>4 DEF Environment
<1>4. CASE Tick
  <2>1. /\ UNCHANGED << stage, scenario, exchange >>
        /\ call' = [ k \in Calls |-> Passed(call[k]) ]
    BY <1>4 DEF Tick, Elapse, hostVars, gatewayVars
  <2>2. \A k \in Calls : call'[k].capability = call[k].capability
    BY <2>1, PassedShape DEF ServingInv, CallsOK, CallOK
  <2> QED
    BY <2>1, <2>2, AskedKept
<1>5. CASE \/ InstallHandler /\ UNCHANGED << hostVars, entries, gatewayVars >>
           \/ \E c \in HostCapabilities : HostRegisters(c)
           \/ Sweeper
           \/ UNCHANGED vars
  <2>1. UNCHANGED << scenario, call, exchange, stage >>
    BY <1>5 DEF InstallHandler, HostRegisters, RegisterHandler, Sweeper, vars, busVars, hostVars,
       gatewayVars
  <2> QED
    BY <2>1, AskedFrame
<1> QED
  BY <1>1, <1>2, <1>3, <1>4, <1>5 DEF Next, Kernel

\* At the start nothing is asked for.
LEMMA AskedStarts == Init => AskedInv
<1> SUFFICES ASSUME Init PROVE AskedInv
  OBVIOUS
<1>1. /\ stage = [ q \in Requests |-> "new" ]
      /\ call = [ k \in Calls |-> NoCall ]
      /\ exchange = [ k \in Calls |-> Idle ]
  BY DEF Init, NewBus
<1>2. /\ NoCall.capability = NoCapability
      /\ Idle.st = "idle" /\ Idle.capability = NoCapability
  BY NoCallShape DEF Idle
<1>3. \A k : NoCapability \in Askable(k)
  BY DEF Askable
<1> QED
  BY <1>1, <1>2, <1>3 DEF AskedInv, AskedExchange

\* A failing statement that data-sqlite answers with success is one whose failure the
\* promise lets go unreported.
LEMMA SwallowsUnreported ==
    ASSUME AskedInv, NEW k \in Calls, Swallow(k)
    PROVE  Due(k[1]) = 0
<1>1. Work(k[1]).body = "failing" /\ exchange[k].capability = DataQuery
  BY DEF Swallow, Swallowed, Runs
<1>2. DataQuery \in Askable(k) /\ DataQuery \notin { AuthVerify, NoCapability }
  BY <1>1, Officials DEF AskedInv, AskedExchange
<1>3. Target(k[1]) = DataQuery \/ (Target(k[1]) = HttpRoute /\ RouterTarget(k[1]) = DataQuery)
  BY <1>2 DEF Askable
<1> QED
  BY <1>1, <1>3 DEF Unreported, Due

-----------------------------------------------------------------------------
\* Steps that answer nobody and take no effect are none of the promise.
LEMMA Unseen ==
    ASSUME UNCHANGED << stage, answer, performed, verdict, scenario >>
    PROVE  UNCHANGED Promise!vars
<1>1. UNCHANGED Promise!asked
  BY SetsFrame, DueFrame DEF Promise!asked
<1>2. [ q \in Requests |-> PromiseOf(q) ]' = [ q \in Requests |-> PromiseOf(q) ]
  BY DEF PromiseOf
<1> QED
  BY <1>1, <1>2 DEF Promise!vars

\* Time passes for every call.
LEMMA TickKeeps ==
    ASSUME PromiseInv, ServingInv, Tick
    PROVE  PromiseInv' /\ UNCHANGED Promise!vars
<1>1. /\ UNCHANGED << stage, answer, performed, verdict, scenario, exchange >>
      /\ call' = [ k \in Calls |-> Passed(call[k]) ]
  BY DEF Tick, Elapse, hostVars, gatewayVars
<1>2. ASSUME NEW k \in Calls
      PROVE  /\ call'[k].pc = call[k].pc /\ call'[k].capability = call[k].capability
             /\ call'[k].outcome = call[k].outcome
  <2>1. ShapedCall(call[k]) /\ call'[k] = Passed(call[k])
    BY <1>1 DEF ServingInv, CallsOK, CallOK
  <2> QED
    BY <2>1, PassedShape
<1>3. ASSUME NEW q \in Requests PROVE RequestKept(q)'
  <2>1. Outer(q) \in Calls /\ Nested(q) \in Calls
    BY CallIds
  <2>2. RequestOK(Due(q), stage[q], answer[q], call'[Outer(q)], exchange[Outer(q)],
                  call'[Nested(q)], exchange[Nested(q)], performed[q])
    BY <1>2, <2>1, StaysAlike DEF PromiseInv, RequestKept
  <2> QED
    BY <1>1, <2>2, DueFrame DEF RequestKept
<1> QED
  BY <1>1, <1>3, Unseen DEF PromiseInv

\* A process that ends takes with it what it was working on.
LEMMA LifecycleKeeps ==
    ASSUME PromiseInv, ServingInv, NEW m \in Plugins, Lifecycle(m), UNCHANGED << stage, answer >>
    PROVE  PromiseInv' /\ UNCHANGED Promise!vars
<1>1. UNCHANGED << stage, answer, performed, verdict, scenario, call >>
  BY DEF Lifecycle, StartPlugin, Advertise, Crash, Retire, HostRemovesConnection, busVars,
     hostVars, historyVars
<1>2. CASE UNCHANGED exchange
  BY <1>1, <1>2, Unseen, DueFrame DEF PromiseInv, RequestKept
<1>3. CASE Loses(m)
  <2>1. ASSUME NEW k \in Calls
        PROVE  \/ exchange'[k] = exchange[k]
               \/ /\ exchange[k].st # "idle" /\ exchange'[k].st = "broken"
                  /\ exchange'[k].capability = exchange[k].capability
               \/ /\ exchange'[k].st = "idle" /\ exchange'[k].capability = NoCapability
                  /\ call[k].pc # "rpc"
    <3>1. ShapedExchange(exchange[k])
      BY DEF ServingInv, ExchangesOK, ExchangeOK
    <3>2. \/ exchange'[k] = exchange[k]
          \/ exchange'[k] = Staged(exchange[k], "broken") /\ exchange[k].st # "idle"
          \/ exchange'[k] = Idle /\ call[k].pc # "rpc"
      BY <1>3 DEF Loses, Lost, Staged, At
    <3> QED
      BY <3>1, <3>2, ExchangeFields
  <2>2. ASSUME NEW q \in Requests PROVE RequestKept(q)'
    <3>1. Outer(q) \in Calls /\ Nested(q) \in Calls
      BY CallIds
    <3>2. RequestOK(Due(q), stage[q], answer[q], call[Outer(q)], exchange'[Outer(q)],
                    call[Nested(q)], exchange[Nested(q)], performed[q])
      BY <2>1, <3>1, OuterDrops DEF PromiseInv, RequestKept
    <3>3. exchange'[Nested(q)] # exchange[Nested(q)] => exchange'[Nested(q)].capability # HttpRoute
      BY <2>1, <3>1, <3>2, Officials DEF RequestOK, NoRouter
    <3>4. RequestOK(Due(q), stage[q], answer[q], call[Outer(q)], exchange'[Outer(q)],
                    call[Nested(q)], exchange'[Nested(q)], performed[q])
      BY <2>1, <3>1, <3>2, <3>3, NestedDrops
    <3> QED
      BY <1>1, <3>4, DueFrame DEF RequestKept
  <2> QED
    BY <1>1, <2>2, Unseen DEF PromiseInv
<1> QED
  BY <1>2, <1>3 DEF Lifecycle, StartPlugin, Advertise, Crash, Retire, HostRemovesConnection, busVars

-----------------------------------------------------------------------------
\* At the start nobody has asked for anything ...
LEMMA PromiseStarts == Init => PromiseInv /\ Promise!Init
<1> SUFFICES ASSUME Init PROVE PromiseInv /\ Promise!Init
  OBVIOUS
<1>1. /\ stage = [ q \in Requests |-> "new" ]
      /\ answer = [ q \in Requests |-> Unanswered ]
      /\ verdict = [ q \in Requests |-> "none" ]
      /\ performed = [ q \in Requests |-> 0 ]
      /\ call = [ k \in Calls |-> NoCall ]
      /\ exchange = [ k \in Calls |-> Idle ]
  BY DEF Init, NewBus
<1>2. NoCall.pc = "none" /\ NoCall.capability = NoCapability
  BY NoCallShape
<1>3. Idle.st = "idle" /\ Idle.capability = NoCapability
  BY DEF Idle
<1>4. ASSUME NEW d PROVE RequestOK(d, "new", Unanswered, NoCall, Idle, NoCall, Idle, 0)
  BY <1>2, <1>3, Officials
     DEF RequestOK, Stages, OneToken, Undecided, Waits, Pending, Working, Unasked, Matched,
         NoRouter, Reported, Targeted, AnswerOK, Promised
<1>5. \A q \in Requests : RequestKept(q)
  BY <1>1, <1>4, CallIds DEF RequestKept
<1>6. \A q \in Requests : PromiseOf(q) = "new"
  BY <1>1 DEF PromiseOf
<1>7. Promise!Init
  BY <1>1, <1>6 DEF Promise!Init
<1> QED
  BY <1>1, <1>5, <1>7 DEF PromiseInv

\* ... and every step is a step of CallPromise or none.
LEMMA PromiseStep ==
    PromiseInv /\ AskedInv /\ ServingInv /\ ServingInv' /\ [Next]_vars
      => PromiseInv' /\ [Promise!Next]_(Promise!vars)
<1> SUFFICES ASSUME PromiseInv, AskedInv, ServingInv, ServingInv', [Next]_vars
             PROVE  PromiseInv' /\ [Promise!Next]_(Promise!vars)
  OBVIOUS
<1>1. CASE \E q \in Requests : Arrival(q) \/ Handler(q) \/ ClientLeaves(q)
  <2>1. PICK q \in Requests : StepOf(q)
    BY <1>1, HandlerMoves
  <2>2. UNCHANGED << scenario, verdict >>
    BY <1>1 DEF Arrival, RejectTooLarge, HttpInvoke, GrpcInvoke, DeclarativeRoute, Handler,
       AuthAnswered, TargetAnswered, ClientLeaves, HandlerFrame, hostVars
  <2> QED
    BY <2>1, <2>2, StepKeeps, StepPromised
<1>2. CASE \E k \in Calls : Dispatching(k)
  <2>1. PICK q \in Requests : StepOf(q)
    BY <1>2, DispatchMoves
  <2>2. UNCHANGED << scenario, verdict >>
    BY <1>2 DEF Dispatching, hostVars
  <2> QED
    BY <2>1, <2>2, StepKeeps, StepPromised
<1>3. CASE \E k \in Calls : HandlerReturns(k)
  <2>1. PICK q \in Requests : StepOf(q)
    BY <1>3, LocalMoves
  <2>2. UNCHANGED << scenario, verdict >>
    BY <1>3 DEF HandlerReturns
  <2> QED
    BY <2>1, <2>2, StepKeeps, StepPromised
<1>4. CASE Environment
  <2>1. UNCHANGED << stage, answer >>
    BY <1>4 DEF Environment, gatewayVars
  <2>2. CASE \E m \in Plugins : Lifecycle(m)
    BY <2>1, <2>2, LifecycleKeeps
  <2>3. CASE \E k \in Calls : Verify(k)
    <3>1. UNCHANGED scenario
      BY <2>3 DEF Verify
    <3> QED
      BY <2>1, <2>3, <3>1, CallIds, VerifyMoves, StepKeeps, VerifyPromised
  <2>4. CASE \/ \E k \in Calls : \/ Take(k) \/ Cancel(k) \/ Refuse(k) \/ Swallow(k)
                                 \/ Execute(k) \/ RouterDeclines(k) \/ RouterAsks(k)
                                 \/ RouterDenies(k) \/ RouterQueries(k) \/ RouterReports(k)
             \/ \E q \in Requests : DropNested(q)
    <3>1. PICK q \in Requests : StepOf(q)
      BY <2>1, <2>4, SwallowsUnreported, PluginMoves, RouterMoves, DropMoves
    <3>2. UNCHANGED << scenario, verdict >>
      BY <2>4 DEF Take, Cancel, Refuse, Swallow, Execute, RouterDeclines, RouterAsks,
         RouterDenies, RouterQueries, RouterReports, DropNested, hostVars
    <3> QED
      BY <3>1, <3>2, StepKeeps, StepPromised
  <2> QED
    BY <1>4, <2>2, <2>3, <2>4 DEF Environment, PluginStep
<1>5. CASE Tick
  BY <1>5, TickKeeps
<1>6. CASE \/ InstallHandler /\ UNCHANGED << hostVars, entries, gatewayVars >>
           \/ \E c \in HostCapabilities : HostRegisters(c)
           \/ Sweeper
           \/ UNCHANGED vars
  <2>1. UNCHANGED << stage, answer, performed, verdict, scenario, call, exchange >>
    BY <1>6 DEF InstallHandler, HostRegisters, RegisterHandler, Sweeper, vars, busVars, hostVars,
       gatewayVars
  <2> QED
    BY <2>1, Unseen, DueFrame DEF PromiseInv, RequestKept
<1> QED
  BY <1>1, <1>2, <1>3, <1>4, <1>5, <1>6 DEF Next, Kernel

\* Serving implements the safety part of CallPromise: at most one effect for a
\* request, none behind a refusal or before the verdict, success only if it
\* happened, whatever crashes, expires, is late or is asked at the same time (the
\* handlers of both gateways, Bus::dispatch, the SDK and the official plugins).
\* The one exception is a request with a failing statement whose way leads to
\* forge.data.query, where data-sqlite drops the error (Unreported).
THEOREM ServingImplementsPromise == Spec => KeepsPromise
<1>1. Init => Promise!Init
  BY PromiseStarts
<1>2. Init => PromiseInv /\ AskedInv
  BY PromiseStarts, AskedStarts
<1>3. AskedInv /\ ServingInv /\ [Next]_vars => AskedInv'
  BY AskedStep
<1> QED
  BY <1>1, <1>2, <1>3, PromiseStep, ServingInvariant, PTL DEF Spec, KeepsPromise, Promise!Safety

-----------------------------------------------------------------------------
(***************************************************************************)
(* The plugins come and go as Supervisor has it.  A start is its ComesUp,  *)
(* an advertised capability its Advertises, what the manager retires its   *)
(* Withdraws, for which what is filtered out of a list must be all that is *)
(* not the plugin's; no other step touches instances or lists.             *)
(***************************************************************************)

\* Later positions have higher ranks.
LEMMA RanksGrow ==
    ASSUME NEW m \in Nat, NEW T \in SUBSET (1 .. m), NEW i \in T, NEW j \in T, i < j
    PROVE  Cardinality(UpTo(T, i)) < Cardinality(UpTo(T, j))
<1>1. IsFiniteSet(T) /\ \A l \in T : l \in Nat
  BY SubsetFinite
<1>2. IsFiniteSet(UpTo(T, i)) /\ IsFiniteSet(UpTo(T, j))
  BY <1>1, FS_Subset DEF UpTo
<1>3. j \notin UpTo(T, i)
  BY <1>1 DEF UpTo
<1>4. UpTo(T, i) \cup { j } \in SUBSET UpTo(T, j)
  <2>1. \A l \in UpTo(T, i) : l \in UpTo(T, j)
    BY <1>1 DEF UpTo
  <2>2. j \in UpTo(T, j)
    BY <1>1 DEF UpTo
  <2> QED
    BY <2>1, <2>2
<1>5. Cardinality(UpTo(T, i) \cup { j }) = Cardinality(UpTo(T, i)) + 1
  BY <1>2, <1>3, FS_AddElement
<1>6. Cardinality(UpTo(T, i) \cup { j }) <= Cardinality(UpTo(T, j))
  BY <1>2, <1>4, FS_Subset
<1>7. Cardinality(UpTo(T, i)) \in Nat /\ Cardinality(UpTo(T, j)) \in Nat
  BY <1>2, FS_CardinalityType
<1> QED
  BY <1>5, <1>6, <1>7

\* A filtered list keeps what the list holds at the chosen positions.
LEMMA FilteredKeeps ==
    ASSUME NEW S, NEW s \in Seq(S), NEW T \in SUBSET DOMAIN s, NEW i \in T
    PROVE  \E n \in DOMAIN Filtered(s, T) : Filtered(s, T)[n] = s[i]
<1>1. Len(s) \in Nat /\ T \in SUBSET (1 .. Len(s))
  OBVIOUS
<1>2. IsFiniteSet(T) /\ Cardinality(T) \in Nat /\ \A l \in T : l \in Nat
  BY <1>1, SubsetFinite
<1> DEFINE n == Cardinality(UpTo(T, i))
<1>3. n \in 1 .. Cardinality(T)
  <2>1. UpTo(T, i) \in SUBSET T /\ i \in UpTo(T, i)
    BY <1>2 DEF UpTo
  <2>2. /\ IsFiniteSet(UpTo(T, i)) /\ n \in Nat /\ n <= Cardinality(T)
        /\ n = 0 <=> UpTo(T, i) = {}
    BY <1>2, <2>1, FS_Subset, FS_CardinalityType, FS_EmptySet
  <2> QED
    BY <1>2, <2>1, <2>2
<1> DEFINE Ranked(k) == CHOOSE l \in T : Cardinality({ j \in T : j <= l }) = k
<1>4. Ranked(n) \in T /\ Cardinality(UpTo(T, Ranked(n))) = n
  <2>1. Cardinality({ j \in T : j <= i }) = n
    BY DEF UpTo
  <2>2. \E l \in T : Cardinality({ j \in T : j <= l }) = n
    BY <2>1
  <2>3. Ranked(n) \in T /\ Cardinality({ j \in T : j <= Ranked(n) }) = n
    BY <2>2, Zenon
  <2> QED
    BY <2>3, Zenon DEF UpTo
<1>5. Filtered(s, T) = [ k \in 1 .. Cardinality(T) |-> s[Ranked(k)] ]
  BY DEF Filtered
<1> HIDE DEF Ranked
<1>6. ASSUME NEW l \in T, Cardinality(UpTo(T, l)) = n PROVE l = i
  <2>1. n \in Nat /\ Cardinality(UpTo(T, i)) = n
    BY <1>2, <1>3
  <2>2. /\ l < i => Cardinality(UpTo(T, l)) < Cardinality(UpTo(T, i))
        /\ i < l => Cardinality(UpTo(T, i)) < Cardinality(UpTo(T, l))
    BY <1>1, RanksGrow
  <2> HIDE DEF n
  <2>3. ~(l < i) /\ ~(i < l)
    BY <1>6, <2>1, <2>2
  <2> QED
    BY <1>2, <2>3
<1>7. Ranked(n) = i
  BY <1>4, <1>6
<1> HIDE DEF n
<1> QED
  BY <1>3, <1>5, <1>7

-----------------------------------------------------------------------------
\* What is on offer, one by one.
LEMMA OnOfferIs ==
    \A h : /\ h \in OnOffer <=>
                \E c \in Capabilities : \E i \in DOMAIN inner[c] : h = OfferOf(c, inner[c][i])
           /\ h \in OnOffer' <=>
                \E c \in Capabilities : \E i \in DOMAIN inner'[c] : h = OfferOf(c, inner'[c][i])
BY DEF OnOffer, OfferOf

\* Instance ids are numbers, and a started process has one that is not 0.
LEMMA IdsAreNumbers ==
    ASSUME ProcessesOK, NEW n \in Plugins
    PROVE  proc[n].inst \in Nat /\ (proc[n].st = "started" => proc[n].inst > 0)
<1>1. /\ proc[n].inst \in Instances \cup { 0 }
      /\ proc[n].st = "started" => proc[n].inst \in Instances
  BY DEF ProcessesOK, Processes
<1>2. ASSUME NEW i \in Instances \cup { 0 } PROVE i \in Nat /\ (i \in Instances => i > 0)
  BY InstanceIds
<1> QED
  BY <1>1, <1>2

\* A lookup sees of the plugins what the registry lists.
LEMMA ListsOnly ==
    ASSUME UNCHANGED inner
    PROVE  UNCHANGED OnOffer
BY DEF OnOffer, OfferOf

\* A start puts a newer instance behind the plugin.
LEMMA StartComesUp ==
    ASSUME ServedInv, NEW n \in Plugins, StartPlugin(n)
    PROVE  Supply!ComesUp(n)
<1>1. /\ UNCHANGED inner
      /\ \E offer \in Offers[n] :
           proc' = [ proc EXCEPT ![n] = [ st |-> "started", up |-> TRUE, inst |-> @.inst + 1,
                                          starts |-> @.starts - 1, offer |-> offer ] ]
  BY DEF StartPlugin, registryVars
<1>2. proc'[n].inst = proc[n].inst + 1 /\ \A m \in Plugins \ { n } : proc'[m] = proc[m]
  BY <1>1 DEF ServedInv, ProcessesOK
<1>3. proc[n].inst \in Nat
  BY IdsAreNumbers DEF ServedInv
<1>4. UNCHANGED OnOffer
  BY <1>1, ListsOnly
<1>5. [ m \in Plugins |-> proc'[m].inst ]
         = [ [ m \in Plugins |-> proc[m].inst ] EXCEPT ![n] = proc'[n].inst ]
  BY <1>2
<1>6. [ m \in Plugins |-> proc'[m].inst ][n] > [ m \in Plugins |-> proc[m].inst ][n]
  BY <1>2, <1>3
<1> QED
  BY <1>4, <1>5, <1>6 DEF Supply!ComesUp

\* A plugin advertises something it may offer, under the instance of now.
LEMMA AdvertiseSupplies ==
    ASSUME ServedInv, NEW n \in Plugins, Advertise(n)
    PROVE  Supply!Advertises(n)
<1>1. PICK c \in Missing(n) : Registers(c, proc[n].offer[c], HandleOf(n))
  BY DEF Advertise
<1>2. /\ proc[n].st = "started" /\ c \in DOMAIN proc[n].offer
      /\ UNCHANGED proc
  BY <1>1 DEF Advertise, Missing, hostVars
<1>3. ProcessesOK /\ inner \in [ Capabilities -> Seq(Entries) ]
  BY DEF ServedInv, EntriesOK, RegistryTypeOK
<1>4. c \in Capabilities
  BY <1>2, <1>3, OfferType
<1>5. proc[n].inst > 0
  BY <1>2, <1>3, IdsAreNumbers
<1>6. c \in UNION { DOMAIN offer : offer \in Offers[n] }
  <2>1. proc[n].offer \in Offers[n] \cup { << >> }
    BY <1>3 DEF ProcessesOK, Processes
  <2>2. proc[n].offer # << >>
    BY <1>2
  <2> QED
    BY <1>2, <2>1, <2>2
<1> DEFINE e == [ version |-> proc[n].offer[c], plugin_handle |-> HandleOf(n) ]
           new == [ cap |-> c, plugin |-> n, inst |-> proc[n].inst ]
<1>7. inner' = [ inner EXCEPT ![c] = Append(inner[c], e) ]
  BY <1>1 DEF Registers
<1>8. OfferOf(c, e) = new
  BY DEF OfferOf, HandleOf
<1>9. inner[c] \in Seq(Entries)
  BY <1>3, <1>4
<1> HIDE DEF e, new
<1>10. /\ inner'[c] = Append(inner[c], e)
       /\ \A d \in Capabilities \ { c } : inner'[d] = inner[d]
  BY <1>3, <1>4, <1>7
<1>11. /\ DOMAIN Append(inner[c], e) = DOMAIN inner[c] \cup { Len(inner[c]) + 1 }
       /\ \A i \in DOMAIN inner[c] : Append(inner[c], e)[i] = inner[c][i]
       /\ Append(inner[c], e)[Len(inner[c]) + 1] = e
  BY <1>9
<1>12. ASSUME NEW h PROVE h \in OnOffer' <=> h \in OnOffer \cup { new }
  <2>1. ASSUME NEW d \in Capabilities
        PROVE  (\E i \in DOMAIN inner'[d] : h = OfferOf(d, inner'[d][i])) <=>
               \/ \E i \in DOMAIN inner[d] : h = OfferOf(d, inner[d][i])
               \/ d = c /\ h = new
    <3>1. CASE d = c
      BY <1>8, <1>10, <1>11, <3>1
    <3>2. CASE d # c
      BY <1>10, <3>2
    <3> QED
      BY <3>1, <3>2
  <2> QED
    BY <1>4, <2>1, OnOfferIs
<1>13. OnOffer' = OnOffer \cup { new }
  BY <1>12
<1> QED
  BY <1>2, <1>5, <1>6, <1>13 DEF Supply!Advertises, new

\* What goes with a plugin is all of it and nothing else.
LEMMA RetireWithdraws ==
    ASSUME ServedInv, NEW n \in Plugins, Retire(n)
    PROVE  Supply!Withdraws({ n })
<1>1. Deregisters(n) /\ proc' = [ proc EXCEPT ![n].st = "off" ]
  BY DEF Retire
<1>2. [ m \in Plugins |-> proc'[m].inst ] = [ m \in Plugins |-> proc[m].inst ]
  BY <1>1 DEF ServedInv, ProcessesOK, Processes
<1>3. inner \in [ Capabilities -> Seq(Entries) ]
  BY DEF ServedInv, EntriesOK, RegistryTypeOK
<1>4. ASSUME NEW h, NEW c \in Capabilities
      PROVE  (\E i \in DOMAIN inner'[c] : h = OfferOf(c, inner'[c][i])) <=>
             (\E i \in DOMAIN inner[c] : h = OfferOf(c, inner[c][i]) /\ h.plugin # n)
  <2> DEFINE s == inner[c]
             T == { i \in DOMAIN s : s[i].plugin_handle.plugin_name # n }
  <2>1. s \in Seq(Entries) /\ T \in SUBSET DOMAIN s /\ inner'[c] = Filtered(s, T)
    BY <1>1, <1>3 DEF Deregisters
  <2>2. \A i \in DOMAIN s : i \in T <=> OfferOf(c, s[i]).plugin # n
    BY DEF OfferOf
  <2> HIDE DEF s, T
  <2>3. \A i \in DOMAIN Filtered(s, T) : \E j \in T : Filtered(s, T)[i] = s[j]
    <3>1. /\ Filtered(s, T) \in Seq(Entries)
          /\ \A i \in 1 .. Len(Filtered(s, T)) : \E j \in T : Filtered(s, T)[i] = s[j]
      BY <2>1, FilteredIs
    <3> QED
      BY <3>1
  <2>4. \A j \in T : \E i \in DOMAIN Filtered(s, T) : Filtered(s, T)[i] = s[j]
    BY <2>1, FilteredKeeps
  <2>5. (\E i \in DOMAIN Filtered(s, T) : h = OfferOf(c, Filtered(s, T)[i])) <=>
        (\E j \in T : h = OfferOf(c, s[j]))
    BY <2>3, <2>4
  <2>6. (\E j \in T : h = OfferOf(c, s[j])) <=>
        (\E j \in DOMAIN s : h = OfferOf(c, s[j]) /\ h.plugin # n)
    BY <2>1, <2>2
  <2> QED
    BY <2>1, <2>5, <2>6 DEF s
<1>5. ASSUME NEW h PROVE h \in OnOffer' <=> h \in OnOffer /\ h.plugin \notin { n }
  BY <1>4, OnOfferIs
<1>6. OnOffer' = { h \in OnOffer : h.plugin \notin { n } }
  BY <1>5
<1> QED
  BY <1>2, <1>6 DEF Supply!Withdraws

\* Nothing but a plugin's coming and going touches its process or the lists.
LEMMA SupplyFrame ==
    ASSUME [Next]_vars, ~\E n \in Plugins : Lifecycle(n)
    PROVE  UNCHANGED << inner, proc >>
<1>1. CASE \E q \in Requests : Arrival(q) \/ ClientLeaves(q) \/ Handler(q)
  BY <1>1 DEF Arrival, RejectTooLarge, HttpInvoke, GrpcInvoke, DeclarativeRoute, ClientLeaves,
     Handler, AuthAnswered, TargetAnswered, HandlerFrame, registryVars, hostVars
<1>2. CASE \E k \in Calls : Dispatching(k)
  BY <1>2 DEF Dispatching, KernelStep, RunLocal, NothingOffered, Resolve, Send, NotConnected,
     Respond, Expire, Break, registryVars, hostVars
<1>3. CASE \/ \E k \in Calls : HandlerReturns(k)
           \/ \E c \in HostCapabilities : HostRegisters(c)
           \/ InstallHandler /\ UNCHANGED << hostVars, entries, gatewayVars >>
           \/ Tick \/ Sweeper \/ UNCHANGED vars
  BY <1>3 DEF HandlerReturns, LocalReturns, HostRegisters, RegisterHandler, InstallHandler, Tick,
     Elapse, Sweeper, registryVars, hostVars, vars
<1>4. CASE \/ \E k \in Calls : PluginStep(k)
           \/ \E q \in Requests : DropNested(q)
  BY <1>4 DEF PluginStep, Take, Cancel, Verify, Execute, Refuse, Swallow, RouterDeclines,
     RouterAsks, RouterDenies, RouterQueries, RouterReports, DropNested, registryVars, hostVars
<1> QED
  BY <1>1, <1>2, <1>3, <1>4 DEF Next, Kernel, Environment

\* Every step is one of the supervisor's, or it does not see it.
LEMMA SupplyStep == ServedInv /\ [Next]_vars => [Supply!Next]_Supply!vars
<1> SUFFICES ASSUME ServedInv, [Next]_vars PROVE [Supply!Next]_Supply!vars
  OBVIOUS
<1>1. ASSUME UNCHANGED inner, \A m \in Plugins : proc'[m].inst = proc[m].inst
      PROVE  UNCHANGED Supply!vars
  <2>1. [ m \in Plugins |-> proc'[m].inst ] = [ m \in Plugins |-> proc[m].inst ]
    BY <1>1
  <2>2. UNCHANGED OnOffer
    BY <1>1, ListsOnly
  <2> QED
    BY <2>1, <2>2 DEF Supply!vars
<1>2. CASE ~\E n \in Plugins : Lifecycle(n)
  BY <1>1, <1>2, SupplyFrame
<1>3. CASE \E n \in Plugins : StartPlugin(n) \/ Advertise(n)
  BY <1>3, StartComesUp, AdvertiseSupplies DEF Supply!Next
<1>4. CASE \E n \in Plugins : Retire(n)
  BY <1>4, RetireWithdraws DEF Supply!Next
<1>5. CASE \E n \in Plugins : Crash(n) \/ HostRemovesConnection(n)
  <2>1. PICK n \in Plugins : Crash(n) \/ HostRemovesConnection(n)
    BY <1>5
  <2>2. UNCHANGED inner /\ (proc' = [ proc EXCEPT ![n].up = FALSE ] \/ proc' = proc)
    BY <2>1 DEF Crash, HostRemovesConnection, registryVars, hostVars
  <2>3. \A m \in Plugins : proc'[m].inst = proc[m].inst
    BY <2>2 DEF ServedInv, ProcessesOK, Processes
  <2> QED
    BY <1>1, <2>2, <2>3
<1> QED
  BY <1>2, <1>3, <1>4, <1>5 DEF Lifecycle

\* What the scenario's plugins have advertised is of their instances of now.
LEMMA SupplyStarts == Init => Supply!Init
<1> SUFFICES ASSUME Init PROVE Supply!Init
  OBVIOUS
<1>1. PICK s \in Scenarios :
        /\ proc = [ n \in Plugins |-> FirstProcess(s, n) ]
        /\ NewRegistry(s.strategy, [ c \in Capabilities |-> Advertised(s, c) ])
  BY DEF Init
<1>2. /\ ProcessesOK
      /\ \A i \in DOMAIN s.ready : /\ s.ready[i].name \in Plugins
                                   /\ proc[s.ready[i].name].inst = 1
  BY <1>1, FirstProcesses
<1>3. inner = [ c \in Capabilities |-> Advertised(s, c) ]
  BY <1>1 DEF NewRegistry
<1>4. \A n \in Plugins : proc[n].inst \in Nat
  BY <1>2, IdsAreNumbers
<1>5. ASSUME NEW c \in Capabilities, NEW i \in DOMAIN inner[c]
      PROVE  \E j \in DOMAIN s.ready :
                OfferOf(c, inner[c][i]) = [ cap |-> c, plugin |-> s.ready[j].name, inst |-> 1 ]
  <2> DEFINE r == s.ready
             T == { j \in DOMAIN r : c \in DOMAIN r[j].offer }
             offering == Filtered(r, T)
  <2>1. inner[c] = [ l \in DOMAIN offering |-> [ version |-> offering[l].offer[c],
                                       plugin_handle |-> FirstHandle(offering[l].name) ] ]
    BY <1>3 DEF Advertised
  <2>2. /\ r \in Seq([ name : Plugins, offer : UNION { Offers[n] : n \in Plugins } ])
        /\ T \in SUBSET DOMAIN r
    BY ServingAssumption
  <2> HIDE DEF r, T
  <2>3. \A l \in DOMAIN offering : \E j \in T : offering[l] = r[j]
    BY <2>2, FilteredIs
  <2> HIDE DEF offering
  <2>4. i \in DOMAIN offering /\ inner[c][i].plugin_handle = FirstHandle(offering[i].name)
    BY <1>5, <2>1
  <2>5. PICK j \in T : offering[i] = r[j]
    BY <2>3, <2>4
  <2> QED
    BY <2>2, <2>4, <2>5 DEF OfferOf, FirstHandle, r
<1>6. ASSUME NEW h \in OnOffer
      PROVE  h.plugin \in Plugins /\ h.inst = proc[h.plugin].inst
  <2>1. PICK c \in Capabilities : \E i \in DOMAIN inner[c] : h = OfferOf(c, inner[c][i])
    BY OnOfferIs
  <2>2. PICK j \in DOMAIN s.ready : h = [ cap |-> c, plugin |-> s.ready[j].name, inst |-> 1 ]
    BY <1>5, <2>1
  <2> QED
    BY <1>2, <2>2
<1> QED
  BY <1>4, <1>6 DEF Supply!Init

\* The plugins of this model come and go as the supervisor has it: newer instances
\* only, the newest alone advertised, a plugin withdrawn as a whole and nothing else
\* with it (StartPlugin, Advertise, Retire; Registry::register and deregister).
THEOREM ServingSupplies == Spec => SuppliedInOrder
BY SupplyStarts, SupplyStep, AlwaysServed, PTL DEF Spec, SuppliedInOrder, Supply!Spec
=============================================================================
