---------------------------- MODULE ServingProofs ----------------------------
(***************************************************************************)
(* Theorems about the kernel serving requests, for every set of requests,  *)
(* plugins, routes, scenarios and deadlines that meets the assumptions of  *)
(* the modules.                                                            *)
(*                                                                         *)
(* The first part leaves the handle of a call open; the second part says   *)
(* whose it is, which takes what the registry's lists hold.                *)
(***************************************************************************)
EXTENDS Serving, FiniteSetTheorems, WellFoundedInduction, TLAPS

(***************************************************************************)
(* A call and an exchange have the fields of their records; a call that    *)
(* has its plugin has a timer that runs out, at the latest, as much later  *)
(* than its deadline as it waited for the connections' lock.               *)
(***************************************************************************)

\* H holds whatever the fields that are no numbers have in them.
CallsOver(H) ==
    [ pc : H, capability : H, constraint : H, left : Int, timer : Int, lag : Nat,
      handle : H, outcome : H ]
ExchangesOver(H) == [ st : H, capability : H, by : H, inst : H, outcome : H ]

ShapedCall(r) == \E H : r \in CallsOver(H)
ShapedExchange(x) == \E H : x \in ExchangesOver(H)

Timely(r) == r.pc \in { "resolved", "rpc" } => r.timer >= 0 /\ r.timer <= r.left + r.lag

(***************************************************************************)
(* The calls a verdict stands in front of: those of protected requests and *)
(* those the http-router makes.  Until the verdict is there they ask for   *)
(* nothing that takes effect.  A verdict of "valid" is only ever heard     *)
(* from a call whose request has it.                                       *)
(***************************************************************************)

Harmless == { AuthVerify, HttpRoute, NoCapability }
Cleared == { q \in Requests : verdict[q] = "valid" }
Guarded == { k \in Calls : k[2] = "nested" \/ Protected(k[1]) }

Backed(k, capability, outcome, cleared, guarded) ==
    /\ outcome = Bytes("valid") => k[1] \in cleared
    /\ k \in guarded => k[1] \in cleared \/ capability \in Harmless

CallOK(k, r, cleared, guarded) ==
    /\ ShapedCall(r)
    /\ Timely(r)
    /\ Backed(k, r.capability, r.outcome, cleared, guarded)
    /\ r.pc = "local" => r.capability \in HostCapabilities

ExchangeOK(k, x, cleared, guarded) ==
    /\ ShapedExchange(x)
    /\ Backed(k, x.capability, x.outcome, cleared, guarded)

CallsOK == /\ DOMAIN call = Calls
           /\ \A k \in Calls : CallOK(k, call[k], Cleared, Guarded)
ExchangesOK == /\ DOMAIN exchange = Calls
               /\ \A k \in Calls : ExchangeOK(k, exchange[k], Cleared, Guarded)

HandlersOK == /\ handlers \subseteq HostCapabilities
              /\ writer \in HostCapabilities \cup { NoCapability }

HistoryOK ==
    /\ verdict \in [ Requests -> { "none", "valid", "invalid" } ]
    /\ performed \in [ Requests -> Nat ]
    /\ \A q \in Requests : verdict[q] # "none" => verdict[q] = Judgement(Work(q).token)
    /\ ProtectedNeedsVerdict

ServingInv ==
    /\ scenario \in Scenarios
    /\ CallsOK /\ ExchangesOK /\ HandlersOK /\ HistoryOK

-----------------------------------------------------------------------------
\* The ids of calls.
LEMMA CallIds ==
    /\ \A q \in Requests : /\ Outer(q) \in Calls /\ Nested(q) \in Calls
                           /\ Outer(q)[1] = q /\ Nested(q)[1] = q
                           /\ Outer(q)[2] = "outer" /\ Nested(q)[2] = "nested"
    /\ \A k \in Calls : k[1] \in Requests
BY CallsAssumption DEF RequestCalls, Outer, Nested

\* Nothing but bytes of "valid" is a verdict of "valid".
LEMMA NoVerdict ==
    /\ \A e \in Results : Fails(e) # Bytes("valid")
    /\ \A p \in Payloads : p # "valid" => Bytes(p) # Bytes("valid")
BY DEF Fails, Bytes, Payloads

\* The changes of a call: none of them loses a field.
LEMMA NoCallShape ==
    /\ NoCall \in CallsOver({ "none", NoCapability, Star, NoHandle, Fails("NotFound") })
    /\ NoCall.pc = "none" /\ NoCall.capability = NoCapability
    /\ NoCall.outcome = Fails("NotFound")
BY DEF NoCall, CallsOver

\* A call ends.
LEMMA EndedShape ==
    ASSUME NEW o
    PROVE  /\ ShapedCall(Ended(o))
           /\ Ended(o).pc = "ended" /\ Ended(o).capability = NoCapability /\ Ended(o).outcome = o
<1> DEFINE H == { "none", "ended", NoCapability, Star, NoHandle, Fails("NotFound"), o }
<1>1. NoCall \in CallsOver(H)
  BY DEF NoCall, CallsOver
<1>2. "ended" \in H /\ o \in H
  OBVIOUS
<1> HIDE DEF H
<1>3. Ended(o) \in CallsOver(H)
  BY <1>1, <1>2, Zenon DEF CallsOver, Ended
<1>4. Ended(o).pc = "ended" /\ Ended(o).capability = NoCapability /\ Ended(o).outcome = o
  BY DEF Ended, NoCall
<1> QED
  BY <1>3, <1>4 DEF ShapedCall

\* A call sets out.
SetOut(capability, constraint, budget) ==
    [ NoCall EXCEPT !.pc = "arrived", !.capability = capability,
                    !.constraint = constraint, !.left = budget ]

\* It is a call, for what was asked.
LEMMA SetOutShape ==
    ASSUME NEW capability, NEW constraint, NEW budget \in Int
    PROVE  /\ ShapedCall(SetOut(capability, constraint, budget))
           /\ SetOut(capability, constraint, budget).pc = "arrived"
           /\ SetOut(capability, constraint, budget).capability = capability
           /\ SetOut(capability, constraint, budget).outcome = Fails("NotFound")
<1> DEFINE H == { "none", "arrived", NoCapability, capability, Star, constraint, NoHandle,
                  Fails("NotFound") }
           r == SetOut(capability, constraint, budget)
<1>1. NoCall \in CallsOver(H)
  BY DEF NoCall, CallsOver
<1>2. "arrived" \in H /\ capability \in H /\ constraint \in H
  OBVIOUS
<1> HIDE DEF H
<1>3. r \in CallsOver(H)
  BY <1>1, <1>2, Zenon DEF CallsOver, SetOut
<1>4. r.pc = "arrived" /\ r.capability = capability /\ r.outcome = NoCall.outcome
  BY <1>1 DEF CallsOver, SetOut
<1> QED
  BY <1>3, <1>4, NoCallShape DEF ShapedCall

\* A call goes on to another place, perhaps with a plugin and a timer.
Moved(r, pc) == [ r EXCEPT !.pc = pc ]
Timed(r, timer, handle) == [ r EXCEPT !.pc = "resolved", !.timer = timer, !.handle = handle ]

\* It asks for what it asked for, by the deadline it had.
LEMMA MovedShape ==
    ASSUME NEW r, ShapedCall(r), NEW pc
    PROVE  /\ ShapedCall(Moved(r, pc))
           /\ Moved(r, pc).pc = pc
           /\ Moved(r, pc).capability = r.capability /\ Moved(r, pc).outcome = r.outcome
           /\ Moved(r, pc).left = r.left /\ Moved(r, pc).timer = r.timer
           /\ Moved(r, pc).lag = r.lag
<1>1. PICK H : r \in CallsOver(H)
  BY DEF ShapedCall
<1> DEFINE G == H \cup { pc }
<1>2. r \in CallsOver(G)
  BY <1>1, Zenon DEF CallsOver
<1>3. pc \in G
  OBVIOUS
<1> HIDE DEF G
<1>4. Moved(r, pc) \in CallsOver(G)
  BY <1>2, <1>3, Zenon DEF CallsOver, Moved
<1>5. /\ Moved(r, pc).pc = pc
      /\ Moved(r, pc).capability = r.capability /\ Moved(r, pc).outcome = r.outcome
      /\ Moved(r, pc).left = r.left /\ Moved(r, pc).timer = r.timer
      /\ Moved(r, pc).lag = r.lag
  BY <1>2 DEF CallsOver, Moved
<1> QED
  BY <1>4, <1>5 DEF ShapedCall

\* The same with the plugin and the timer.
LEMMA TimedShape ==
    ASSUME NEW r, ShapedCall(r), NEW timer \in Int, NEW handle
    PROVE  /\ ShapedCall(Timed(r, timer, handle))
           /\ Timed(r, timer, handle).pc = "resolved"
           /\ Timed(r, timer, handle).capability = r.capability
           /\ Timed(r, timer, handle).outcome = r.outcome
           /\ Timed(r, timer, handle).left = r.left
           /\ Timed(r, timer, handle).timer = timer
           /\ Timed(r, timer, handle).lag = r.lag
<1>1. PICK H : r \in CallsOver(H)
  BY DEF ShapedCall
<1> DEFINE G == H \cup { "resolved", handle }
           t == Timed(r, timer, handle)
<1>2. r \in CallsOver(G)
  BY <1>1, Zenon DEF CallsOver
<1>3. "resolved" \in G /\ handle \in G
  OBVIOUS
<1> HIDE DEF G
<1>4. t \in CallsOver(G)
  BY <1>2, <1>3, Zenon DEF CallsOver, Timed
<1>5. /\ t.pc = "resolved" /\ t.capability = r.capability /\ t.outcome = r.outcome
      /\ t.left = r.left /\ t.timer = timer /\ t.lag = r.lag
  BY <1>2 DEF CallsOver, Timed
<1> QED
  BY <1>4, <1>5 DEF ShapedCall

\* Time passes for a call.
LEMMA PassedShape ==
    ASSUME NEW r, ShapedCall(r)
    PROVE  LET p == Passed(r)
           IN /\ ShapedCall(p)
              /\ p.pc = r.pc /\ p.capability = r.capability /\ p.outcome = r.outcome
              /\ r.pc = "resolved" => p.timer = r.timer /\ p.left + p.lag = r.left + r.lag
              /\ r.pc = "rpc" => /\ p.timer = r.timer - 1
                                 /\ p.left + p.lag = r.left + r.lag - 1
<1>1. PICK H : r \in CallsOver(H)
  BY DEF ShapedCall
<1>2. r.left \in Int /\ r.timer \in Int /\ r.lag \in Nat
  BY <1>1 DEF CallsOver
<1>3. CASE r.pc \in { "arrived", "local" }
  <2> DEFINE n == IF r.left > 0 THEN r.left - 1 ELSE 0
  <2>1. Passed(r) = [ r EXCEPT !.left = n ] /\ n \in Int
    BY <1>2, <1>3 DEF Passed
  <2> HIDE DEF n
  <2>2. Passed(r) \in CallsOver(H)
    BY <1>1, <2>1, Zenon DEF CallsOver
  <2> QED
    BY <1>1, <1>3, <2>1, <2>2 DEF ShapedCall, CallsOver
<1>4. CASE r.pc = "resolved"
  <2> DEFINE n == r.left - 1
             g == r.lag + 1
  <2>1. Passed(r) = [ r EXCEPT !.left = n, !.lag = g ] /\ n \in Int /\ g \in Nat
    BY <1>2, <1>4 DEF Passed
  <2>2. n + g = r.left + r.lag
    BY <1>2
  <2> HIDE DEF n, g
  <2>3. Passed(r) \in CallsOver(H)
    BY <1>1, <2>1, Zenon DEF CallsOver
  <2>4. Passed(r).left = n /\ Passed(r).lag = g /\ Passed(r).timer = r.timer
    BY <1>1, <2>1 DEF CallsOver
  <2> QED
    BY <1>1, <1>4, <2>1, <2>2, <2>3, <2>4 DEF ShapedCall, CallsOver
<1>5. CASE r.pc = "rpc"
  <2> DEFINE n == r.left - 1
             t == r.timer - 1
  <2>1. Passed(r) = [ r EXCEPT !.left = n, !.timer = t ] /\ n \in Int /\ t \in Int
    BY <1>2, <1>5 DEF Passed
  <2>2. n + r.lag = r.left + r.lag - 1
    BY <1>2
  <2> HIDE DEF n
  <2>3. Passed(r) \in CallsOver(H)
    BY <1>1, <2>1, Zenon DEF CallsOver
  <2>4. Passed(r).left = n /\ Passed(r).lag = r.lag /\ Passed(r).timer = t
    BY <1>1, <2>1 DEF CallsOver
  <2> QED
    BY <1>1, <1>5, <2>1, <2>2, <2>3, <2>4 DEF ShapedCall, CallsOver
<1>6. CASE r.pc \notin { "arrived", "local", "resolved", "rpc" }
  BY <1>6 DEF Passed
<1> QED
  BY <1>3, <1>4, <1>5, <1>6

\* An exchange goes on, is taken by a process, or is answered.
Staged(x, st) == [ x EXCEPT !.st = st ]
TakenUp(x, inst) == [ x EXCEPT !.st = "running", !.inst = inst ]
Settled(x, outcome) == [ x EXCEPT !.st = "replied", !.outcome = outcome ]

\* It is about what it was about; only an answer changes its outcome.
LEMMA ExchangeShape ==
    ASSUME NEW x, ShapedExchange(x), NEW st, NEW inst, NEW outcome
    PROVE  /\ ShapedExchange(Staged(x, st)) /\ ShapedExchange(TakenUp(x, inst))
           /\ ShapedExchange(Settled(x, outcome))
           /\ Staged(x, st).capability = x.capability /\ Staged(x, st).outcome = x.outcome
           /\ TakenUp(x, inst).capability = x.capability /\ TakenUp(x, inst).outcome = x.outcome
           /\ Settled(x, outcome).capability = x.capability
           /\ Settled(x, outcome).outcome = outcome
<1>1. PICK H : x \in ExchangesOver(H)
  BY DEF ShapedExchange
<1> DEFINE G == H \cup { st, inst, outcome, "running", "replied" }
<1>2. x \in ExchangesOver(G)
  BY <1>1, Zenon DEF ExchangesOver
<1>3. st \in G /\ inst \in G /\ outcome \in G /\ "running" \in G /\ "replied" \in G
  OBVIOUS
<1> HIDE DEF G
<1>4. Staged(x, st) \in ExchangesOver(G)
  BY <1>2, <1>3, Zenon DEF ExchangesOver, Staged
<1>5. TakenUp(x, inst) \in ExchangesOver(G)
  BY <1>2, <1>3, Zenon DEF ExchangesOver, TakenUp
<1>6. Settled(x, outcome) \in ExchangesOver(G)
  BY <1>2, <1>3, Zenon DEF ExchangesOver, Settled
<1>7. /\ Staged(x, st).capability = x.capability /\ Staged(x, st).outcome = x.outcome
      /\ TakenUp(x, inst).capability = x.capability /\ TakenUp(x, inst).outcome = x.outcome
      /\ Settled(x, outcome).capability = x.capability
      /\ Settled(x, outcome).outcome = outcome
  BY <1>2 DEF ExchangesOver, Staged, TakenUp, Settled
<1> QED
  BY <1>4, <1>5, <1>6, <1>7 DEF ShapedExchange

\* An exchange begins.
Sent(capability, by) == [ Idle EXCEPT !.st = "sent", !.capability = capability, !.by = by ]

\* It is about what the call asks for.
LEMMA SentShape ==
    ASSUME NEW capability, NEW by
    PROVE  /\ ShapedExchange(Idle) /\ ShapedExchange(Sent(capability, by))
           /\ Idle.capability = NoCapability /\ Idle.outcome = Fails("NotFound")
           /\ Sent(capability, by).capability = capability
           /\ Sent(capability, by).outcome = Fails("NotFound")
<1> DEFINE G == { "idle", "sent", NoCapability, capability, NoHandle, by, 0, Fails("NotFound") }
           x == Sent(capability, by)
<1>1. Idle \in ExchangesOver(G)
  BY DEF Idle, ExchangesOver
<1>2. "sent" \in G /\ capability \in G /\ by \in G
  OBVIOUS
<1> HIDE DEF G
<1>3. x \in ExchangesOver(G)
  BY <1>1, <1>2, Zenon DEF ExchangesOver, Sent
<1>4. Idle.capability = NoCapability /\ Idle.outcome = Fails("NotFound")
  BY DEF Idle
<1>5. x.capability = capability /\ x.outcome = Idle.outcome
  BY <1>1 DEF ExchangesOver, Sent
<1> QED
  BY <1>1, <1>3, <1>4, <1>5 DEF ShapedExchange

-----------------------------------------------------------------------------
\* So a call and an exchange stay as they should be: ended ...
LEMMA EndedOK ==
    ASSUME NEW k, NEW o, NEW cleared, NEW guarded, o = Bytes("valid") => k[1] \in cleared
    PROVE  CallOK(k, Ended(o), cleared, guarded)
BY EndedShape DEF CallOK, Timely, Backed, Harmless

\* ... gone ...
LEMMA NoCallOK ==
    ASSUME NEW k, NEW cleared, NEW guarded
    PROVE  CallOK(k, NoCall, cleared, guarded) /\ ExchangeOK(k, Idle, cleared, guarded)
<1>1. Fails("NotFound") # Bytes("valid")
  BY NoVerdict DEF Results, Errors
<1>2. ShapedCall(NoCall)
  BY NoCallShape DEF ShapedCall
<1> QED
  BY <1>1, <1>2, NoCallShape, SentShape DEF CallOK, Timely, Backed, Harmless, ExchangeOK

\* ... set out, if what is asked for is harmless or cleared ...
LEMMA DispatchedOK ==
    ASSUME NEW k, NEW capability, NEW constraint, NEW budget \in Int, NEW cleared, NEW guarded,
           k \in guarded => k[1] \in cleared \/ capability \in Harmless
    PROVE  CallOK(k, Dispatched(capability, constraint, budget), cleared, guarded)
<1>1. CASE budget = 0
  <2>1. Fails("DeadlineExceeded") # Bytes("valid")
    BY NoVerdict DEF Results, Errors
  <2> QED
    BY <1>1, <2>1, EndedOK DEF Dispatched
<1>2. CASE budget # 0
  <2>1. Dispatched(capability, constraint, budget) = SetOut(capability, constraint, budget)
    BY <1>2 DEF Dispatched, SetOut
  <2>2. Fails("NotFound") # Bytes("valid")
    BY NoVerdict DEF Results, Errors
  <2> QED
    BY <2>1, <2>2, SetOutShape DEF CallOK, Timely, Backed
<1> QED
  BY <1>1, <1>2

\* ... and while time passes.
LEMMA PassedOK ==
    ASSUME NEW k, NEW r, NEW cleared, NEW guarded, CallOK(k, r, cleared, guarded),
           r.pc = "rpc" => r.timer > 0
    PROVE  CallOK(k, Passed(r), cleared, guarded)
<1> DEFINE p == Passed(r)
<1>1. /\ ShapedCall(p)
      /\ p.pc = r.pc /\ p.capability = r.capability /\ p.outcome = r.outcome
      /\ r.pc = "resolved" => p.timer = r.timer /\ p.left + p.lag = r.left + r.lag
      /\ r.pc = "rpc" => /\ p.timer = r.timer - 1
                         /\ p.left + p.lag = r.left + r.lag - 1
  BY PassedShape DEF CallOK
<1>2. ShapedCall(r) /\ Timely(r)
  BY DEF CallOK
<1>3. r.timer \in Int /\ r.left \in Int /\ r.lag \in Int
  BY <1>2 DEF ShapedCall, CallsOver
<1> HIDE DEF p
<1>4. Timely(p)
  BY <1>1, <1>2, <1>3 DEF Timely
<1>5. CallOK(k, p, cleared, guarded)
  BY <1>1, <1>4 DEF CallOK, Backed
<1> QED
  BY <1>5 DEF p

-----------------------------------------------------------------------------
\* Which requests are protected is a matter of the scenario.
LEMMA SetsFrame ==
    ASSUME UNCHANGED scenario
    PROVE  Guarded' = Guarded /\ \A q \in Requests : Protected(q)' = Protected(q)
<1>1. \A q : Work(q)' = Work(q)
  BY DEF Work
<1>2. \A q : Protected(q)' = Protected(q)
  BY <1>1 DEF Protected, RouteOf, Taken, Matches
<1> QED
  BY <1>2 DEF Guarded

\* What one step leaves alone stays as it should be ...
LEMMA CallsFrame ==
    ASSUME CallsOK, UNCHANGED << call, verdict, scenario >>
    PROVE  CallsOK'
BY SetsFrame DEF CallsOK, CallOK, ShapedCall, CallsOver, Timely, Backed, Cleared

\* ... the exchanges ...
LEMMA ExchangesFrame ==
    ASSUME ExchangesOK, UNCHANGED << exchange, verdict, scenario >>
    PROVE  ExchangesOK'
BY SetsFrame DEF ExchangesOK, ExchangeOK, ShapedExchange, ExchangesOver, Backed, Cleared

\* ... and the history.
LEMMA HistoryFrame ==
    ASSUME HistoryOK, UNCHANGED << verdict, performed, scenario >>
    PROVE  HistoryOK'
<1>1. \A q \in Requests : Work(q)' = Work(q) /\ Protected(q)' = Protected(q)
  BY SetsFrame DEF Work
<1> QED
  BY <1>1 DEF HistoryOK, ProtectedNeedsVerdict

\* A call in the place of another leaves all as they should be ...
LEMMA CallAssign ==
    ASSUME CallsOK, NEW k \in Calls, NEW r, CallOK(k, r, Cleared, Guarded),
           call' = [ call EXCEPT ![k] = r ], UNCHANGED << verdict, scenario >>
    PROVE  CallsOK'
<1>1. Cleared' = Cleared /\ Guarded' = Guarded
  BY SetsFrame DEF Cleared
<1>2. DOMAIN call' = Calls
  BY DEF CallsOK
<1>3. ASSUME NEW j \in Calls PROVE CallOK(j, call'[j], Cleared, Guarded)
  <2>1. call'[j] = IF j = k THEN r ELSE call[j]
    BY DEF CallsOK
  <2>2. CASE j = k
    BY <2>1, <2>2
  <2>3. CASE j # k
    BY <2>1, <2>3 DEF CallsOK
  <2> QED
    BY <2>2, <2>3
<1>4. \A j \in Calls : CallOK(j, call'[j], Cleared', Guarded')
  BY <1>1, <1>3
<1> QED
  BY <1>2, <1>4 DEF CallsOK, CallOK, ShapedCall, CallsOver, Timely, Backed

\* ... and so does an exchange, also when its request is cleared with it ...
LEMMA ExchangeAnswers ==
    ASSUME ExchangesOK, NEW k \in Calls, NEW x, ExchangeOK(k, x, Cleared', Guarded),
           exchange' = [ exchange EXCEPT ![k] = x ],
           Cleared \subseteq Cleared', UNCHANGED scenario
    PROVE  ExchangesOK'
<1>1. Guarded' = Guarded
  BY SetsFrame
<1>2. DOMAIN exchange' = Calls
  BY DEF ExchangesOK
<1>3. ASSUME NEW j \in Calls PROVE ExchangeOK(j, exchange'[j], Cleared', Guarded)
  <2>1. exchange'[j] = IF j = k THEN x ELSE exchange[j]
    BY DEF ExchangesOK
  <2>2. CASE j = k
    BY <2>1, <2>2
  <2>3. CASE j # k
    <3>1. ExchangeOK(j, exchange[j], Cleared, Guarded)
      BY DEF ExchangesOK
    <3>2. ExchangeOK(j, exchange[j], Cleared', Guarded)
      BY <3>1 DEF ExchangeOK, Backed
    <3> QED
      BY <2>1, <2>3, <3>2
  <2> QED
    BY <2>2, <2>3
<1>4. \A j \in Calls : ExchangeOK(j, exchange'[j], Cleared', Guarded')
  BY <1>1, <1>3
<1> QED
  BY <1>2, <1>4 DEF ExchangesOK, ExchangeOK, ShapedExchange, ExchangesOver, Backed

\* ... or not.
LEMMA ExchangeAssign ==
    ASSUME ExchangesOK, NEW k \in Calls, NEW x, ExchangeOK(k, x, Cleared, Guarded),
           exchange' = [ exchange EXCEPT ![k] = x ], UNCHANGED << verdict, scenario >>
    PROVE  ExchangesOK'
<1>1. Cleared' = Cleared
  BY DEF Cleared
<1> QED
  BY <1>1, ExchangeAnswers

\* A plugin may answer what it likes, but "valid" only if the verdict is that.
LEMMA RepliedOK ==
    ASSUME ExchangesOK, NEW k \in Calls, NEW o, o = Bytes("valid") => k[1] \in Cleared',
           Replied(k, o), Cleared \subseteq Cleared', UNCHANGED scenario
    PROVE  ExchangesOK'
<1> DEFINE x == IF At(k, "rpc") THEN Settled(exchange[k], o) ELSE Idle
<1>1. exchange' = [ exchange EXCEPT ![k] = x ]
  BY DEF Replied, Settled
<1>2. ExchangeOK(k, x, Cleared', Guarded)
  <2>1. ExchangeOK(k, exchange[k], Cleared, Guarded)
    BY DEF ExchangesOK
  <2>2. CASE At(k, "rpc")
    <3>1. /\ ShapedExchange(Settled(exchange[k], o))
          /\ Settled(exchange[k], o).capability = exchange[k].capability
          /\ Settled(exchange[k], o).outcome = o
      BY <2>1, ExchangeShape DEF ExchangeOK
    <3> QED
      BY <2>1, <2>2, <3>1 DEF ExchangeOK, Backed
  <2>3. CASE ~At(k, "rpc")
    BY <2>3, NoCallOK
  <2> QED
    BY <2>2, <2>3
<1> HIDE DEF x
<1> QED
  BY <1>1, <1>2, ExchangeAnswers

\* What is performed for a request is backed by the call that asked for it.
LEMMA PerformedOK ==
    ASSUME HistoryOK, NEW k \in Calls, k \in Guarded => k[1] \in Cleared,
           performed' = [ performed EXCEPT ![k[1]] = @ + 1 ],
           UNCHANGED << scenario, verdict >>
    PROVE  HistoryOK'
<1>1. \A q \in Requests : Work(q)' = Work(q) /\ Protected(q)' = Protected(q)
  BY SetsFrame DEF Work
<1>2. performed' \in [ Requests -> Nat ]
  BY CallIds DEF HistoryOK
<1>3. ASSUME NEW q \in Requests, Protected(q), performed'[q] > 0 PROVE verdict'[q] = "valid"
  <2>1. CASE q = k[1]
    BY <1>3, <2>1 DEF Guarded, Cleared
  <2>2. CASE q # k[1]
    <3>1. performed'[q] = performed[q]
      BY <2>2 DEF HistoryOK
    <3> QED
      BY <1>3, <3>1 DEF HistoryOK, ProtectedNeedsVerdict
  <2> QED
    BY <2>1, <2>2
<1> QED
  BY <1>1, <1>2, <1>3 DEF HistoryOK, ProtectedNeedsVerdict

-----------------------------------------------------------------------------
\* The handlers of the gateways dispatch and forget calls of their own.
LEMMA HandlerSteps ==
    ASSUME ServingInv, NEW q \in Requests, Arrival(q) \/ Handler(q) \/ ClientLeaves(q)
    PROVE  ServingInv'
<1> USE DEF ServingInv
<1> DEFINE k == Outer(q)
<1>1. k \in Calls /\ k[1] = q /\ k[2] = "outer"
  BY CallIds
<1>2. UNCHANGED << exchange, handlers, writer, hostVars >>
  BY DEF Arrival, RejectTooLarge, HttpInvoke, GrpcInvoke, DeclarativeRoute, Handler, AuthAnswered,
     TargetAnswered, ClientLeaves, HandlerFrame, lockVars
<1>3. \/ UNCHANGED call
      \/ call' = [ call EXCEPT ![k] = NoCall ]
      \/ \E capability, constraint : \E budget \in Int :
            /\ k \in Guarded => k[1] \in Cleared \/ capability \in Harmless
            /\ call' = [ call EXCEPT ![k] = Dispatched(capability, constraint, budget) ]
  <2>1. k \in Guarded <=> Protected(q)
    BY <1>1 DEF Guarded
  <2>2. Work(q).budget \in Int /\ DefaultTimeout \in Int /\ AuthTimeout \in Int
    <3>1. scenario.work \in [ Requests -> [ via : Vias, client : Clients,
                                   capability : Capabilities, budget : 0 .. DefaultTimeout,
                                   method : Verbs, path : Seq(STRING), token : Tokens,
                                   body : Bodies, verb : Verbs ] ]
      BY ServingAssumption
    <3>2. Work(q).budget \in 0 .. DefaultTimeout
      BY <3>1 DEF Work
    <3> QED
      BY <3>2, ServingAssumption, BusAssumption
  <2>3. CASE RejectTooLarge(q)
    BY <2>3 DEF RejectTooLarge, Rejects
  <2>4. CASE HttpInvoke(q) \/ GrpcInvoke(q)
    <3>1. Work(q).via \in { "invoke", "grpc" }
      BY <2>4 DEF HttpInvoke, GrpcInvoke, Arrives
    <3>2. Protected(q) => Work(q).capability \in Harmless
      BY <3>1 DEF Protected, Harmless
    <3>3. \/ UNCHANGED call
          \/ call' = [ call EXCEPT ![k] = Dispatched(Work(q).capability, Star, Work(q).budget) ]
      BY <2>4 DEF HttpInvoke, GrpcInvoke, Rejects, Dispatches
    <3> QED
      BY <2>1, <2>2, <3>2, <3>3
  <2>5. CASE DeclarativeRoute(q)
    <3>1. \/ UNCHANGED call
          \/ RouteOf(q) # NoRoute /\ RouteOf(q).protected /\ DispatchesAuth(q)
          \/ RouteOf(q) # NoRoute /\ ~RouteOf(q).protected /\ DispatchesTarget(q)
      BY <2>5 DEF DeclarativeRoute, Rejects
    <3>2. Work(q).via = "route"
      BY <2>5 DEF DeclarativeRoute, Arrives
    <3>3. CASE RouteOf(q) # NoRoute /\ RouteOf(q).protected /\ DispatchesAuth(q)
      <4>1. RouteOf(q).auth.capability \in Harmless
        <5>1. \E i \in DOMAIN Routes : Taken(i, q)
          BY <3>3 DEF RouteOf
        <5>2. \E i \in DOMAIN Routes : RouteOf(q) = Routes[i]
          BY <5>1 DEF RouteOf
        <5> QED
          BY <3>3, <5>2, ServingAssumption DEF Harmless
      <4>2. call' = [ call EXCEPT ![k] = Dispatched(RouteOf(q).auth.capability,
                                           ConstraintOf(RouteOf(q).auth), AuthTimeout) ]
        BY <3>3 DEF DispatchesAuth, Dispatches
      <4> QED
        BY <2>2, <4>1, <4>2
    <3>4. CASE RouteOf(q) # NoRoute /\ ~RouteOf(q).protected /\ DispatchesTarget(q)
      <4>1. Protected(q) => RouteOf(q).target.capability \in Harmless
        BY <3>2, <3>4 DEF Protected, Harmless
      <4>2. call' = [ call EXCEPT ![k] = Dispatched(RouteOf(q).target.capability,
                                           ConstraintOf(RouteOf(q).target), DefaultTimeout) ]
        BY <3>4 DEF DispatchesTarget, Dispatches
      <4> QED
        BY <2>1, <2>2, <4>1, <4>2
    <3> QED
      BY <3>1, <3>3, <3>4
  <2>6. CASE AuthAnswered(q)
    <3>1. CASE Grants(call[k].outcome)
      <4>1. k[1] \in Cleared
        BY <1>1, <3>1 DEF Grants, CallsOK, CallOK, Backed
      <4>2. call' = [ call EXCEPT ![k] = Dispatched(RouteOf(q).target.capability,
                                           ConstraintOf(RouteOf(q).target), DefaultTimeout) ]
        BY <2>6, <3>1 DEF AuthAnswered, DispatchesTarget, Dispatches
      <4> QED
        BY <2>2, <4>1, <4>2
    <3>2. CASE ~Grants(call[k].outcome)
      BY <2>6, <3>2 DEF AuthAnswered
    <3> QED
      BY <3>1, <3>2
  <2>7. CASE TargetAnswered(q) \/ ClientLeaves(q)
    BY <2>7 DEF TargetAnswered, ClientLeaves
  <2> QED
    BY <2>3, <2>4, <2>5, <2>6, <2>7 DEF Arrival, Handler
<1>4. CallsOK'
  <2>1. CASE UNCHANGED call
    BY <1>2, <2>1, CallsFrame DEF hostVars
  <2>2. CASE call' = [ call EXCEPT ![k] = NoCall ]
    BY <1>1, <1>2, <2>2, NoCallOK, CallAssign DEF hostVars
  <2>3. ASSUME NEW capability, NEW constraint, NEW budget \in Int,
               k \in Guarded => k[1] \in Cleared \/ capability \in Harmless,
               call' = [ call EXCEPT ![k] = Dispatched(capability, constraint, budget) ]
        PROVE  CallsOK'
    BY <1>1, <1>2, <2>3, DispatchedOK, CallAssign DEF hostVars
  <2> QED
    BY <1>3, <2>1, <2>2, <2>3
<1> QED
  BY <1>2, <1>4, ExchangesFrame, HistoryFrame DEF hostVars, HandlersOK

\* A call that has found its plugin is timed by what its deadline leaves.
LEMMA ResolvedOK ==
    ASSUME NEW k, NEW r, NEW cleared, NEW guarded, CallOK(k, r, cleared, guarded),
           r.left > 0, NEW handle
    PROVE  CallOK(k, Timed(r, Clamped(r.left), handle), cleared, guarded)
<1> DEFINE timer == Clamped(r.left)
           s == Timed(r, timer, handle)
<1>1. ShapedCall(r) /\ Backed(k, r.capability, r.outcome, cleared, guarded)
  BY DEF CallOK
<1>2. r.left \in Int /\ r.lag \in Nat
  BY <1>1 DEF ShapedCall, CallsOver
<1>3. timer \in Int /\ timer >= 0 /\ timer <= r.left + r.lag
  BY <1>2, BusAssumption DEF Clamped, Smaller
<1> HIDE DEF timer
<1>4. /\ ShapedCall(s) /\ s.pc = "resolved"
      /\ s.capability = r.capability /\ s.outcome = r.outcome
      /\ s.left = r.left /\ s.timer = timer /\ s.lag = r.lag
  BY <1>1, <1>3, TimedShape
<1> HIDE DEF s
<1>5. CallOK(k, s, cleared, guarded)
  BY <1>1, <1>3, <1>4 DEF CallOK, Timely
<1> QED
  BY <1>5 DEF s, timer

\* Steps of a dispatch.  A call whose local handler runs asks for what the host
\* has registered; what a plugin answers is backed as its exchange was.
LEMMA DispatchSteps ==
    ASSUME ServingInv, NEW k \in Calls, Dispatching(k)
    PROVE  ServingInv'
<1> USE DEF ServingInv
<1>1. UNCHANGED << hostVars, handlers, writer >>
  BY DEF Dispatching, KernelStep, RunLocal, NothingOffered, Resolve, Send, NotConnected, Respond,
     Expire, Break, lockVars
<1>2. CallOK(k, call[k], Cleared, Guarded) /\ ExchangeOK(k, exchange[k], Cleared, Guarded)
  BY DEF CallsOK, ExchangesOK
<1>3. ShapedCall(call[k]) /\ Backed(k, call[k].capability, call[k].outcome, Cleared, Guarded)
  BY <1>2 DEF CallOK
<1>4. \A e \in Results : CallOK(k, Ended(Fails(e)), Cleared, Guarded)
  BY NoVerdict, EndedOK
<1>5. CallsOK'
  <2>1. CASE RunLocal(k)
    <3> DEFINE s == Moved(call[k], "local")
    <3>1. call' = [ call EXCEPT ![k] = s ] /\ call[k].capability \in HostCapabilities
      BY <2>1 DEF RunLocal, HandlersOK, Moved
    <3>2. ShapedCall(s) /\ s.pc = "local" /\ s.capability = call[k].capability
          /\ s.outcome = call[k].outcome
      BY <1>3, MovedShape
    <3> HIDE DEF s
    <3>3. CallOK(k, s, Cleared, Guarded)
      BY <1>3, <3>1, <3>2 DEF CallOK, Timely
    <3> QED
      BY <1>1, <3>1, <3>3, CallAssign DEF hostVars
  <2>2. CASE NothingOffered(k) \/ NotConnected(k) \/ Expire(k) \/ Break(k, Reaches(exchange[k].by))
    <3>1. PICK e \in Results : call' = [ call EXCEPT ![k] = Ended(Fails(e)) ]
      BY <2>2 DEF NothingOffered, NotConnected, Expire, Break, Ends, Results, Errors
    <3> QED
      BY <1>1, <1>4, <3>1, CallAssign DEF hostVars
  <2>3. CASE Resolve(k)
    <3>1. CASE call[k].left <= 0
      <4>1. call' = [ call EXCEPT ![k] = Ended(Fails("DeadlineExceeded")) ]
        BY <2>3, <3>1 DEF Resolve
      <4> QED
        BY <1>1, <1>4, <4>1, CallAssign DEF hostVars, Results, Errors
    <3>2. CASE ~(call[k].left <= 0)
      <4> DEFINE h == Found(call[k].capability, call[k].constraint).plugin_handle
                 r == call[k]
      <4>1. r.left > 0
        BY <1>3, <3>2 DEF ShapedCall, CallsOver
      <4>2. call' = [ call EXCEPT ![k] = Timed(r, Clamped(r.left), h) ]
        BY <2>3, <3>2 DEF Resolve, Timed
      <4> HIDE DEF h
      <4>3. CallOK(k, Timed(r, Clamped(r.left), h), Cleared, Guarded)
        BY <1>2, <4>1, ResolvedOK
      <4> QED
        BY <1>1, <4>2, <4>3, CallAssign DEF hostVars
    <3> QED
      BY <3>1, <3>2
  <2>4. CASE Send(k)
    <3> DEFINE s == Moved(call[k], "rpc")
    <3>1. call' = [ call EXCEPT ![k] = s ] /\ call[k].pc = "resolved"
      BY <2>4 DEF Send, At, Moved
    <3>2. /\ ShapedCall(s) /\ s.pc = "rpc" /\ s.capability = call[k].capability
          /\ s.outcome = call[k].outcome
          /\ s.left = call[k].left /\ s.timer = call[k].timer /\ s.lag = call[k].lag
      BY <1>3, MovedShape
    <3> HIDE DEF s
    <3>3. CallOK(k, s, Cleared, Guarded)
      BY <1>2, <3>1, <3>2 DEF CallOK, Timely, Backed
    <3> QED
      BY <1>1, <3>1, <3>3, CallAssign DEF hostVars
  <2>5. CASE Respond(k)
    <3>1. call' = [ call EXCEPT ![k] = Ended(exchange[k].outcome) ]
      BY <2>5 DEF Respond, Ends
    <3>2. CallOK(k, Ended(exchange[k].outcome), Cleared, Guarded)
      BY <1>2, EndedOK DEF ExchangeOK, Backed
    <3> QED
      BY <1>1, <3>1, <3>2, CallAssign DEF hostVars
  <2> QED
    BY <2>1, <2>2, <2>3, <2>4, <2>5 DEF Dispatching, KernelStep
<1>6. ExchangesOK'
  <2>1. CASE Send(k)
    <3> DEFINE x == Sent(call[k].capability, call[k].handle)
    <3>1. exchange' = [ exchange EXCEPT ![k] = x ]
      BY <2>1 DEF Send, Sent
    <3>2. ShapedExchange(x) /\ x.capability = call[k].capability /\ x.outcome = Fails("NotFound")
      BY SentShape
    <3> HIDE DEF x
    <3>3. ExchangeOK(k, x, Cleared, Guarded)
      BY <1>3, <3>2, NoVerdict DEF ExchangeOK, Backed, Results, Errors
    <3> QED
      BY <1>1, <3>1, <3>3, ExchangeAssign DEF hostVars
  <2>2. CASE exchange' = [ exchange EXCEPT ![k] = Idle ]
    BY <1>1, <2>2, NoCallOK, ExchangeAssign DEF hostVars
  <2>3. CASE UNCHANGED exchange
    BY <1>1, <2>3, ExchangesFrame DEF hostVars
  <2> QED
    BY <2>1, <2>2, <2>3 DEF Dispatching, KernelStep, RunLocal, NothingOffered, Resolve,
       NotConnected, Respond, Expire, Break, Quits
<1> QED
  BY <1>1, <1>5, <1>6, HistoryFrame DEF hostVars, HandlersOK

\* Time passes for every call.
LEMMA TickStep ==
    ASSUME ServingInv, Tick
    PROVE  ServingInv'
<1> USE DEF ServingInv
<1>1. UNCHANGED << exchange, handlers, writer, hostVars >>
  BY DEF Tick, Elapse, lockVars
<1>2. call' = [ k \in Calls |-> Passed(call[k]) ]
  BY DEF Tick, Elapse
<1>3. ASSUME NEW k \in Calls PROVE CallOK(k, Passed(call[k]), Cleared, Guarded)
  <2>1. call[k].pc = "rpc" => call[k].timer > 0
    BY DEF Tick, Elapse, TimeMayPass, At
  <2> QED
    BY <2>1, PassedOK DEF CallsOK
<1>4. Cleared' = Cleared /\ Guarded' = Guarded
  BY <1>1, SetsFrame DEF Cleared, hostVars
<1>5. \A k \in Calls : CallOK(k, call'[k], Cleared', Guarded')
  BY <1>2, <1>3, <1>4
<1>6. CallsOK'
  BY <1>2, <1>5 DEF CallsOK, CallOK, ShapedCall, CallsOver, Timely, Backed
<1> QED
  BY <1>1, <1>6, ExchangesFrame, HistoryFrame DEF hostVars, HandlersOK

\* A local handler returns one of these, with its effect or without.
LocalOutcomes == { Bytes("done") } \cup { Fails(e) : e \in Errors }

LEMMA LocalReturned ==
    ASSUME NEW k, HandlerReturns(k)
    PROVE  /\ \E o \in LocalOutcomes : LocalReturns(k, o)
           /\ performed' = [ performed EXCEPT ![k[1]] = @ + 1 ] \/ UNCHANGED performed
BY DEF HandlerReturns, LocalOutcomes, Unsure

\* The host's handlers do their work for calls that are harmless or cleared.
LEMMA HostSteps ==
    ASSUME ServingInv,
           \/ \E k \in Calls : HandlerReturns(k)
           \/ InstallHandler /\ UNCHANGED << hostVars, entries, gatewayVars >>
           \/ \E c \in HostCapabilities : HostRegisters(c)
    PROVE  ServingInv'
<1> USE DEF ServingInv
<1>1. ASSUME NEW k \in Calls, HandlerReturns(k) PROVE ServingInv'
  <2>1. PICK o \in LocalOutcomes : LocalReturns(k, o)
    BY <1>1, LocalReturned
  <2>2. /\ UNCHANGED << exchange, handlers, writer, scenario, verdict >>
        /\ call' = [ call EXCEPT ![k] = Ended(o) ]
        /\ call[k].pc = "local"
    BY <1>1, <2>1 DEF HandlerReturns, LocalReturns, Ends, At
  <2>3. CallOK(k, Ended(o), Cleared, Guarded)
    <3>1. Errors \subseteq Results /\ "done" \in Payloads
      BY DEF Results, Payloads
    <3>2. o # Bytes("valid")
      BY <3>1, NoVerdict DEF LocalOutcomes
    <3> QED
      BY <3>2, EndedOK
  <2>4. k \in Guarded => k[1] \in Cleared
    <3>1. call[k].capability \in HostCapabilities
      BY <2>2 DEF CallsOK, CallOK
    <3>2. call[k].capability \notin Harmless
      BY <3>1, ServingAssumption, BusAssumption DEF Harmless
    <3> QED
      BY <3>2 DEF CallsOK, CallOK, Backed
  <2>5. CallsOK' /\ ExchangesOK' /\ HandlersOK'
    BY <2>2, <2>3, CallAssign, ExchangesFrame DEF HandlersOK
  <2>6. HistoryOK'
    BY <1>1, <2>2, <2>4, LocalReturned, PerformedOK, HistoryFrame
  <2> QED
    BY <2>2, <2>5, <2>6
<1>2. ASSUME \/ InstallHandler /\ UNCHANGED << hostVars, entries, gatewayVars >>
             \/ \E c \in HostCapabilities : HostRegisters(c)
      PROVE  ServingInv'
  <2>1. UNCHANGED << call, exchange, hostVars >>
    BY <1>2 DEF InstallHandler, HostRegisters, RegisterHandler
  <2>2. HandlersOK'
    BY <1>2 DEF InstallHandler, HostRegisters, RegisterHandler, HandlersOK
  <2> QED
    BY <2>1, <2>2, CallsFrame, ExchangesFrame, HistoryFrame DEF hostVars
<1> QED
  BY <1>1, <1>2

\* Plugins come and go.
LEMMA LifecycleSteps ==
    ASSUME ServingInv, NEW n \in Plugins, Lifecycle(n)
    PROVE  ServingInv'
<1> USE DEF ServingInv
<1>1. UNCHANGED << call, handlers, writer, scenario, verdict, performed >>
  BY DEF Lifecycle, StartPlugin, Advertise, Crash, Retire, HostRemovesConnection, busVars, lockVars,
     hostVars, historyVars
<1>2. ExchangesOK'
  <2>1. CASE Loses(n)
    <3>1. ASSUME NEW k \in Calls PROVE ExchangeOK(k, exchange'[k], Cleared, Guarded)
      <4>1. ExchangeOK(k, exchange[k], Cleared, Guarded) /\ ShapedExchange(exchange[k])
        BY DEF ExchangesOK, ExchangeOK
      <4>2. exchange'[k] \in { exchange[k], Staged(exchange[k], "broken"), Idle }
        BY <2>1 DEF Loses, Lost, Staged
      <4>3. ExchangeOK(k, Staged(exchange[k], "broken"), Cleared, Guarded)
        <5>1. /\ ShapedExchange(Staged(exchange[k], "broken"))
              /\ Staged(exchange[k], "broken").capability = exchange[k].capability
              /\ Staged(exchange[k], "broken").outcome = exchange[k].outcome
          BY <4>1, ExchangeShape
        <5> QED
          BY <4>1, <5>1 DEF ExchangeOK
      <4> QED
        BY <4>1, <4>2, <4>3, NoCallOK
    <3>2. DOMAIN exchange' = Calls
      BY <2>1 DEF Loses
    <3>3. \A k \in Calls : ExchangeOK(k, exchange'[k], Cleared', Guarded')
      BY <1>1, <3>1, SetsFrame DEF Cleared
    <3> QED
      BY <3>2, <3>3 DEF ExchangesOK, ExchangeOK, ShapedExchange, ExchangesOver, Backed
  <2>2. CASE UNCHANGED exchange
    BY <1>1, <2>2, ExchangesFrame
  <2> QED
    BY <2>1, <2>2 DEF Lifecycle, StartPlugin, Advertise, Crash, Retire, HostRemovesConnection,
       busVars
<1> QED
  BY <1>1, <1>2, CallsFrame, HistoryFrame DEF HandlersOK

\* auth-jwt decides: more requests are cleared, none is less.
LEMMA VerifyStep ==
    ASSUME ServingInv, NEW k \in Calls, Verify(k)
    PROVE  ServingInv'
<1> USE DEF ServingInv
<1> DEFINE q == k[1]
           judged == Judgement(Work(q).token)
<1>1. q \in Requests
  BY CallIds
<1>2. /\ UNCHANGED << call, handlers, writer, scenario, performed >>
      /\ verdict' = [ verdict EXCEPT ![q] = judged ]
      /\ Replied(k, Bytes(judged))
  BY DEF Verify, lockVars
<1>3. judged \in { "valid", "invalid" }
  BY DEF Judgement
<1>4. \A r \in Requests : verdict'[r] = IF r = q THEN judged ELSE verdict[r]
  BY <1>2 DEF HistoryOK
<1>5. \A r \in Requests : verdict[r] = "valid" => verdict'[r] = "valid"
  BY <1>1, <1>4 DEF HistoryOK
<1>6. Cleared \subseteq Cleared'
  BY <1>5 DEF Cleared
<1>7. Bytes(judged) = Bytes("valid") => q \in Cleared'
  BY <1>1, <1>3, <1>4, NoVerdict DEF Cleared, Payloads
<1> HIDE DEF judged
<1>8. ExchangesOK'
  BY <1>2, <1>6, <1>7, RepliedOK
<1>9. CallsOK'
  <2>1. ASSUME NEW j \in Calls PROVE CallOK(j, call[j], Cleared', Guarded)
    BY <1>6 DEF CallsOK, CallOK, Backed
  <2>2. Guarded' = Guarded
    BY <1>2, SetsFrame
  <2>3. \A j \in Calls : CallOK(j, call'[j], Cleared', Guarded')
    BY <1>2, <2>1, <2>2
  <2> QED
    BY <1>2, <2>3 DEF CallsOK, CallOK, ShapedCall, CallsOver, Timely, Backed
<1>10. HistoryOK'
  <2>1. \A r \in Requests : Work(r)' = Work(r) /\ Protected(r)' = Protected(r)
    BY <1>2, SetsFrame DEF Work
  <2>2. verdict' \in [ Requests -> { "none", "valid", "invalid" } ]
    BY <1>2, <1>3 DEF HistoryOK
  <2>3. \A r \in Requests : verdict'[r] # "none" => verdict'[r] = Judgement(Work(r).token)
    BY <1>4 DEF HistoryOK, judged
  <2> QED
    BY <1>2, <1>5, <2>1, <2>2, <2>3 DEF HistoryOK, ProtectedNeedsVerdict
<1> QED
  BY <1>2, <1>8, <1>9, <1>10 DEF HandlersOK

\* data-sqlite executes what no verdict is missing for.
LEMMA ExecuteStep ==
    ASSUME ServingInv, NEW k \in Calls, Execute(k)
    PROVE  ServingInv'
<1> USE DEF ServingInv
<1>1. /\ UNCHANGED << call, handlers, writer, scenario, verdict >>
      /\ performed' = [ performed EXCEPT ![k[1]] = @ + 1 ]
      /\ Replied(k, Bytes("done"))
      /\ exchange[k].capability \in { DataQuery, DataWrite }
  BY DEF Execute, Runs, lockVars
<1>2. exchange[k].capability \notin Harmless
  BY <1>1, OfficialAssumption, BusAssumption DEF Harmless
<1>3. k \in Guarded => k[1] \in Cleared
  BY <1>2 DEF ExchangesOK, ExchangeOK, Backed
<1>4. Bytes("done") # Bytes("valid")
  BY NoVerdict DEF Payloads
<1>5. Cleared' = Cleared
  BY <1>1 DEF Cleared
<1> QED
  BY <1>1, <1>3, <1>4, <1>5, CallsFrame, RepliedOK, PerformedOK DEF HandlersOK

\* The http-router asks auth-jwt, and the database only once it is cleared.
LEMMA RouterSteps ==
    ASSUME ServingInv, NEW k \in Calls,
           \/ RouterDeclines(k) \/ RouterAsks(k) \/ RouterDenies(k)
           \/ RouterQueries(k) \/ RouterReports(k)
    PROVE  ServingInv'
<1> USE DEF ServingInv
<1> DEFINE n == Nested(k[1])
<1>1. n \in Calls /\ n[1] = k[1]
  BY CallIds
<1>2. UNCHANGED << handlers, writer, hostVars >> /\ Cleared' = Cleared
  BY DEF RouterDeclines, RouterAsks, RouterDenies, RouterQueries, RouterReports, lockVars, Cleared,
     hostVars
<1>3. \A p \in { "401", "404", "200", "500" } : Bytes(p) # Bytes("valid")
  BY NoVerdict DEF Payloads
<1>4. Fails("PluginError") # Bytes("valid")
  BY NoVerdict DEF Results, Errors
<1>5. DefaultTimeout \in Int
  BY BusAssumption
<1>6. \/ UNCHANGED call
      \/ call' = [ call EXCEPT ![n] = NoCall ]
      \/ \E c : /\ k[1] \in Cleared \/ c \in Harmless
                /\ call' = [ call EXCEPT ![n] = Dispatched(c, Star, DefaultTimeout) ]
  <2>1. CASE RouterAsks(k)
    BY <2>1 DEF RouterAsks, Asks, Harmless
  <2>2. CASE RouterQueries(k)
    <3>1. k[1] \in Cleared
      BY <1>1, <2>2 DEF RouterQueries, AnswerOf, CallsOK, CallOK, Backed
    <3>2. \/ call' = [ call EXCEPT ![n] = NoCall ]
          \/ \E c : call' = [ call EXCEPT ![n] = Dispatched(c, Star, DefaultTimeout) ]
      BY <2>2 DEF RouterQueries, Asks, Hangs
    <3> QED
      BY <3>1, <3>2
  <2>3. CASE RouterDeclines(k) \/ RouterDenies(k) \/ RouterReports(k)
    BY <2>3 DEF RouterDeclines, RouterDenies, RouterReports, Hangs
  <2> QED
    BY <2>1, <2>2, <2>3
<1>7. CallsOK'
  <2>1. CASE UNCHANGED call
    BY <1>2, <2>1, CallsFrame DEF hostVars
  <2>2. CASE call' = [ call EXCEPT ![n] = NoCall ]
    BY <1>1, <1>2, <2>2, NoCallOK, CallAssign DEF hostVars
  <2>3. ASSUME NEW c, k[1] \in Cleared \/ c \in Harmless,
               call' = [ call EXCEPT ![n] = Dispatched(c, Star, DefaultTimeout) ]
        PROVE  CallsOK'
    <3>1. CallOK(n, Dispatched(c, Star, DefaultTimeout), Cleared, Guarded)
      BY <1>1, <1>5, <2>3, DispatchedOK
    <3> QED
      BY <1>1, <1>2, <2>3, <3>1, CallAssign DEF hostVars
  <2> QED
    BY <1>6, <2>1, <2>2, <2>3
<1>8. \/ \E o : o # Bytes("valid") /\ Replied(k, o)
      \/ \E st : exchange' = [ exchange EXCEPT ![k] = Staged(exchange[k], st) ]
  <2>1. CASE RouterDeclines(k)
    BY <1>3, <1>4, <2>1 DEF RouterDeclines
  <2>2. CASE RouterAsks(k)
    BY <2>2 DEF RouterAsks, Asks, Staged
  <2>3. CASE RouterDenies(k)
    <3>1. Replied(k, Bytes(DenialFor(AnswerOf(k))))
      BY <2>3 DEF RouterDenies
    <3>2. DenialFor(AnswerOf(k)) \in { "401", "500" }
      BY DEF DenialFor
    <3> QED
      BY <1>3, <3>1, <3>2
  <2>4. CASE RouterQueries(k)
    BY <1>3, <2>4 DEF RouterQueries, Asks, Staged
  <2>5. CASE RouterReports(k)
    <3>1. Replied(k, Bytes(IF AnswerOf(k).result = "Ok" THEN "200" ELSE "500"))
      BY <2>5 DEF RouterReports
    <3> QED
      BY <1>3, <3>1
  <2> QED
    BY <2>1, <2>2, <2>3, <2>4, <2>5
<1>9. ExchangesOK'
  <2>1. ASSUME NEW o, o # Bytes("valid"), Replied(k, o) PROVE ExchangesOK'
    BY <1>2, <2>1, RepliedOK DEF hostVars
  <2>2. ASSUME NEW st, exchange' = [ exchange EXCEPT ![k] = Staged(exchange[k], st) ]
        PROVE  ExchangesOK'
    <3>1. ExchangeOK(k, exchange[k], Cleared, Guarded) /\ ShapedExchange(exchange[k])
      BY DEF ExchangesOK, ExchangeOK
    <3>2. /\ ShapedExchange(Staged(exchange[k], st))
          /\ Staged(exchange[k], st).capability = exchange[k].capability
          /\ Staged(exchange[k], st).outcome = exchange[k].outcome
      BY <3>1, ExchangeShape
    <3>3. ExchangeOK(k, Staged(exchange[k], st), Cleared, Guarded)
      BY <3>1, <3>2 DEF ExchangeOK
    <3> QED
      BY <1>2, <2>2, <3>3, ExchangeAssign DEF hostVars
  <2> QED
    BY <1>8, <2>1, <2>2
<1> QED
  BY <1>2, <1>7, <1>9, HistoryFrame DEF hostVars, HandlersOK

\* The other steps of the plugins' wrapper.
LEMMA WrapperSteps ==
    ASSUME ServingInv, NEW k \in Calls, Take(k) \/ Cancel(k) \/ Refuse(k) \/ Swallow(k)
    PROVE  ServingInv'
<1> USE DEF ServingInv
<1>1. UNCHANGED << call, handlers, writer, hostVars >> /\ Cleared' = Cleared
  BY DEF Take, Cancel, Refuse, Swallow, lockVars, Cleared, hostVars
<1>2. ExchangeOK(k, exchange[k], Cleared, Guarded) /\ ShapedExchange(exchange[k])
  BY DEF ExchangesOK, ExchangeOK
<1>3. \/ Replied(k, Fails("PluginError")) \/ Replied(k, Bytes("done"))
      \/ exchange' = [ exchange EXCEPT ![k] = Idle ]
      \/ \E inst : exchange' = [ exchange EXCEPT ![k] = TakenUp(exchange[k], inst) ]
  <2>1. CASE Take(k)
    <3> DEFINE m == exchange[k].by.plugin_name
    <3>1. \/ Replied(k, Fails("PluginError"))
          \/ exchange' = [ exchange EXCEPT ![k].st = "running", ![k].inst = proc[m].inst ]
      BY <2>1 DEF Take
    <3>2. [ exchange EXCEPT ![k].st = "running", ![k].inst = proc[m].inst ]
            = [ exchange EXCEPT ![k] = TakenUp(exchange[k], proc[m].inst) ]
      BY DEF TakenUp, ExchangesOK
    <3> QED
      BY <3>1, <3>2
  <2>2. CASE Cancel(k) \/ Refuse(k) \/ Swallow(k)
    BY <2>2 DEF Cancel, Refuse, Swallow, Quits
  <2> QED
    BY <2>1, <2>2
<1>4. ExchangesOK'
  <2>1. CASE Replied(k, Fails("PluginError")) \/ Replied(k, Bytes("done"))
    <3>1. Fails("PluginError") # Bytes("valid") /\ Bytes("done") # Bytes("valid")
      BY NoVerdict DEF Results, Errors, Payloads
    <3> QED
      BY <1>1, <2>1, <3>1, RepliedOK DEF hostVars
  <2>2. CASE exchange' = [ exchange EXCEPT ![k] = Idle ]
    BY <1>1, <2>2, NoCallOK, ExchangeAssign DEF hostVars
  <2>3. ASSUME NEW inst, exchange' = [ exchange EXCEPT ![k] = TakenUp(exchange[k], inst) ]
        PROVE  ExchangesOK'
    <3>1. /\ ShapedExchange(TakenUp(exchange[k], inst))
          /\ TakenUp(exchange[k], inst).capability = exchange[k].capability
          /\ TakenUp(exchange[k], inst).outcome = exchange[k].outcome
      BY <1>2, ExchangeShape
    <3>2. ExchangeOK(k, TakenUp(exchange[k], inst), Cleared, Guarded)
      BY <1>2, <3>1 DEF ExchangeOK
    <3> QED
      BY <1>1, <2>3, <3>2, ExchangeAssign DEF hostVars
  <2> QED
    BY <1>3, <2>1, <2>2, <2>3
<1> QED
  BY <1>1, <1>4, CallsFrame, HistoryFrame DEF hostVars, HandlersOK

-----------------------------------------------------------------------------
\* The invariant holds at the start ...
LEMMA ServingStarts == Init => ServingInv
<1> SUFFICES ASSUME Init PROVE ServingInv
  OBVIOUS
<1>1. /\ scenario \in Scenarios
      /\ verdict = [ q \in Requests |-> "none" ]
      /\ performed = [ q \in Requests |-> 0 ]
      /\ handlers = {} /\ writer = NoCapability
      /\ call = [ k \in Calls |-> NoCall ]
      /\ exchange = [ k \in Calls |-> Idle ]
  BY DEF Init, NewBus
<1>2. CallsOK /\ ExchangesOK
  BY <1>1, NoCallOK DEF CallsOK, ExchangesOK
<1>3. HistoryOK
  BY <1>1 DEF HistoryOK, ProtectedNeedsVerdict
<1> QED
  BY <1>1, <1>2, <1>3 DEF ServingInv, HandlersOK

\* ... and no step breaks it.
LEMMA ServingStep == ServingInv /\ [Next]_vars => ServingInv'
<1> SUFFICES ASSUME ServingInv, [Next]_vars PROVE ServingInv'
  OBVIOUS
<1>1. CASE \E q \in Requests : Arrival(q) \/ Handler(q) \/ ClientLeaves(q)
  BY <1>1, HandlerSteps
<1>2. CASE \E k \in Calls : Dispatching(k)
  BY <1>2, DispatchSteps
<1>3. CASE \/ \E k \in Calls : HandlerReturns(k)
           \/ InstallHandler /\ UNCHANGED << hostVars, entries, gatewayVars >>
           \/ \E c \in HostCapabilities : HostRegisters(c)
  BY <1>3, HostSteps
<1>4. CASE Tick
  BY <1>4, TickStep
<1>5. CASE \E n \in Plugins : Lifecycle(n)
  BY <1>5, LifecycleSteps
<1>6. CASE \E k \in Calls : PluginStep(k)
  BY <1>6, WrapperSteps, VerifyStep, ExecuteStep, RouterSteps DEF PluginStep
<1>7. CASE \E q \in Requests : DropNested(q)
  <2>1. PICK q \in Requests : DropNested(q)
    BY <1>7
  <2>2. call' = [ call EXCEPT ![Nested(q)] = NoCall ]
        /\ UNCHANGED << handlers, writer, exchange, hostVars >>
    BY <2>1 DEF DropNested
  <2>3. CallsOK'
    BY <2>2, CallIds, NoCallOK, CallAssign DEF ServingInv, hostVars
  <2> QED
    BY <2>2, <2>3, ExchangesFrame, HistoryFrame DEF ServingInv, hostVars, HandlersOK
<1>8. CASE Sweeper \/ UNCHANGED vars
  <2>1. UNCHANGED << call, exchange, handlers, writer, hostVars >>
    BY <1>8 DEF Sweeper, vars, busVars
  <2> QED
    BY <2>1, CallsFrame, ExchangesFrame, HistoryFrame DEF ServingInv, hostVars, HandlersOK
<1> QED
  BY <1>1, <1>2, <1>3, <1>4, <1>5, <1>6, <1>7, <1>8 DEF Next, Kernel, Environment

\* So it holds always.
LEMMA ServingInvariant == Spec => []ServingInv
BY ServingStarts, ServingStep, PTL DEF Spec

-----------------------------------------------------------------------------
\* A call to a plugin is never on its way longer than its deadline and its wait
\* for the connections' lock allow, whatever plugins, clients and restarts do
\* (Bus::dispatch: the timeout is what the deadline left when it was computed).
THEOREM DeadlinesHonoured == Spec => []DeadlineHonoured
<1>1. ASSUME ServingInv PROVE DeadlineHonoured
  <2>1. ASSUME NEW k \in Calls, At(k, "rpc") PROVE call[k].left + call[k].lag >= 0
    <3>1. ShapedCall(call[k]) /\ Timely(call[k]) /\ call[k].pc = "rpc"
      BY <1>1, <2>1 DEF ServingInv, CallsOK, CallOK, At
    <3>2. call[k].timer \in Int /\ call[k].left \in Int /\ call[k].lag \in Int
      BY <3>1 DEF ShapedCall, CallsOver
    <3> QED
      BY <3>1, <3>2 DEF Timely
  <2> QED
    BY <2>1 DEF DeadlineHonoured
<1> QED
  BY <1>1, ServingInvariant, PTL

\* Nothing takes effect for a request that auth stands in front of before
\* auth-jwt has found its token valid, whatever is restarted, lost, late or
\* asked at the same time (declarative_handler, http-router's invoke).
THEOREM VerdictBeforeEffect == Spec => []ProtectedNeedsVerdict
<1>1. ServingInv => ProtectedNeedsVerdict
  BY DEF ServingInv, HistoryOK
<1> QED
  BY <1>1, ServingInvariant, PTL

-----------------------------------------------------------------------------
(***************************************************************************)
(* What a lookup filters out of a list.                                    *)
(***************************************************************************)

\* How far the positions in T go up to i.
UpTo(T, i) == { j \in T : j <= i }

\* A set of numbers has a least one.
LEMMA Least ==
    ASSUME NEW N \in SUBSET Nat, N # {}
    PROVE  \E i \in N : \A j \in N : i <= j
<1>1. PICK i \in N : \A j \in N : ~(<< j, i >> \in OpToRel(<, Nat))
  BY WFMin, NatLessThanWellFounded
<1>2. \A j \in N : << j, i >> \in OpToRel(<, Nat) <=> j < i
  BY DEF OpToRel
<1>3. \A j \in N : ~(j < i) => i <= j
  OBVIOUS
<1> QED
  BY <1>1, <1>2, <1>3

\* The positions of a list are finitely many numbers from 1.
LEMMA SubsetFinite ==
    ASSUME NEW m \in Nat, NEW T \in SUBSET (1 .. m)
    PROVE  /\ IsFiniteSet(T) /\ Cardinality(T) \in Nat
           /\ \A j \in T : j \in Nat /\ 1 <= j /\ j <= m
<1>1. IsFiniteSet(1 .. m)
  BY FS_Interval
<1>2. IsFiniteSet(T)
  BY <1>1, FS_Subset
<1> QED
  BY <1>2, FS_CardinalityType

\* Every rank up to their number is that of one of them: the least position up to
\* which there are that many.
LEMMA RankExists ==
    ASSUME NEW m \in Nat, NEW T \in SUBSET (1 .. m), NEW n \in 1 .. Cardinality(T)
    PROVE  \E i \in T : Cardinality(UpTo(T, i)) = n
<1>1. /\ IsFiniteSet(T) /\ Cardinality(T) \in Nat
      /\ \A j \in T : j \in Nat /\ 1 <= j /\ j <= m
  BY SubsetFinite
<1>2. \A i : IsFiniteSet(UpTo(T, i)) /\ Cardinality(UpTo(T, i)) \in Nat
  BY <1>1, FS_Subset, FS_CardinalityType DEF UpTo
<1> DEFINE N == { i \in Nat : Cardinality(UpTo(T, i)) >= n }
<1>3. m \in N
  <2>1. UpTo(T, m) = T
    BY <1>1 DEF UpTo
  <2> QED
    BY <1>1, <2>1
<1>4. PICK i \in N : \A j \in N : i <= j
  BY <1>3, Least
<1>5. i # 0
  <2>1. UpTo(T, 0) = {}
    <3>1. \A j \in T : ~(j <= 0)
      BY <1>1
    <3> QED
      BY <3>1 DEF UpTo
  <2>2. Cardinality(UpTo(T, 0)) = 0
    BY <2>1, FS_EmptySet
  <2> QED
    BY <2>2
<1>6. i - 1 \in Nat /\ ~(Cardinality(UpTo(T, i - 1)) >= n)
  BY <1>4, <1>5
<1>7. UpTo(T, i) = IF i \in T THEN UpTo(T, i - 1) \cup { i } ELSE UpTo(T, i - 1)
  <2>1. \A j \in T : j <= i <=> j <= i - 1 \/ j = i
    BY <1>1
  <2> QED
    BY <2>1 DEF UpTo
<1>8. i \notin UpTo(T, i - 1)
  BY DEF UpTo
<1>9. /\ i \in T
      /\ Cardinality(UpTo(T, i)) = Cardinality(UpTo(T, i - 1)) + 1
  <2>1. ASSUME i \notin T PROVE FALSE
    <3>1. UpTo(T, i) = UpTo(T, i - 1)
      BY <1>7, <2>1
    <3> QED
      BY <1>4, <1>6, <3>1
  <2>2. UpTo(T, i) = UpTo(T, i - 1) \cup { i }
    BY <1>7, <2>1
  <2> QED
    BY <1>2, <1>8, <2>1, <2>2, FS_AddElement
<1> QED
  <2>1. n \in Nat /\ Cardinality(UpTo(T, i)) >= n
    BY <1>1, <1>4
  <2>2. Cardinality(UpTo(T, i - 1)) < n
    BY <1>2, <1>6, <2>1
  <2> QED
    BY <1>2, <1>9, <2>1, <2>2

\* A filtered list holds nothing but what the list holds at the chosen positions.
LEMMA FilteredIs ==
    ASSUME NEW S, NEW s \in Seq(S), NEW T \in SUBSET DOMAIN s
    PROVE  /\ Filtered(s, T) \in Seq(S)
           /\ Len(Filtered(s, T)) = Cardinality(T) /\ Cardinality(T) \in Nat
           /\ Filtered(s, T) # << >> => Len(Filtered(s, T)) > 0
           /\ \A n \in 1 .. Len(Filtered(s, T)) : \E i \in T : Filtered(s, T)[n] = s[i]
<1>1. Len(s) \in Nat /\ T \in SUBSET (1 .. Len(s))
  OBVIOUS
<1>2. Cardinality(T) \in Nat
  BY <1>1, SubsetFinite
<1> DEFINE Ranked(n) == CHOOSE i \in T : Cardinality({ j \in T : j <= i }) = n
<1>3. ASSUME NEW n \in 1 .. Cardinality(T) PROVE Ranked(n) \in T
  <2>1. \E i \in T : Cardinality(UpTo(T, i)) = n
    BY <1>1, <1>3, RankExists
  <2>2. PICK i \in T : Cardinality({ j \in T : j <= i }) = n
    BY <2>1, Zenon DEF UpTo
  <2> QED
    BY <2>2, Zenon
<1>4. Filtered(s, T) = [ n \in 1 .. Cardinality(T) |-> s[Ranked(n)] ]
  BY DEF Filtered
<1> HIDE DEF Ranked
<1>5. \A n \in 1 .. Cardinality(T) : s[Ranked(n)] \in S
  BY <1>3
<1>6. Filtered(s, T) \in Seq(S) /\ Len(Filtered(s, T)) = Cardinality(T)
  BY <1>2, <1>4, <1>5
<1>7. \A n \in 1 .. Cardinality(T) : Filtered(s, T)[n] = s[Ranked(n)]
  BY <1>4
<1> QED
  BY <1>2, <1>3, <1>6, <1>7

-----------------------------------------------------------------------------
(***************************************************************************)
(* Who serves what.  A handle that the registry or a call holds is that of *)
(* an earlier instance of its plugin, or of the instance of now, which     *)
(* then offers what the handle was found for.                              *)
(***************************************************************************)

\* Of these processes, the one behind the handle, if it still is, offers this.
Offered(processes, h, c, versions) ==
    LET p == processes[h.plugin_name]
    IN /\ h \in Handles
       /\ h.instance_id <= p.inst
       /\ h.instance_id = p.inst => c \in DOMAIN p.offer /\ p.offer[c] \in versions

Serves(h, c, versions) == Offered(proc, h, c, versions)

\* The plugins and their processes; one that was started has an instance id.
ProcessesOK ==
    /\ DOMAIN proc = Plugins
    /\ \A n \in Plugins : /\ proc[n] \in Processes(n)
                          /\ proc[n].st = "started" => proc[n].inst \in Instances

\* Who is listed for a capability serves the version he is listed with.
EntriesOK ==
    /\ RegistryTypeOK
    /\ \A c \in Capabilities : \A i \in DOMAIN inner[c] :
          Serves(inner[c][i].plugin_handle, c, { inner[c][i].version })

\* Only a call that is none, or over, asks for nothing.
ProperCalls ==
    { r \in CallRecords : r.pc \notin { "none", "ended" } => r.capability \in Capabilities }

\* Who a call was given to serves what it asks for.
Placed(r) == r.pc \in { "resolved", "rpc" }
CallsServed ==
    /\ call \in [ Calls -> ProperCalls ]
    /\ \A k \in Calls : Placed(call[k]) =>
          Serves(call[k].handle, call[k].capability, call[k].constraint)

\* An exchange is with the plugin of its handle; a process that works on it is the
\* plugin's process of now, since the exchanges of an earlier one broke with it.
Busy == { "running", "asking", "querying" }
Held(x) ==
    /\ x.st # "idle" => x.by \in Handles
    /\ x.st \in Busy => x.inst = proc[x.by.plugin_name].inst
Linked(x, r) == r.pc = "rpc" => x.st # "idle" /\ x.by = r.handle

ExchangesServed ==
    /\ exchange \in [ Calls -> Exchanges ]
    /\ \A k \in Calls : Held(exchange[k]) /\ Linked(exchange[k], call[k])

\* The connections and the read guards.
TablesOK == connections \subseteq Handles /\ guards \subseteq Calls

\* Only a request with a route waits for its auth capability.
HandlersTyped ==
    /\ RateLimiterTypeOK
    /\ stage \in [ Requests -> Stages ]
    /\ answer \in [ Requests -> [ code : Codes, payload : Payloads ] ]
    /\ \A q \in Requests : stage[q] = "auth" => RouteOf(q) # NoRoute

\* All of it.
ServedInv ==
    /\ ProcessesOK /\ EntriesOK /\ CallsServed /\ ExchangesServed /\ TablesOK /\ HandlersTyped

\* It is what the two properties need.
LEMMA ServedSuffices == ServingInv /\ ServedInv => TypeOK /\ ServedAsAsked
<1> SUFFICES ASSUME ServingInv, ServedInv PROVE TypeOK /\ ServedAsAsked
  OBVIOUS
<1>1. handlers \subseteq Capabilities /\ writer \in Capabilities \cup { NoCapability }
  BY ServingAssumption DEF ServingInv, HandlersOK
<1>2. TypeOK
  BY <1>1 DEF ServingInv, ServedInv, ProcessesOK, EntriesOK, CallsServed, ExchangesServed, TablesOK,
     ProperCalls, HandlersTyped, HistoryOK, TypeOK, BusTypeOK, HostTypeOK
<1>3. ASSUME NEW k \in Calls, At(k, "rpc"), exchange[k].st \in Busy,
             exchange[k].inst = call[k].handle.instance_id
      PROVE  /\ exchange[k].by = call[k].handle
             /\ proc[exchange[k].by.plugin_name].offer[call[k].capability] \in call[k].constraint
  <2> DEFINE h == call[k].handle
  <2>1. exchange[k].by = h /\ exchange[k].inst = proc[h.plugin_name].inst
    BY <1>3 DEF ServedInv, ExchangesServed, Held, Linked, At
  <2>2. Serves(h, call[k].capability, call[k].constraint)
    BY <1>3 DEF ServedInv, CallsServed, Placed, At
  <2>3. h.instance_id = proc[h.plugin_name].inst
    BY <1>3, <2>1
  <2> QED
    BY <2>1, <2>2, <2>3 DEF Serves, Offered
<1> QED
  BY <1>2, <1>3 DEF ServedAsAsked, Busy

-----------------------------------------------------------------------------
\* The calls and exchanges there are, with their types.
LEMMA NoCallType == NoCall \in ProperCalls /\ ~Placed(NoCall) /\ NoCall.pc # "rpc"
BY BusAssumption DEF NoCall, ProperCalls, CallRecords, CallPcs, Placed, Fails, Outcomes, Results,
   Errors, Payloads, Constraints, Star

\* An error and a payload are outcomes.
LEMMA OutcomeTypes ==
    /\ \A e \in Results : Fails(e) \in Outcomes
    /\ \A p \in Payloads : Bytes(p) \in Outcomes
BY DEF Fails, Bytes, Outcomes, Results, Errors, Payloads

\* A call that has ended ...
LEMMA EndedType ==
    ASSUME NEW o \in Outcomes
    PROVE  Ended(o) \in ProperCalls /\ ~Placed(Ended(o)) /\ Ended(o).pc # "rpc"
<1>1. NoCall \in CallRecords
  BY NoCallType DEF ProperCalls
<1>2. Ended(o) \in CallRecords
  BY <1>1, Zenon DEF Ended, CallRecords, CallPcs
<1>3. Ended(o).pc = "ended"
  BY <1>1 DEF Ended, CallRecords
<1> QED
  BY <1>2, <1>3 DEF Placed, ProperCalls

\* ... one that sets out ...
LEMMA DispatchedType ==
    ASSUME NEW c \in Capabilities, NEW con \in Constraints, NEW budget \in Int
    PROVE  LET r == Dispatched(c, con, budget)
           IN r \in ProperCalls /\ ~Placed(r) /\ r.pc # "rpc"
<1>1. NoCall \in CallRecords
  BY NoCallType DEF ProperCalls
<1>2. CASE budget = 0
  <2>1. Fails("DeadlineExceeded") \in Outcomes
    BY OutcomeTypes DEF Results, Errors
  <2> QED
    BY <1>2, <2>1, EndedType DEF Dispatched
<1>3. CASE budget # 0
  <2> DEFINE r == SetOut(c, con, budget)
  <2>1. Dispatched(c, con, budget) = r
    BY <1>3 DEF Dispatched, SetOut
  <2>2. r \in CallRecords
    BY <1>1, Zenon DEF SetOut, CallRecords, CallPcs
  <2>3. r.pc = "arrived" /\ r.capability = c
    BY <1>1 DEF SetOut, CallRecords
  <2> HIDE DEF r
  <2> QED
    BY <2>1, <2>2, <2>3 DEF Placed, ProperCalls
<1> QED
  BY <1>2, <1>3

\* ... one that goes on ...
LEMMA MovedType ==
    ASSUME NEW r \in ProperCalls, r.capability \in Capabilities, NEW pc \in CallPcs
    PROVE  /\ Moved(r, pc) \in ProperCalls /\ Moved(r, pc).pc = pc
           /\ Moved(r, pc).handle = r.handle /\ Moved(r, pc).capability = r.capability
           /\ Moved(r, pc).constraint = r.constraint
<1>1. r \in CallRecords
  BY DEF ProperCalls
<1>2. Moved(r, pc) \in CallRecords
  BY <1>1, Zenon DEF Moved, CallRecords
<1>3. /\ Moved(r, pc).pc = pc
      /\ Moved(r, pc).handle = r.handle /\ Moved(r, pc).capability = r.capability
      /\ Moved(r, pc).constraint = r.constraint
  BY <1>1 DEF Moved, CallRecords
<1> QED
  BY <1>2, <1>3 DEF ProperCalls

\* ... one that has found its plugin ...
LEMMA TimedType ==
    ASSUME NEW r \in ProperCalls, r.capability \in Capabilities,
           NEW timer \in Nat, NEW h \in Handles
    PROVE  LET t == Timed(r, timer, h)
           IN /\ t \in ProperCalls /\ t.pc = "resolved" /\ t.handle = h
              /\ t.capability = r.capability /\ t.constraint = r.constraint
<1> DEFINE t == Timed(r, timer, h)
<1>1. r \in CallRecords
  BY DEF ProperCalls
<1>2. t \in CallRecords
  BY <1>1, Zenon DEF Timed, CallRecords, CallPcs
<1>3. /\ t.pc = "resolved" /\ t.handle = h
      /\ t.capability = r.capability /\ t.constraint = r.constraint
  BY <1>1 DEF Timed, CallRecords
<1> HIDE DEF t
<1>4. t \in ProperCalls
  BY <1>2, <1>3 DEF ProperCalls
<1> QED
  BY <1>3, <1>4 DEF t

\* ... and one for which time passes.
LEMMA PassedType ==
    ASSUME NEW r \in ProperCalls, r.pc = "rpc" => r.timer > 0, r.pc = "resolved" => r.lag < MaxLag
    PROVE  LET p == Passed(r)
           IN /\ p \in ProperCalls /\ p.pc = r.pc /\ p.handle = r.handle
              /\ p.capability = r.capability /\ p.constraint = r.constraint
<1>1. /\ r \in CallRecords
      /\ r.left \in Int /\ r.timer \in Nat /\ r.lag \in 0 .. MaxLag /\ MaxLag \in Nat
  BY BusAssumption DEF ProperCalls, CallRecords
<1>2. CASE r.pc \in { "arrived", "local" }
  <2> DEFINE n == IF r.left > 0 THEN r.left - 1 ELSE 0
  <2>1. Passed(r) = [ r EXCEPT !.left = n ] /\ n \in Int
    BY <1>1, <1>2 DEF Passed
  <2> HIDE DEF n
  <2>2. Passed(r) \in CallRecords
    BY <1>1, <2>1, Zenon DEF CallRecords
  <2> QED
    BY <1>1, <2>1, <2>2 DEF CallRecords, ProperCalls
<1>3. CASE r.pc = "resolved"
  <2> DEFINE n == r.left - 1
             g == r.lag + 1
  <2>1. Passed(r) = [ r EXCEPT !.left = n, !.lag = g ] /\ n \in Int /\ g \in 0 .. MaxLag
    BY <1>1, <1>3 DEF Passed
  <2> HIDE DEF n, g
  <2>2. Passed(r) \in CallRecords
    BY <1>1, <2>1, Zenon DEF CallRecords
  <2> QED
    BY <1>1, <2>1, <2>2 DEF CallRecords, ProperCalls
<1>4. CASE r.pc = "rpc"
  <2> DEFINE n == r.left - 1
             t == r.timer - 1
  <2>1. Passed(r) = [ r EXCEPT !.left = n, !.timer = t ] /\ n \in Int /\ t \in Nat
    BY <1>1, <1>4 DEF Passed
  <2> HIDE DEF n, t
  <2>2. Passed(r) \in CallRecords
    BY <1>1, <2>1, Zenon DEF CallRecords
  <2> QED
    BY <1>1, <2>1, <2>2 DEF CallRecords, ProperCalls
<1>5. CASE r.pc \notin { "arrived", "local", "resolved", "rpc" }
  BY <1>5 DEF Passed
<1> QED
  BY <1>2, <1>3, <1>4, <1>5

\* An exchange at its begin ...
LEMMA ExchangeTypes ==
    /\ Idle \in Exchanges /\ Idle.st = "idle"
    /\ \A c \in Capabilities \cup { NoCapability }, h \in Handles :
          /\ Sent(c, h) \in Exchanges /\ Sent(c, h).st = "sent" /\ Sent(c, h).by = h
<1>1. Idle \in Exchanges /\ Idle.st = "idle"
  BY OutcomeTypes DEF Idle, Exchanges, ExchangeStates, Results, Errors
<1>2. ASSUME NEW c \in Capabilities \cup { NoCapability }, NEW h \in Handles
      PROVE  Sent(c, h) \in Exchanges /\ Sent(c, h).st = "sent" /\ Sent(c, h).by = h
  <2>1. Sent(c, h) \in Exchanges
    BY <1>1, Zenon DEF Sent, Exchanges, ExchangeStates
  <2> QED
    BY <1>1, <2>1 DEF Sent, Exchanges
<1> QED
  BY <1>1, <1>2

\* ... and later.
LEMMA ExchangeMoves ==
    ASSUME NEW x \in Exchanges, NEW st \in ExchangeStates, NEW inst \in Nat, NEW o \in Outcomes
    PROVE  /\ Staged(x, st) \in Exchanges /\ TakenUp(x, inst) \in Exchanges
           /\ Settled(x, o) \in Exchanges
           /\ Staged(x, st).st = st /\ Staged(x, st).by = x.by /\ Staged(x, st).inst = x.inst
           /\ TakenUp(x, inst).st = "running" /\ TakenUp(x, inst).by = x.by
           /\ TakenUp(x, inst).inst = inst
           /\ Settled(x, o).st = "replied" /\ Settled(x, o).by = x.by
<1>1. Staged(x, st) \in Exchanges
  BY Zenon DEF Staged, Exchanges
<1>2. TakenUp(x, inst) \in Exchanges
  BY Zenon DEF TakenUp, Exchanges, ExchangeStates
<1>3. Settled(x, o) \in Exchanges
  BY Zenon DEF Settled, Exchanges, ExchangeStates
<1> QED
  BY <1>1, <1>2, <1>3 DEF Staged, TakenUp, Settled, Exchanges

-----------------------------------------------------------------------------
\* A call, or an exchange, or both in the place of others.
LEMMA Put ==
    ASSUME CallsServed, ExchangesServed, UNCHANGED proc,
           NEW k \in Calls, NEW r \in ProperCalls,
           Placed(r) => Serves(r.handle, r.capability, r.constraint),
           call' = [ call EXCEPT ![k] = r ],
           NEW j \in Calls, NEW x \in Exchanges, Held(x), Linked(x, call'[j]),
           exchange' = [ exchange EXCEPT ![j] = x ],
           r.pc = "rpc" => j = k
    PROVE  CallsServed' /\ ExchangesServed'
<1>1. call' \in [ Calls -> ProperCalls ] /\ exchange' \in [ Calls -> Exchanges ]
  BY DEF CallsServed, ExchangesServed
<1>2. \A i \in Calls : call'[i] = IF i = k THEN r ELSE call[i]
  BY DEF CallsServed
<1>3. \A i \in Calls : exchange'[i] = IF i = j THEN x ELSE exchange[i]
  BY DEF ExchangesServed
<1>4. \A h, c, versions : Serves(h, c, versions)' <=> Serves(h, c, versions)
  BY DEF Serves
<1>5. \A y : Held(y)' <=> Held(y)
  BY DEF Held
<1>6. ASSUME NEW i \in Calls, Placed(call'[i])
      PROVE  Serves(call'[i].handle, call'[i].capability, call'[i].constraint)
  BY <1>2, <1>6 DEF CallsServed
<1>7. ASSUME NEW i \in Calls PROVE Held(exchange'[i]) /\ Linked(exchange'[i], call'[i])
  <2>1. CASE i = j
    BY <1>3, <2>1
  <2>2. CASE i # j
    <3>1. exchange'[i] = exchange[i] /\ (call'[i] = call[i] \/ call'[i].pc # "rpc")
      BY <1>2, <1>3, <2>2
    <3> QED
      BY <3>1 DEF ExchangesServed, Linked
  <2> QED
    BY <2>1, <2>2
<1>8. CallsServed'
  BY <1>1, <1>4, <1>6 DEF CallsServed, Placed
<1> QED
  BY <1>1, <1>5, <1>7, <1>8 DEF ExchangesServed, Linked

\* A call in the place of another, one that is not with its plugin.
LEMMA PutCall ==
    ASSUME CallsServed, ExchangesServed, UNCHANGED << proc, exchange >>,
           NEW k \in Calls, NEW r \in ProperCalls, r.pc # "rpc",
           Placed(r) => Serves(r.handle, r.capability, r.constraint),
           call' = [ call EXCEPT ![k] = r ]
    PROVE  CallsServed' /\ ExchangesServed'
<1> DEFINE x == exchange[k]
<1>1. x \in Exchanges /\ Held(x) /\ exchange' = [ exchange EXCEPT ![k] = x ]
  BY DEF ExchangesServed
<1>2. Linked(x, call'[k])
  BY DEF CallsServed, Linked
<1> HIDE DEF x
<1> QED
  BY <1>1, <1>2, Put

\* An exchange in the place of another, still that of its call.
LEMMA PutExchange ==
    ASSUME CallsServed, ExchangesServed, UNCHANGED << proc, call >>,
           NEW k \in Calls, NEW x \in Exchanges, Held(x), Linked(x, call[k]),
           exchange' = [ exchange EXCEPT ![k] = x ]
    PROVE  CallsServed' /\ ExchangesServed'
<1> DEFINE r == call[k]
<1>1. r \in ProperCalls /\ call' = [ call EXCEPT ![k] = r ] /\ call' = call
  BY DEF CallsServed
<1>2. Placed(r) => Serves(r.handle, r.capability, r.constraint)
  BY DEF CallsServed
<1> HIDE DEF r
<1> QED
  BY <1>1, <1>2, Put DEF r

\* A plugin's answer, to a caller or to nobody.
LEMMA AnswerHeld ==
    ASSUME ExchangesServed, NEW k \in Calls, NEW o \in Outcomes, Replied(k, o)
    PROVE  \E x \in Exchanges : /\ exchange' = [ exchange EXCEPT ![k] = x ]
                                /\ Held(x) /\ Linked(x, call[k])
<1> DEFINE x == IF At(k, "rpc") THEN Settled(exchange[k], o) ELSE Idle
<1>1. exchange' = [ exchange EXCEPT ![k] = x ]
  BY DEF Replied, Settled
<1>2. exchange[k] \in Exchanges /\ Held(exchange[k]) /\ Linked(exchange[k], call[k])
  BY DEF ExchangesServed
<1>3. CASE At(k, "rpc")
  <2>1. /\ Settled(exchange[k], o) \in Exchanges
        /\ Settled(exchange[k], o).st = "replied"
        /\ Settled(exchange[k], o).by = exchange[k].by
    BY <1>2, ExchangeMoves DEF ExchangeStates
  <2>2. Held(Settled(exchange[k], o)) /\ Linked(Settled(exchange[k], o), call[k])
    BY <1>2, <1>3, <2>1 DEF Held, Linked, At, Busy
  <2> QED
    BY <1>1, <1>3, <2>1, <2>2
<1>4. CASE ~At(k, "rpc")
  <2>1. Held(Idle) /\ Linked(Idle, call[k])
    BY <1>4, ExchangeTypes DEF Held, Linked, At, Busy
  <2> QED
    BY <1>1, <1>4, <2>1, ExchangeTypes
<1> QED
  BY <1>3, <1>4

\* What stays the same stays well.
LEMMA EntriesFrame ==
    ASSUME EntriesOK, UNCHANGED << inner, resolution, proc >>,
           rr_counter' \in [ Capabilities -> 0 .. CounterSize - 1 ]
    PROVE  EntriesOK'
BY DEF EntriesOK, RegistryTypeOK, Serves

\* The same for calls and exchanges ...
LEMMA ServedFrame ==
    ASSUME CallsServed, ExchangesServed, UNCHANGED << call, exchange, proc >>
    PROVE  CallsServed' /\ ExchangesServed'
BY DEF CallsServed, ExchangesServed, Serves, Held, Linked, Placed

\* ... for the processes ...
LEMMA ProcessesFrame == ProcessesOK /\ UNCHANGED proc => ProcessesOK'
BY DEF ProcessesOK, Processes

\* ... and for the handlers.
LEMMA GatewayFrame ==
    ASSUME HandlersTyped, UNCHANGED << entries, gatewayVars, scenario >>
    PROVE  HandlersTyped'
<1>1. \A q : RouteOf(q)' = RouteOf(q)
  BY DEF RouteOf, Taken, Matches, Work
<1> QED
  BY <1>1 DEF HandlersTyped, RateLimiterTypeOK, gatewayVars

\* The limiter keeps entries.
LEMMA LimiterKeeps ==
    ASSUME RateLimiterTypeOK, Sweep \/ Ages \/ (\E ip \in Clients : Check(ip))
    PROVE  RateLimiterTypeOK'
<1> USE RateLimiterAssumption
<1>1. ASSUME NEW ip \in Clients PROVE Checked(ip) \in RateLimitEntries
  BY DEF RateLimiterTypeOK, RateLimitEntries, Checked, Raised
<1>2. ASSUME NEW ip \in Clients
      PROVE  /\ Older(entries[ip]) \in RateLimitEntries \cup { NoEntry }
             /\ Swept(entries[ip]) \in RateLimitEntries \cup { NoEntry }
  <2>1. entries[ip] \in RateLimitEntries \cup { NoEntry }
    BY DEF RateLimiterTypeOK
  <2> QED
    BY <2>1 DEF Older, Swept, IsOver, RateLimitEntries
<1> QED
  BY <1>1, <1>2 DEF RateLimiterTypeOK, Sweep, Ages, Check

-----------------------------------------------------------------------------
\* What clients ask for, and what a route names.
LEMMA WorkType ==
    ASSUME scenario \in Scenarios, NEW q \in Requests
    PROVE  /\ Work(q).client \in Clients /\ Work(q).capability \in Capabilities
           /\ Work(q).budget \in Int
<1>1. scenario.work \in [ Requests -> [ via : Vias, client : Clients,
                                   capability : Capabilities, budget : 0 .. DefaultTimeout,
                                   method : Verbs, path : Seq(STRING), token : Tokens,
                                   body : Bodies, verb : Verbs ] ]
  BY ServingAssumption
<1>2. /\ Work(q).client \in Clients /\ Work(q).capability \in Capabilities
      /\ Work(q).budget \in 0 .. DefaultTimeout
  BY <1>1 DEF Work
<1> QED
  BY <1>2, BusAssumption

\* A route names capabilities and the versions it accepts.
LEMMA RouteType ==
    ASSUME NEW q, RouteOf(q) # NoRoute,
           NEW t \in { RouteOf(q).auth, RouteOf(q).target }
    PROVE  t.capability \in Capabilities /\ ConstraintOf(t) \in Constraints
<1>1. \E i \in DOMAIN Routes : Taken(i, q)
  BY DEF RouteOf
<1>2. PICK i \in DOMAIN Routes : RouteOf(q) = Routes[i]
  BY <1>1 DEF RouteOf
<1>3. t.capability \in Capabilities /\ t.versions \subseteq Versions
  BY <1>2, ServingAssumption
<1> QED
  BY <1>3 DEF ConstraintOf, Constraints, Star

\* An outcome has a status.
LEMMA StatusType ==
    ASSUME NEW o \in Outcomes
    PROVE  StatusOf(o) \in Codes /\ o.payload \in Payloads
BY DEF StatusOf, Outcomes, Results, Errors, Codes

\* A handler's call: none, or one for what its request or its route names.
LEMMA HandlerCalls ==
    ASSUME scenario \in Scenarios, HandlersTyped, NEW q \in Requests,
           Arrival(q) \/ Handler(q) \/ ClientLeaves(q)
    PROVE  \/ UNCHANGED call
           \/ \E r \in ProperCalls : /\ ~Placed(r) /\ r.pc # "rpc"
                                     /\ call' = [ call EXCEPT ![Outer(q)] = r ]
<1>1. Work(q).capability \in Capabilities /\ Work(q).budget \in Int /\ Star \in Constraints
  BY WorkType DEF Star, Constraints
<1>2. DefaultTimeout \in Int /\ AuthTimeout \in Int
  BY BusAssumption, ServingAssumption
<1>3. CASE RejectTooLarge(q)
  BY <1>3 DEF RejectTooLarge, Rejects
<1>4. CASE HttpInvoke(q) \/ GrpcInvoke(q)
  <2>1. \/ UNCHANGED call
        \/ Dispatches(q, Work(q).capability, Star, Work(q).budget)
    BY <1>4 DEF HttpInvoke, GrpcInvoke, Rejects
  <2> QED
    BY <1>1, <2>1, DispatchedType DEF Dispatches
<1>5. ASSUME RouteOf(q) # NoRoute, DispatchesAuth(q) \/ DispatchesTarget(q)
      PROVE  \E r \in ProperCalls : /\ ~Placed(r) /\ r.pc # "rpc"
                                    /\ call' = [ call EXCEPT ![Outer(q)] = r ]
  <2>1. PICK t \in { RouteOf(q).auth, RouteOf(q).target }, budget \in Int :
           Dispatches(q, t.capability, ConstraintOf(t), budget)
    BY <1>2, <1>5 DEF DispatchesAuth, DispatchesTarget
  <2>2. t.capability \in Capabilities /\ ConstraintOf(t) \in Constraints
    BY <1>5, RouteType
  <2> QED
    BY <2>1, <2>2, DispatchedType DEF Dispatches
<1>6. CASE DeclarativeRoute(q)
  <2>1. UNCHANGED call \/ (RouteOf(q) # NoRoute /\ (DispatchesAuth(q) \/ DispatchesTarget(q)))
    BY <1>6 DEF DeclarativeRoute, Rejects
  <2> QED
    BY <1>5, <2>1
<1>7. CASE AuthAnswered(q)
  <2>1. RouteOf(q) # NoRoute
    BY <1>7 DEF AuthAnswered, HandlersTyped
  <2>2. DispatchesTarget(q) \/ call' = [ call EXCEPT ![Outer(q)] = NoCall ]
    BY <1>7 DEF AuthAnswered
  <2> QED
    BY <1>5, <2>1, <2>2, NoCallType
<1>8. CASE TargetAnswered(q) \/ ClientLeaves(q)
  BY <1>8, NoCallType DEF TargetAnswered, ClientLeaves
<1> QED
  BY <1>3, <1>4, <1>6, <1>7, <1>8 DEF Arrival, Handler

\* Its stage and its answer.
LEMMA HandlerStages ==
    ASSUME scenario \in Scenarios, HandlersTyped, CallsServed, NEW q \in Requests,
           Arrival(q) \/ Handler(q) \/ ClientLeaves(q)
    PROVE  HandlersTyped'
<1>1. \/ \E to \in { "auth", "target" } : Advances(q, to) /\ (to = "auth" => RouteOf(q) # NoRoute)
      \/ \E a \in [ code : Codes, payload : Payloads ] : Answers(q, a)
  <2>1. \A code \in Codes :
           [ code |-> code, payload |-> "none" ] \in [ code : Codes, payload : Payloads ]
    BY DEF Payloads
  <2>2. CASE Arrival(q)
    <3>1. \/ \E to \in { "auth", "target" } :
                Advances(q, to) /\ (to = "auth" => RouteOf(q) # NoRoute)
          \/ \E code \in { "400", "404", "413", "429" } :
                Answers(q, [ code |-> code, payload |-> "none" ])
      BY <2>2 DEF Arrival, RejectTooLarge, HttpInvoke, GrpcInvoke, DeclarativeRoute, Rejects,
         DispatchesAuth, DispatchesTarget
    <3> QED
      BY <2>1, <3>1 DEF Codes
  <2>3. CASE AuthAnswered(q)
    BY <2>1, <2>3 DEF AuthAnswered, DispatchesTarget, Codes
  <2>4. CASE TargetAnswered(q)
    <3>1. Outer(q) \in Calls /\ call[Outer(q)].outcome \in Outcomes
      BY CallIds DEF CallsServed, ProperCalls, CallRecords
    <3> QED
      BY <2>4, <3>1, StatusType DEF TargetAnswered
  <2>5. CASE ClientLeaves(q)
    BY <2>1, <2>5 DEF ClientLeaves, Codes
  <2> QED
    BY <2>2, <2>3, <2>4, <2>5 DEF Handler
<1>2. RateLimiterTypeOK'
  <2>1. UNCHANGED entries \/ (\E ip \in Clients : Check(ip))
    <3>1. HttpInvoke(q) => Check(Work(q).client)
      BY DEF HttpInvoke
    <3> QED
      BY <3>1, WorkType DEF Arrival, RejectTooLarge, GrpcInvoke, DeclarativeRoute, Handler,
         AuthAnswered, TargetAnswered, ClientLeaves
  <2> QED
    BY <2>1, LimiterKeeps DEF HandlersTyped, RateLimiterTypeOK
<1>3. \A p : RouteOf(p)' = RouteOf(p)
  BY DEF RouteOf, Taken, Matches, Work, Arrival, RejectTooLarge, HttpInvoke, GrpcInvoke,
     DeclarativeRoute, Handler, AuthAnswered, TargetAnswered, ClientLeaves, HandlerFrame, hostVars
<1>4. /\ stage' \in [ Requests -> Stages ]
      /\ answer' \in [ Requests -> [ code : Codes, payload : Payloads ] ]
      /\ \A p \in Requests : stage'[p] = "auth" => RouteOf(p) # NoRoute
  BY <1>1 DEF Advances, Answers, HandlersTyped, Stages
<1> QED
  BY <1>2, <1>3, <1>4 DEF HandlersTyped

\* So no step of a handler breaks the invariant ...
LEMMA HandlerServes ==
    ASSUME ServingInv, ServedInv, NEW q \in Requests,
           Arrival(q) \/ Handler(q) \/ ClientLeaves(q)
    PROVE  ServedInv'
<1> USE DEF ServedInv
<1>1. /\ UNCHANGED << registryVars, connections, exchange, hostVars >>
      /\ guards' \subseteq guards
  BY DEF Arrival, RejectTooLarge, HttpInvoke, GrpcInvoke, DeclarativeRoute, Handler, AuthAnswered,
     TargetAnswered, ClientLeaves, HandlerFrame, lockVars
<1>2. scenario \in Scenarios
  BY DEF ServingInv
<1>3. CallsServed' /\ ExchangesServed'
  <2>1. Outer(q) \in Calls
    BY CallIds
  <2>2. CASE UNCHANGED call
    BY <1>1, <2>2, ServedFrame DEF hostVars
  <2>3. ASSUME NEW r \in ProperCalls, ~Placed(r), r.pc # "rpc",
               call' = [ call EXCEPT ![Outer(q)] = r ]
        PROVE  CallsServed' /\ ExchangesServed'
    BY <1>1, <2>1, <2>3, PutCall DEF hostVars
  <2> QED
    BY <1>2, <2>2, <2>3, HandlerCalls
<1>4. HandlersTyped'
  BY <1>2, HandlerStages
<1>5. EntriesOK' /\ ProcessesOK'
  BY <1>1, EntriesFrame, ProcessesFrame DEF registryVars, hostVars, EntriesOK, RegistryTypeOK
<1> QED
  BY <1>1, <1>3, <1>4, <1>5 DEF TablesOK

-----------------------------------------------------------------------------
\* A lookup finds who serves what is asked for.
LEMMA FoundServes ==
    ASSUME EntriesOK, NEW c \in Capabilities, NEW con, Matching(c, con) # << >>
    PROVE  Serves(Found(c, con).plugin_handle, c, con)
<1> DEFINE s == inner[c]
           T == { i \in DOMAIN s : s[i].version \in con }
           m == Matching(c, con)
<1>1. s \in Seq(Entries) /\ rr_counter[c] \in 0 .. CounterSize - 1
  BY DEF EntriesOK, RegistryTypeOK
<1>2. m = Filtered(s, T) /\ T \in SUBSET DOMAIN s
  BY DEF Matching
<1>3. /\ Len(m) \in Nat /\ Len(m) > 0
      /\ \A n \in 1 .. Len(m) : \E i \in T : m[n] = s[i]
  <2>1. Filtered(s, T) # << >>
    BY <1>2
  <2> HIDE DEF s, T, m
  <2> QED
    BY <1>1, <1>2, <2>1, FilteredIs
<1>4. rr_counter[c] \in Nat
  BY <1>1, CounterSizeAssumption
<1>5. TurnOf(c, con) \in 1 .. Len(m)
  BY <1>3, <1>4 DEF TurnOf
<1>6. PICK n \in 1 .. Len(m) : Found(c, con) = m[n]
  BY <1>3, <1>5 DEF Found
<1>7. PICK i \in T : Found(c, con) = s[i]
  BY <1>3, <1>6
<1>8. Serves(s[i].plugin_handle, c, { s[i].version }) /\ s[i].version \in con
  BY DEF EntriesOK
<1> QED
  BY <1>7, <1>8 DEF Serves, Offered

\* The counter of the turns keeps its width.
LEMMA TurnCounts ==
    ASSUME EntriesOK, NEW c \in Capabilities, CountsTurn(c)
    PROVE  rr_counter' \in [ Capabilities -> 0 .. CounterSize - 1 ]
<1>1. rr_counter \in [ Capabilities -> 0 .. CounterSize - 1 ] /\ CounterSize \in Nat \ { 0 }
  BY CounterSizeAssumption DEF EntriesOK, RegistryTypeOK
<1>2. (rr_counter[c] + 1) % CounterSize \in 0 .. CounterSize - 1
  BY <1>1
<1> QED
  BY <1>1, <1>2 DEF CountsTurn

\* ... nor one of a dispatch.
LEMMA DispatchServes ==
    ASSUME ServingInv, ServedInv, NEW k \in Calls, Dispatching(k)
    PROVE  ServedInv'
<1> USE DEF ServedInv
<1> DEFINE r == call[k]
<1>1. UNCHANGED << inner, resolution, connections, hostVars, entries, gatewayVars >>
  BY DEF Dispatching, KernelStep, RunLocal, NothingOffered, Resolve, Send, NotConnected, Respond,
     Expire, Break, registryVars
<1>2. /\ r \in ProperCalls /\ exchange[k] \in Exchanges
      /\ Held(exchange[k]) /\ Linked(exchange[k], r)
      /\ Placed(r) => Serves(r.handle, r.capability, r.constraint)
      /\ r.pc \notin { "none", "ended" } => r.capability \in Capabilities
  BY DEF CallsServed, ExchangesServed, ProperCalls
<1>3. Held(Idle) /\ \A y : y.pc # "rpc" => Linked(Idle, y)
  BY ExchangeTypes DEF Held, Linked, Busy
<1>4. CASE RunLocal(k)
  <2> DEFINE s == Moved(r, "local")
  <2>1. /\ call' = [ call EXCEPT ![k] = s ]
        /\ UNCHANGED << rr_counter, exchange >> /\ guards' = guards \cup { k }
        /\ r.pc = "arrived"
    BY <1>4 DEF RunLocal, Moved, registryVars, Reads, At
  <2>2. s \in ProperCalls /\ s.pc = "local"
    BY <1>2, <2>1, MovedType DEF CallPcs
  <2> HIDE DEF s
  <2>3. CallsServed' /\ ExchangesServed'
    BY <1>1, <2>1, <2>2, PutCall DEF hostVars, Placed
  <2> QED
    BY <1>1, <2>1, <2>3, EntriesFrame, ProcessesFrame, GatewayFrame
       DEF TablesOK, EntriesOK, RegistryTypeOK, hostVars
<1>5. CASE Resolve(k)
  <2> DEFINE c == r.capability
             con == r.constraint
             h == Found(c, con).plugin_handle
  <2>1. /\ Matching(c, con) # << >> /\ CountsTurn(c) /\ c \notin handlers
        /\ r.pc = "arrived"
        /\ call' = [ call EXCEPT ![k] = IF r.left <= 0 THEN Ended(Fails("DeadlineExceeded"))
                                         ELSE Timed(r, Clamped(r.left), h) ]
        /\ UNCHANGED << guards, exchange >>
    BY <1>5 DEF Resolve, Timed, lockVars, Reads, At
  <2>2. c \in Capabilities
    BY <1>2, <2>1
  <2>3. Serves(h, c, con)
    BY <2>1, <2>2, FoundServes
  <2> HIDE DEF h
  <2>4. UNCHANGED << proc, exchange >>
    BY <1>1, <2>1 DEF hostVars
  <2>5. ASSUME r.left <= 0 PROVE CallsServed' /\ ExchangesServed'
    <3> DEFINE t == Ended(Fails("DeadlineExceeded"))
    <3>1. call' = [ call EXCEPT ![k] = t ]
      BY <2>1, <2>5
    <3>2. t \in ProperCalls /\ ~Placed(t) /\ t.pc # "rpc"
      BY EndedType, OutcomeTypes DEF Results, Errors
    <3> HIDE DEF t
    <3> QED
      BY <2>4, <3>1, <3>2, PutCall
  <2>6. ASSUME ~(r.left <= 0) PROVE CallsServed' /\ ExchangesServed'
    <3> DEFINE t == Timed(r, Clamped(r.left), h)
    <3>1. call' = [ call EXCEPT ![k] = t ]
      BY <2>1, <2>6
    <3>2. Clamped(r.left) \in Nat
      BY <1>2, <2>6, BusAssumption DEF ProperCalls, CallRecords, Clamped, Smaller
    <3>3. h \in Handles
      BY <2>3 DEF Serves, Offered
    <3>4. /\ t \in ProperCalls /\ t.pc = "resolved" /\ t.handle = h
          /\ t.capability = c /\ t.constraint = con
      BY <1>2, <2>2, <3>2, <3>3, TimedType
    <3> HIDE DEF t
    <3> QED
      BY <2>3, <2>4, <3>1, <3>4, PutCall
  <2>7. CallsServed' /\ ExchangesServed'
    BY <2>5, <2>6
  <2>8. rr_counter' \in [ Capabilities -> 0 .. CounterSize - 1 ]
    BY <2>1, <2>2, TurnCounts
  <2> QED
    BY <1>1, <2>1, <2>4, <2>7, <2>8, EntriesFrame, ProcessesFrame, GatewayFrame
       DEF TablesOK, hostVars
<1>6. CASE Send(k)
  <2> DEFINE s == Moved(r, "rpc")
             x == Sent(r.capability, r.handle)
  <2>1. /\ call' = [ call EXCEPT ![k] = s ] /\ exchange' = [ exchange EXCEPT ![k] = x ]
        /\ r.pc = "resolved" /\ UNCHANGED << rr_counter, guards >>
    BY <1>6 DEF Send, At, Moved, Sent, registryVars, lockVars
  <2>2. Placed(r) /\ r.handle \in Handles /\ r.capability \in Capabilities
    BY <1>2, <2>1 DEF Placed, Serves, Offered
  <2>3. /\ s \in ProperCalls /\ s.pc = "rpc" /\ s.handle = r.handle
        /\ s.capability = r.capability /\ s.constraint = r.constraint
    BY <1>2, <2>2, MovedType DEF CallPcs
  <2>4. x \in Exchanges /\ x.st = "sent" /\ x.by = r.handle
    BY <2>2, ExchangeTypes
  <2>5. call'[k] = s
    BY <2>1 DEF CallsServed
  <2> HIDE DEF s, x
  <2>6. Held(x) /\ Linked(x, call'[k])
    BY <2>2, <2>3, <2>4, <2>5 DEF Held, Linked, Busy
  <2>7. CallsServed' /\ ExchangesServed'
    BY <1>1, <1>2, <2>1, <2>2, <2>3, <2>4, <2>6, Put DEF hostVars
  <2> QED
    BY <1>1, <2>1, <2>7, EntriesFrame, ProcessesFrame, GatewayFrame
       DEF TablesOK, EntriesOK, RegistryTypeOK, hostVars
<1>7. ASSUME NEW o \in Outcomes, Ends(k, o), Quits(k) \/ UNCHANGED exchange,
             UNCHANGED << rr_counter, guards >>
      PROVE  ServedInv'
  <2>1. Ended(o) \in ProperCalls /\ ~Placed(Ended(o)) /\ Ended(o).pc # "rpc"
    BY <1>7, EndedType
  <2>2. call' = [ call EXCEPT ![k] = Ended(o) ] /\ call'[k] = Ended(o)
    BY <1>7 DEF Ends, CallsServed
  <2>3. CASE Quits(k)
    <3>1. Linked(Idle, call'[k]) /\ Idle \in Exchanges
      BY <1>3, <2>1, <2>2, ExchangeTypes
    <3> QED
      BY <1>1, <1>3, <1>7, <2>1, <2>2, <2>3, <3>1, Put, EntriesFrame, ProcessesFrame, GatewayFrame
         DEF Quits, TablesOK, EntriesOK, RegistryTypeOK, hostVars
  <2>4. CASE UNCHANGED exchange
    BY <1>1, <1>7, <2>1, <2>2, <2>4, PutCall, EntriesFrame, ProcessesFrame, GatewayFrame
       DEF TablesOK, EntriesOK, RegistryTypeOK, hostVars
  <2> QED
    BY <1>7, <2>3, <2>4
<1>8. CASE NothingOffered(k) \/ NotConnected(k) \/ Expire(k) \/ Break(k, Reaches(exchange[k].by))
  <2>1. PICK e \in Results : Ends(k, Fails(e))
    BY <1>8 DEF NothingOffered, NotConnected, Expire, Break, Results, Errors
  <2>2. /\ Quits(k) \/ UNCHANGED exchange
        /\ UNCHANGED << rr_counter, guards >>
    BY <1>8 DEF NothingOffered, NotConnected, Expire, Break, registryVars, lockVars
  <2> QED
    BY <1>7, <2>1, <2>2, OutcomeTypes
<1>9. CASE Respond(k)
  <2>1. exchange[k].outcome \in Outcomes
    BY <1>2 DEF Exchanges
  <2> QED
    BY <1>7, <1>9, <2>1 DEF Respond, registryVars, lockVars
<1> QED
  BY <1>4, <1>5, <1>6, <1>8, <1>9 DEF Dispatching, KernelStep


-----------------------------------------------------------------------------
\* Time passes: no call is at another place, or with another plugin, for it.
LEMMA TickServes ==
    ASSUME ServingInv, ServedInv, Tick
    PROVE  ServedInv'
<1> USE DEF ServedInv
<1>1. /\ TimeMayPass /\ call' = [ k \in Calls |-> Passed(call[k]) ] /\ Ages
      /\ UNCHANGED << registryVars, connections, guards, exchange, hostVars, gatewayVars >>
  BY DEF Tick, Elapse, lockVars
<1>2. UNCHANGED << inner, rr_counter, resolution, proc, scenario, stage, answer >>
  BY <1>1 DEF registryVars, hostVars, gatewayVars
<1>3. ASSUME NEW k \in Calls
      PROVE  /\ call'[k] \in ProperCalls /\ call'[k].pc = call[k].pc
             /\ call'[k].handle = call[k].handle /\ call'[k].capability = call[k].capability
             /\ call'[k].constraint = call[k].constraint
  <2>1. call[k] \in ProperCalls /\ call'[k] = Passed(call[k])
    BY <1>1 DEF CallsServed
  <2>2. /\ call[k].pc = "rpc" => call[k].timer > 0
        /\ call[k].pc = "resolved" => call[k].lag < MaxLag
    BY <1>1 DEF TimeMayPass, At
  <2> QED
    BY <2>1, <2>2, PassedType
<1>4. CallsServed'
  <2>1. call' \in [ Calls -> ProperCalls ]
    BY <1>1, <1>3
  <2>2. \A h, c, versions : Serves(h, c, versions)' <=> Serves(h, c, versions)
    BY <1>2 DEF Serves
  <2>3. ASSUME NEW k \in Calls, Placed(call'[k])
        PROVE  Serves(call'[k].handle, call'[k].capability, call'[k].constraint)
    BY <1>3, <2>3 DEF CallsServed, Placed
  <2> QED
    BY <2>1, <2>2, <2>3 DEF CallsServed, Placed
<1>5. ExchangesServed'
  <2>1. \A k \in Calls : Held(exchange[k])' /\ Linked(exchange[k], call[k])'
    BY <1>1, <1>2, <1>3 DEF ExchangesServed, Held, Linked
  <2> QED
    BY <1>1, <2>1 DEF ExchangesServed
<1>6. HandlersTyped'
  <2>1. \A q : RouteOf(q)' = RouteOf(q)
    BY <1>2 DEF RouteOf, Taken, Matches, Work
  <2> QED
    BY <1>1, <1>2, <2>1, LimiterKeeps DEF HandlersTyped
<1> QED
  BY <1>1, <1>2, <1>4, <1>5, <1>6, EntriesFrame, ProcessesFrame
     DEF TablesOK, EntriesOK, RegistryTypeOK

\* The host's handlers, the sweeper, and a dispatch that its caller drops.
LEMMA HostServes ==
    ASSUME ServingInv, ServedInv,
           \/ \E k \in Calls : HandlerReturns(k)
           \/ InstallHandler /\ UNCHANGED << hostVars, entries, gatewayVars >>
           \/ \E c \in HostCapabilities : HostRegisters(c)
           \/ \E q \in Requests : DropNested(q) /\ UNCHANGED << entries, gatewayVars >>
           \/ Sweeper \/ UNCHANGED vars
    PROVE  ServedInv'
<1> USE DEF ServedInv
<1>1. /\ UNCHANGED << inner, rr_counter, resolution, connections, exchange, proc, scenario >>
      /\ UNCHANGED << stage, answer >> /\ guards' \subseteq guards
  BY DEF HandlerReturns, LocalReturns, InstallHandler, HostRegisters, RegisterHandler, DropNested,
     Sweeper, vars, registryVars, busVars, hostVars, gatewayVars
<1>2. CallsServed' /\ ExchangesServed'
  <2>1. ASSUME NEW k \in Calls, HandlerReturns(k) PROVE CallsServed' /\ ExchangesServed'
    <3>1. PICK o \in LocalOutcomes : LocalReturns(k, o)
      BY <2>1, LocalReturned
    <3> DEFINE r == Ended(o)
    <3>2. call' = [ call EXCEPT ![k] = r ]
      BY <3>1 DEF LocalReturns, Ends
    <3>3. o \in Outcomes
      BY OutcomeTypes DEF LocalOutcomes, Results, Payloads
    <3>4. r \in ProperCalls /\ ~Placed(r) /\ r.pc # "rpc"
      BY <3>3, EndedType
    <3> HIDE DEF r
    <3> QED
      BY <1>1, <3>2, <3>4, PutCall
  <2>2. ASSUME NEW q \in Requests, DropNested(q) PROVE CallsServed' /\ ExchangesServed'
    <3>1. call' = [ call EXCEPT ![Nested(q)] = NoCall ] /\ Nested(q) \in Calls
      BY <2>2, CallIds DEF DropNested
    <3> QED
      BY <1>1, <3>1, NoCallType, PutCall
  <2>3. CASE UNCHANGED call
    BY <1>1, <2>3, ServedFrame
  <2> QED
    BY <2>1, <2>2, <2>3 DEF InstallHandler, HostRegisters, RegisterHandler, Sweeper, vars, busVars
<1>3. HandlersTyped'
  <2>1. UNCHANGED entries \/ Sweep
    BY DEF HandlerReturns, HostRegisters, Sweeper, vars
  <2>2. \A q : RouteOf(q)' = RouteOf(q)
    BY <1>1 DEF RouteOf, Taken, Matches, Work
  <2>3. RateLimiterTypeOK'
    BY <2>1, LimiterKeeps DEF HandlersTyped, RateLimiterTypeOK
  <2> QED
    BY <1>1, <2>2, <2>3 DEF HandlersTyped
<1> QED
  BY <1>1, <1>2, <1>3, EntriesFrame, ProcessesFrame DEF TablesOK, EntriesOK, RegistryTypeOK

-----------------------------------------------------------------------------
\* A plugin's processes change, not what they offer: an instance offers what it
\* offered, the next one is nobody's yet.
Succeeds(n) ==
    /\ \A m \in Plugins \ { n } : proc'[m] = proc[m]
    /\ \/ proc'[n].inst = proc[n].inst /\ proc'[n].offer = proc[n].offer
       \/ proc'[n].inst = proc[n].inst + 1

\* The ids of instances are numbers from 1.
LEMMA InstanceIds == Instances \subseteq Nat /\ 0 \notin Instances /\ 1 \in Instances
BY OffersAssumption

\* A process of a plugin, put together.
LEMMA ProcessIs ==
    ASSUME NEW n, NEW st \in { "off", "started" }, NEW up \in BOOLEAN,
           NEW inst \in Instances \cup { 0 }, NEW starts \in Nat,
           NEW offer \in Offers[n] \cup { << >> }
    PROVE  [ st |-> st, up |-> up, inst |-> inst, starts |-> starts, offer |-> offer ]
              \in Processes(n)
BY DEF Processes

\* Whoever served what was asked for still does, or is a past instance by now.
LEMMA ServesOn ==
    ASSUME ProcessesOK, NEW n \in Plugins, Succeeds(n), NEW h, NEW c, NEW versions,
           Offered(proc, h, c, versions)
    PROVE  Offered(proc', h, c, versions)
<1>1. h \in Handles /\ h.plugin_name \in Plugins /\ h.instance_id \in Nat
  BY InstanceIds DEF Offered, Handles
<1>2. proc[h.plugin_name].inst \in Nat
  <2>1. proc[h.plugin_name].inst \in Instances \cup { 0 }
    BY <1>1 DEF ProcessesOK, Processes
  <2>2. \A i \in Instances \cup { 0 } : i \in Nat
    BY InstanceIds
  <2> QED
    BY <2>1, <2>2, Zenon
<1>3. CASE h.plugin_name # n
  BY <1>1, <1>3 DEF Offered, Succeeds
<1>4. CASE h.plugin_name = n
  BY <1>1, <1>2, <1>4 DEF Offered, Succeeds
<1> QED
  BY <1>3, <1>4

\* So for the calls ...
LEMMA CallsSucceed ==
    ASSUME ProcessesOK, CallsServed, NEW n \in Plugins, Succeeds(n), UNCHANGED call
    PROVE  CallsServed'
<1>1. \A k \in Calls : Placed(call[k]) =>
          Offered(proc', call[k].handle, call[k].capability, call[k].constraint)
  BY ServesOn DEF CallsServed, Serves
<1> QED
  BY <1>1 DEF CallsServed, Placed, Serves

\* ... and for the lists.
LEMMA EntriesSucceed ==
    ASSUME ProcessesOK, EntriesOK, NEW n \in Plugins, Succeeds(n), UNCHANGED registryVars
    PROVE  EntriesOK'
<1>1. \A c \in Capabilities : \A i \in DOMAIN inner[c] :
          Offered(proc', inner[c][i].plugin_handle, c, { inner[c][i].version })
  BY ServesOn DEF EntriesOK, Serves
<1> QED
  BY <1>1 DEF EntriesOK, RegistryTypeOK, registryVars, Serves

\* What a process worked on when it died is no longer with it.
LEMMA LosesServed ==
    ASSUME ProcessesOK, ExchangesServed, NEW n \in Plugins, Succeeds(n), Loses(n), UNCHANGED call
    PROVE  ExchangesServed'
<1>1. ASSUME NEW k \in Calls
      PROVE  exchange'[k] \in Exchanges /\ Held(exchange[k])' /\ Linked(exchange[k], call[k])'
  <2> DEFINE x == exchange[k]
             b == Staged(x, "broken")
  <2>1. x \in Exchanges /\ Held(x) /\ Linked(x, call[k])
    BY DEF ExchangesServed
  <2>2. Fails("NotFound") \in Outcomes
    BY OutcomeTypes DEF Results, Errors
  <2>3. b \in Exchanges /\ b.st = "broken" /\ b.by = x.by
    BY <2>1, <2>2, ExchangeMoves DEF ExchangeStates
  <2>4. x.st # "idle" => x.by # NoHandle /\ x.by.plugin_name \in Plugins
    BY <2>1, BusAssumption DEF Held, Handles
  <2>5. exchange'[k] = IF x.by # NoHandle /\ x.by.plugin_name = n THEN Lost(k) ELSE x
    BY DEF Loses
  <2>6. Lost(k) = IF x.st \in { "idle", "sent" } THEN x
                  ELSE IF call[k].pc = "rpc" THEN b ELSE Idle
    BY DEF Lost, Staged, At
  <2> HIDE DEF x, b
  <2>7. CASE exchange'[k] = x /\ (x.st \in Busy => x.by.plugin_name # n)
    BY <2>1, <2>4, <2>7 DEF Held, Linked, Succeeds, Busy
  <2>8. CASE exchange'[k] = b /\ x.st # "idle"
    BY <2>1, <2>3, <2>8 DEF Held, Linked, Busy
  <2>9. CASE exchange'[k] = Idle /\ call[k].pc # "rpc"
    BY <2>9, ExchangeTypes DEF Held, Linked, Busy
  <2> QED
    BY <2>4, <2>5, <2>6, <2>7, <2>8, <2>9 DEF Busy
<1>2. exchange' \in [ Calls -> Exchanges ]
  BY <1>1 DEF Loses
<1> QED
  BY <1>1, <1>2 DEF ExchangesServed

\* The same where no process died.
LEMMA KeepsServed ==
    ASSUME ExchangesServed, NEW n \in Plugins, Succeeds(n), proc'[n].inst = proc[n].inst,
           UNCHANGED << call, exchange >>
    PROVE  ExchangesServed'
<1>1. ASSUME NEW k \in Calls PROVE Held(exchange[k])' /\ Linked(exchange[k], call[k])'
  <2>1. Held(exchange[k]) /\ Linked(exchange[k], call[k]) /\ UNCHANGED << exchange[k], call[k] >>
    BY DEF ExchangesServed
  <2>2. exchange[k].st \in Busy => exchange[k].by.plugin_name \in Plugins
    BY <2>1 DEF Held, Busy, Handles
  <2> QED
    BY <2>1, <2>2 DEF Held, Linked, Succeeds
<1> QED
  BY <1>1 DEF ExchangesServed

\* What a process offers.
LEMMA OfferType ==
    ASSUME ProcessesOK, NEW n \in Plugins, NEW c \in DOMAIN proc[n].offer
    PROVE  c \in Capabilities /\ proc[n].offer[c] \in Versions
<1>1. proc[n].offer \in Offers[n] \cup { << >> }
  BY DEF ProcessesOK, Processes
<1>2. proc[n].offer # << >>
  OBVIOUS
<1> QED
  BY <1>1, <1>2, OffersAssumption

\* A process registers what it offers.
LEMMA RegistersServes ==
    ASSUME ProcessesOK, EntriesOK, NEW n \in Plugins, Advertise(n)
    PROVE  EntriesOK'
<1>1. PICK c \in Missing(n) : Registers(c, proc[n].offer[c], HandleOf(n))
  BY DEF Advertise
<1>2. /\ proc[n].st = "started" /\ c \in DOMAIN proc[n].offer
      /\ UNCHANGED << rr_counter, resolution, proc >>
  BY <1>1 DEF Advertise, Missing, hostVars
<1>3. c \in Capabilities /\ proc[n].offer[c] \in Versions
  BY <1>2, OfferType
<1>4. HandleOf(n) \in Handles /\ proc[n].inst \in Nat
  BY <1>2, InstanceIds DEF HandleOf, Handles, ProcessesOK
<1> DEFINE e == [ version |-> proc[n].offer[c], plugin_handle |-> HandleOf(n) ]
<1>5. e \in Entries
  BY <1>3, <1>4 DEF Entries
<1>6. Serves(e.plugin_handle, c, { e.version })
  BY <1>2, <1>4 DEF Serves, Offered, HandleOf
<1>7. inner' = [ inner EXCEPT ![c] = Append(inner[c], e) ]
  BY <1>1 DEF Registers
<1> HIDE DEF e
<1>8. inner \in [ Capabilities -> Seq(Entries) ]
  BY DEF EntriesOK, RegistryTypeOK
<1>9. inner' \in [ Capabilities -> Seq(Entries) ]
  BY <1>3, <1>5, <1>7, <1>8
<1>10. ASSUME NEW d \in Capabilities, NEW i \in DOMAIN inner'[d]
       PROVE  Serves(inner'[d][i].plugin_handle, d, { inner'[d][i].version })
  <2>1. CASE d = c
    <3>1. inner'[d] = Append(inner[c], e) /\ inner[c] \in Seq(Entries)
      BY <1>3, <1>7, <1>8, <2>1
    <3>2. \/ i \in DOMAIN inner[c] /\ inner'[d][i] = inner[c][i]
          \/ inner'[d][i] = e
      BY <1>5, <1>10, <3>1
    <3> QED
      BY <1>3, <1>6, <2>1, <3>2 DEF EntriesOK
  <2>2. CASE d # c
    <3>1. inner'[d] = inner[d]
      BY <1>7, <1>8, <2>2
    <3> QED
      BY <1>10, <3>1 DEF EntriesOK
  <2> QED
    BY <2>1, <2>2
<1>11. \A h, d, versions : Serves(h, d, versions)' <=> Serves(h, d, versions)
  BY <1>2 DEF Serves
<1> QED
  BY <1>2, <1>9, <1>10, <1>11 DEF EntriesOK, RegistryTypeOK

\* What is left of a list still is served.
LEMMA DeregistersServes ==
    ASSUME ProcessesOK, EntriesOK, NEW n \in Plugins, Succeeds(n), Deregisters(n),
           UNCHANGED << rr_counter, resolution >>
    PROVE  EntriesOK'
<1>1. inner \in [ Capabilities -> Seq(Entries) ]
  BY DEF EntriesOK, RegistryTypeOK
<1>2. ASSUME NEW c \in Capabilities
      PROVE  /\ inner'[c] \in Seq(Entries)
             /\ \A i \in DOMAIN inner'[c] : \E j \in DOMAIN inner[c] : inner'[c][i] = inner[c][j]
  <2> DEFINE s == inner[c]
             T == { i \in DOMAIN s : s[i].plugin_handle.plugin_name # n }
  <2>1. s \in Seq(Entries) /\ T \in SUBSET DOMAIN s /\ inner'[c] = Filtered(s, T)
    BY <1>1 DEF Deregisters
  <2> HIDE DEF s, T
  <2>2. /\ Filtered(s, T) \in Seq(Entries)
        /\ \A i \in 1 .. Len(Filtered(s, T)) : \E j \in T : Filtered(s, T)[i] = s[j]
    BY <2>1, FilteredIs
  <2>3. \A i \in DOMAIN inner'[c] : \E j \in DOMAIN s : inner'[c][i] = s[j]
    BY <2>1, <2>2
  <2> QED
    BY <2>1, <2>2, <2>3 DEF s
<1>3. inner' \in [ Capabilities -> Seq(Entries) ]
  BY <1>2 DEF Deregisters
<1>4. ASSUME NEW c \in Capabilities, NEW i \in DOMAIN inner'[c]
      PROVE  Offered(proc', inner'[c][i].plugin_handle, c, { inner'[c][i].version })
  <2>1. PICK j \in DOMAIN inner[c] : inner'[c][i] = inner[c][j]
    BY <1>2, <1>4
  <2>2. Offered(proc, inner[c][j].plugin_handle, c, { inner[c][j].version })
    BY DEF EntriesOK, Serves
  <2> QED
    BY <2>1, <2>2, ServesOn
<1> QED
  BY <1>3, <1>4 DEF EntriesOK, RegistryTypeOK, Serves

\* A start: the next instance of the plugin.
LEMMA StartServes ==
    ASSUME ServedInv, NEW n \in Plugins, StartPlugin(n)
    PROVE  ProcessesOK' /\ EntriesOK' /\ CallsServed' /\ ExchangesServed' /\ TablesOK'
<1> USE DEF ServedInv
<1>1. PICK offer \in Offers[n] :
         proc' = [ proc EXCEPT ![n] = [ st |-> "started", up |-> TRUE, inst |-> proc[n].inst + 1,
                                        starts |-> proc[n].starts - 1, offer |-> offer ] ]
  BY DEF StartPlugin
<1>2. /\ proc[n].inst + 1 \in Instances /\ proc[n].starts > 0 /\ Loses(n)
      /\ RegisterConnection(HandleOf(n)')
      /\ UNCHANGED << registryVars, guards, call >>
  BY DEF StartPlugin, lockVars
<1>3. /\ DOMAIN proc' = Plugins
      /\ proc'[n] = [ st |-> "started", up |-> TRUE, inst |-> proc[n].inst + 1,
                      starts |-> proc[n].starts - 1, offer |-> offer ]
      /\ \A m \in Plugins \ { n } : proc'[m] = proc[m]
  BY <1>1 DEF ProcessesOK
<1>4. proc'[n].inst = proc[n].inst + 1 /\ Succeeds(n)
  BY <1>3 DEF Succeeds
<1>5. ProcessesOK'
  <2>1. proc[n].starts - 1 \in Nat
    BY <1>2 DEF ProcessesOK, Processes
  <2>2. proc'[n] \in Processes(n)
    BY <1>2, <1>3, <2>1, ProcessIs
  <2>3. proc'[n].inst \in Instances
    BY <1>2, <1>4
  <2>4. ASSUME NEW m \in Plugins
        PROVE  proc'[m] \in Processes(m) /\ (proc'[m].st = "started" => proc'[m].inst \in Instances)
    <3>1. CASE m = n
      BY <2>2, <2>3, <3>1
    <3>2. CASE m # n
      BY <1>3, <3>2 DEF ProcessesOK
    <3> QED
      BY <3>1, <3>2
  <2> QED
    BY <1>3, <2>4 DEF ProcessesOK, Processes
<1>6. TablesOK'
  <2>1. HandleOf(n)' = [ plugin_name |-> n, instance_id |-> proc[n].inst + 1 ]
    BY <1>4 DEF HandleOf
  <2>2. [ plugin_name |-> n, instance_id |-> proc[n].inst + 1 ] \in Handles
    BY <1>2 DEF Handles
  <2> QED
    BY <1>2, <2>1, <2>2 DEF TablesOK, RegisterConnection
<1> QED
  BY <1>2, <1>4, <1>5, <1>6, EntriesSucceed, CallsSucceed, LosesServed

\* A process dies, or its plugin is retired: what it was offers what it did.
LEMMA StopServes ==
    ASSUME ServedInv, NEW n \in Plugins, Crash(n) \/ Retire(n)
    PROVE  ProcessesOK' /\ EntriesOK' /\ CallsServed' /\ ExchangesServed' /\ TablesOK'
<1> USE DEF ServedInv
<1>1. /\ \/ proc' = [ proc EXCEPT ![n].up = FALSE ] /\ Loses(n) /\ UNCHANGED registryVars
         \/ /\ proc' = [ proc EXCEPT ![n].st = "off" ] /\ Deregisters(n)
            /\ UNCHANGED << rr_counter, resolution, exchange >>
      /\ UNCHANGED << connections, guards, call >>
  BY DEF Crash, Retire, lockVars, busVars
<1>2. proc[n] \in Processes(n) /\ (proc[n].st = "started" => proc[n].inst \in Instances)
  BY DEF ProcessesOK
<1>3. \/ proc'[n] = [ proc[n] EXCEPT !.up = FALSE ]
      \/ proc'[n] = [ proc[n] EXCEPT !.st = "off" ]
  BY <1>1 DEF ProcessesOK
<1>4. DOMAIN proc' = Plugins /\ \A m \in Plugins \ { n } : proc'[m] = proc[m]
  BY <1>1 DEF ProcessesOK
<1>5. /\ proc'[n] \in Processes(n)
      /\ proc'[n].inst = proc[n].inst /\ proc'[n].offer = proc[n].offer
      /\ proc'[n].st \in { proc[n].st, "off" }
  <2>1. CASE proc'[n] = [ proc[n] EXCEPT !.up = FALSE ]
    <3>1. proc'[n] \in Processes(n)
      BY <1>2, <2>1, Zenon DEF Processes
    <3> QED
      BY <1>2, <2>1, <3>1 DEF Processes
  <2>2. CASE proc'[n] = [ proc[n] EXCEPT !.st = "off" ]
    <3>1. proc'[n] \in Processes(n)
      BY <1>2, <2>2, Zenon DEF Processes
    <3> QED
      BY <1>2, <2>2, <3>1 DEF Processes
  <2> QED
    BY <1>3, <2>1, <2>2
<1>6. Succeeds(n)
  BY <1>4, <1>5 DEF Succeeds
<1>7. ProcessesOK'
  <2>1. ASSUME NEW m \in Plugins
        PROVE  proc'[m] \in Processes(m) /\ (proc'[m].st = "started" => proc'[m].inst \in Instances)
    <3>1. CASE m = n
      BY <1>2, <1>5, <3>1
    <3>2. CASE m # n
      BY <1>4, <3>2 DEF ProcessesOK
    <3> QED
      BY <3>1, <3>2
  <2> QED
    BY <1>4, <2>1 DEF ProcessesOK, Processes
<1>8. EntriesOK' /\ ExchangesServed'
  BY <1>1, <1>5, <1>6, EntriesSucceed, DeregistersServes, LosesServed, KeepsServed
<1>9. CallsServed'
  BY <1>1, <1>6, CallsSucceed
<1> QED
  BY <1>1, <1>7, <1>8, <1>9 DEF TablesOK

\* Plugins come and go.
LEMMA LifecycleServes ==
    ASSUME ServedInv, NEW n \in Plugins, Lifecycle(n), UNCHANGED << entries, gatewayVars >>
    PROVE  ServedInv'
<1> USE DEF ServedInv
<1>1. HandlersTyped'
  <2>1. UNCHANGED scenario
    BY DEF Lifecycle, StartPlugin, Advertise, Crash, Retire, HostRemovesConnection, hostVars
  <2> QED
    BY <2>1, GatewayFrame
<1>2. CASE Advertise(n)
  <2>1. UNCHANGED << proc, connections, guards, call, exchange >>
    BY <1>2 DEF Advertise, busVars, hostVars
  <2> QED
    BY <1>1, <1>2, <2>1, RegistersServes, ServedFrame, ProcessesFrame DEF TablesOK
<1>3. CASE HostRemovesConnection(n)
  <2>1. /\ UNCHANGED << inner, rr_counter, resolution, proc, guards, call, exchange >>
        /\ connections' \subseteq connections
    BY <1>3 DEF HostRemovesConnection, RemoveConnection, registryVars, lockVars, hostVars
  <2> QED
    BY <1>1, <2>1, EntriesFrame, ServedFrame, ProcessesFrame DEF TablesOK, EntriesOK, RegistryTypeOK
<1>4. CASE StartPlugin(n)
  BY <1>1, <1>4, StartServes
<1>5. CASE Crash(n) \/ Retire(n)
  BY <1>1, <1>5, StopServes
<1> QED
  BY <1>2, <1>3, <1>4, <1>5 DEF Lifecycle

-----------------------------------------------------------------------------
\* A plugin takes up what was sent to it, answers it or gives it up.
LEMMA WorkServes ==
    ASSUME ServedInv, NEW k \in Calls,
           \/ Take(k) \/ Cancel(k) \/ Verify(k) \/ Execute(k) \/ Refuse(k) \/ Swallow(k)
           \/ RouterDeclines(k)
    PROVE  CallsServed' /\ ExchangesServed'
<1> USE DEF ServedInv
<1>1. UNCHANGED << proc, call >>
  BY DEF Take, Cancel, Verify, Execute, Refuse, Swallow, RouterDeclines, hostVars
<1>2. exchange[k] \in Exchanges /\ Held(exchange[k]) /\ Linked(exchange[k], call[k])
  BY DEF ExchangesServed
<1>3. ASSUME NEW o \in Outcomes, Replied(k, o) PROVE CallsServed' /\ ExchangesServed'
  BY <1>1, <1>3, AnswerHeld, PutExchange
<1>4. CASE Cancel(k)
  <2>1. exchange' = [ exchange EXCEPT ![k] = Idle ] /\ call[k].pc # "rpc"
    BY <1>4 DEF Cancel, Quits, At
  <2>2. Held(Idle) /\ Linked(Idle, call[k]) /\ Idle \in Exchanges
    BY <2>1, ExchangeTypes DEF Held, Linked, Busy
  <2> QED
    BY <1>1, <2>1, <2>2, PutExchange
<1>5. CASE Take(k)
  <2> DEFINE n == exchange[k].by.plugin_name
             x == TakenUp(exchange[k], proc[n].inst)
  <2>1. exchange[k].st = "sent" /\ n \in Plugins
    BY <1>2, <1>5 DEF Take, Held, Handles
  <2>2. Replied(k, Fails("PluginError")) \/ exchange' = [ exchange EXCEPT ![k] = x ]
    <3>1. \/ Replied(k, Fails("PluginError"))
          \/ exchange' = [ exchange EXCEPT ![k].st = "running", ![k].inst = proc[n].inst ]
      BY <1>5 DEF Take
    <3>2. [ exchange EXCEPT ![k].st = "running", ![k].inst = proc[n].inst ]
            = [ exchange EXCEPT ![k] = x ]
      BY DEF TakenUp, ExchangesServed
    <3> QED
      BY <3>1, <3>2
  <2>3. proc[n].inst \in Nat
    <3>1. proc[n].inst \in Instances \cup { 0 }
      BY <2>1 DEF ProcessesOK, Processes
    <3>2. \A i \in Instances \cup { 0 } : i \in Nat
      BY InstanceIds
    <3> QED
      BY <3>1, <3>2, Zenon
  <2>4. x \in Exchanges /\ x.st = "running" /\ x.by = exchange[k].by /\ x.inst = proc[n].inst
    <3>1. Fails("PluginError") \in Outcomes /\ "running" \in ExchangeStates
      BY OutcomeTypes DEF ExchangeStates, Results, Errors
    <3> QED
      BY <1>2, <2>3, <3>1, ExchangeMoves
  <2>5. Held(x) /\ Linked(x, call[k])
    BY <1>2, <2>1, <2>4 DEF Held, Linked
  <2>6. Fails("PluginError") \in Outcomes
    BY OutcomeTypes DEF Results, Errors
  <2> HIDE DEF x
  <2>7. CASE exchange' = [ exchange EXCEPT ![k] = x ]
    BY <1>1, <2>4, <2>5, <2>7, PutExchange
  <2> QED
    BY <1>3, <2>2, <2>6, <2>7
<1>6. CASE Verify(k) \/ Execute(k) \/ Refuse(k) \/ Swallow(k) \/ RouterDeclines(k)
  <2>1. \/ \E p \in Payloads : Replied(k, Bytes(p))
        \/ Replied(k, Fails("PluginError"))
    BY <1>6 DEF Verify, Execute, Refuse, Swallow, RouterDeclines, Judgement, Payloads
  <2>2. Fails("PluginError") \in Outcomes /\ \A p \in Payloads : Bytes(p) \in Outcomes
    BY OutcomeTypes DEF Results, Errors
  <2> QED
    BY <1>3, <2>1, <2>2
<1> QED
  BY <1>4, <1>5, <1>6

\* The http-router asks on behalf of its caller, and answers.
LEMMA RouterServes ==
    ASSUME ServedInv, NEW k \in Calls,
           RouterAsks(k) \/ RouterDenies(k) \/ RouterQueries(k) \/ RouterReports(k)
    PROVE  CallsServed' /\ ExchangesServed'
<1> USE DEF ServedInv
<1> DEFINE n == Nested(k[1])
           x == exchange[k]
<1>1. UNCHANGED proc /\ n \in Calls
  BY CallIds DEF RouterAsks, RouterDenies, RouterQueries, RouterReports, hostVars
<1>2. x \in Exchanges /\ Held(x) /\ Linked(x, call[k])
  BY DEF ExchangesServed
<1>3. \E r \in ProperCalls : /\ ~Placed(r) /\ r.pc # "rpc"
                             /\ call' = [ call EXCEPT ![n] = r ]
  <2>1. \/ call' = [ call EXCEPT ![n] = NoCall ]
        \/ \E c \in { AuthVerify, DataQuery, DataWrite } :
              call' = [ call EXCEPT ![n] = Dispatched(c, Star, DefaultTimeout) ]
    BY DEF RouterAsks, RouterDenies, RouterQueries, RouterReports, RouterTarget, Asks, Hangs
  <2>2. Star \in Constraints /\ DefaultTimeout \in Int
    BY BusAssumption DEF Star, Constraints
  <2>3. \A c \in { AuthVerify, DataQuery, DataWrite } : c \in Capabilities
    BY OfficialAssumption
  <2> QED
    BY <2>1, <2>2, <2>3, NoCallType, DispatchedType
<1>4. PICK r \in ProperCalls : /\ ~Placed(r) /\ r.pc # "rpc"
                               /\ call' = [ call EXCEPT ![n] = r ]
  BY <1>3
<1>5. \A y : Linked(y, call[k]) => Linked(y, call'[k])
  BY <1>4 DEF CallsServed, Linked
<1>6. \/ \E o \in Outcomes : Replied(k, o)
      \/ \E st \in { "asking", "querying" } :
            x.st \in Busy /\ exchange' = [ exchange EXCEPT ![k] = Staged(x, st) ]
  <2>1. \A p \in { "401", "404", "200", "500" } : Bytes(p) \in Outcomes
    BY OutcomeTypes DEF Payloads
  <2>2. CASE RouterAsks(k)
    BY <2>2 DEF RouterAsks, Asks, Staged, Runs, Busy
  <2>3. CASE RouterDenies(k)
    <3>1. Replied(k, Bytes(DenialFor(AnswerOf(k)))) /\ DenialFor(AnswerOf(k)) \in { "401", "500" }
      BY <2>3 DEF RouterDenies, DenialFor
    <3> QED
      BY <2>1, <3>1
  <2>4. CASE RouterQueries(k)
    BY <2>1, <2>4 DEF RouterQueries, Asks, Staged, Answered, Busy
  <2>5. CASE RouterReports(k)
    <3>1. Replied(k, Bytes("200")) \/ Replied(k, Bytes("500"))
      BY <2>5 DEF RouterReports
    <3> QED
      BY <2>1, <3>1
  <2> QED
    BY <2>2, <2>3, <2>4, <2>5
<1>7. ASSUME NEW y \in Exchanges, Held(y), Linked(y, call[k]),
             exchange' = [ exchange EXCEPT ![k] = y ]
      PROVE  CallsServed' /\ ExchangesServed'
  BY <1>1, <1>4, <1>5, <1>7, Put
<1>8. CASE \E o \in Outcomes : Replied(k, o)
  BY <1>7, <1>8, AnswerHeld
<1>9. ASSUME NEW st \in { "asking", "querying" }, x.st \in Busy,
             exchange' = [ exchange EXCEPT ![k] = Staged(x, st) ]
      PROVE  CallsServed' /\ ExchangesServed'
  <2> DEFINE y == Staged(x, st)
  <2>1. y \in Exchanges /\ y.st = st /\ y.by = x.by /\ y.inst = x.inst
    BY <1>2, OutcomeTypes, ExchangeMoves DEF ExchangeStates, Results, Errors
  <2>2. Held(y) /\ Linked(y, call[k])
    BY <1>2, <1>9, <2>1 DEF Held, Linked, Busy
  <2> HIDE DEF y
  <2> QED
    BY <1>7, <1>9, <2>1, <2>2 DEF y
<1> QED
  BY <1>6, <1>8, <1>9

\* Plugins do their work.
LEMMA PluginServes ==
    ASSUME ServedInv, NEW k \in Calls, PluginStep(k), UNCHANGED << entries, gatewayVars >>
    PROVE  ServedInv'
<1> USE DEF ServedInv
<1>1. UNCHANGED << inner, rr_counter, resolution, connections, guards, scenario, proc >>
  BY DEF PluginStep, Take, Cancel, Verify, Execute, Refuse, Swallow, RouterDeclines, RouterAsks,
     RouterDenies, RouterQueries, RouterReports, registryVars, lockVars, hostVars
<1>2. CallsServed' /\ ExchangesServed'
  BY WorkServes, RouterServes DEF PluginStep
<1> QED
  BY <1>1, <1>2, EntriesFrame, ProcessesFrame, GatewayFrame DEF TablesOK, EntriesOK, RegistryTypeOK

-----------------------------------------------------------------------------
\* The processes of a scenario, and what they have advertised.
LEMMA FirstProcesses ==
    ASSUME NEW s \in Scenarios, proc = [ n \in Plugins |-> FirstProcess(s, n) ]
    PROVE  /\ ProcessesOK
           /\ \A i \in DOMAIN s.ready :
                 /\ s.ready[i].name \in Plugins
                 /\ proc[s.ready[i].name].inst = 1
                 /\ proc[s.ready[i].name].offer = s.ready[i].offer
<1> DEFINE r == s.ready
<1>1. /\ s.starts \in [ Plugins -> Nat ]
      /\ r \in Seq([ name : Plugins, offer : UNION { Offers[n] : n \in Plugins } ])
      /\ \A i \in DOMAIN r : r[i].offer \in Offers[r[i].name]
      /\ \A i, j \in DOMAIN r : r[i].name = r[j].name => i = j
  BY ServingAssumption
<1>2. ASSUME NEW i \in DOMAIN r PROVE r[i].name \in Plugins
  <2> DEFINE R == [ name : Plugins, offer : UNION { Offers[n] : n \in Plugins } ]
  <2>1. r \in Seq(R)
    BY <1>1
  <2> HIDE DEF r, R
  <2>2. r[i] \in R
    BY <2>1
  <2> QED
    BY <2>2 DEF R
<1>3. ASSUME NEW n \in Plugins, Index(s, n) = {}
      PROVE  /\ proc[n] \in Processes(n) /\ proc[n].st = "off"
  <2> DEFINE k == s.starts[n]
             o == << >>
  <2>1. k \in Nat /\ 0 \in Instances \cup { 0 } /\ o \in Offers[n] \cup { << >> }
    BY <1>1
  <2>2. proc[n] = [ st |-> "off", up |-> FALSE, inst |-> 0, starts |-> k, offer |-> o ]
    BY <1>3 DEF FirstProcess
  <2> HIDE DEF k, o
  <2>3. proc[n] \in Processes(n)
    BY <2>1, <2>2, ProcessIs
  <2> QED
    BY <2>2, <2>3
<1>4. ASSUME NEW n \in Plugins, Index(s, n) # {}
      PROVE  /\ proc[n] \in Processes(n) /\ proc[n].inst = 1
             /\ \A i \in Index(s, n) : proc[n].offer = r[i].offer
  <2> DEFINE i == CHOOSE i \in Index(s, n) : TRUE
             k == s.starts[n]
             o == r[i].offer
  <2>1. i \in Index(s, n)
    BY <1>4
  <2>2. proc[n] = [ st |-> "started", up |-> TRUE, inst |-> 1, starts |-> k, offer |-> o ]
    BY <1>4 DEF FirstProcess
  <2>3. \A j \in Index(s, n) : j = i
    <3> HIDE DEF i
    <3> QED
      BY <1>1, <2>1 DEF Index
  <2> HIDE DEF i
  <2>4. o \in Offers[n] /\ k \in Nat
    BY <1>1, <2>1 DEF Index
  <2>5. \A j \in Index(s, n) : r[j].offer = o
    BY <2>3
  <2>6. 1 \in Instances \cup { 0 }
    BY InstanceIds
  <2>7. o \in Offers[n] \cup { << >> }
    BY <2>4
  <2> HIDE DEF k, o
  <2>8. [ st |-> "started", up |-> TRUE, inst |-> 1, starts |-> k, offer |-> o ] \in Processes(n)
    BY <2>4, <2>6, <2>7, ProcessIs
  <2>9. proc[n] \in Processes(n)
    BY <2>2, <2>8, Zenon
  <2>10. proc[n].inst = 1 /\ proc[n].offer = o
    BY <2>2
  <2> QED
    BY <2>5, <2>9, <2>10
<1>5. ProcessesOK
  <2>1. \A n \in Plugins : /\ proc[n] \in Processes(n)
                           /\ proc[n].st = "started" => proc[n].inst \in Instances
    BY <1>3, <1>4, InstanceIds
  <2> QED
    BY <2>1 DEF ProcessesOK
<1>6. ASSUME NEW i \in DOMAIN r
      PROVE  proc[r[i].name].inst = 1 /\ proc[r[i].name].offer = r[i].offer
  <2>1. i \in Index(s, r[i].name)
    BY DEF Index
  <2> QED
    BY <1>2, <1>4, <2>1
<1> QED
  BY <1>2, <1>5, <1>6

\* Who has advertised before the first request serves what he did.
LEMMA FirstEntries ==
    ASSUME NEW s \in Scenarios, proc = [ n \in Plugins |-> FirstProcess(s, n) ],
           NEW c \in Capabilities
    PROVE  /\ Advertised(s, c) \in Seq(Entries)
           /\ \A i \in DOMAIN Advertised(s, c) :
                 Serves(Advertised(s, c)[i].plugin_handle, c, { Advertised(s, c)[i].version })
<1> DEFINE r == s.ready
           T == { i \in DOMAIN r : c \in DOMAIN r[i].offer }
           offering == Filtered(r, T)
           e(i) == [ version |-> offering[i].offer[c], plugin_handle |-> FirstHandle(offering[i].name) ]
<1>1. /\ ProcessesOK
      /\ \A i \in DOMAIN r : /\ r[i].name \in Plugins /\ proc[r[i].name].inst = 1
                             /\ proc[r[i].name].offer = r[i].offer
  BY FirstProcesses
<1>2. /\ r \in Seq([ name : Plugins, offer : UNION { Offers[n] : n \in Plugins } ])
      /\ T \in SUBSET DOMAIN r
  BY ServingAssumption
<1>3. Advertised(s, c) = [ i \in DOMAIN offering |-> e(i) ]
  BY DEF Advertised
<1> HIDE DEF r, T
<1>4. /\ Len(offering) \in Nat /\ DOMAIN offering = 1 .. Len(offering)
      /\ \A i \in DOMAIN offering : \E j \in T : offering[i] = r[j]
  BY <1>2, FilteredIs
<1> HIDE DEF offering
<1>5. ASSUME NEW i \in DOMAIN offering
      PROVE  e(i) \in Entries /\ Serves(e(i).plugin_handle, c, { e(i).version })
  <2>1. PICK j \in T : offering[i] = r[j]
    BY <1>4
  <2> DEFINE n == r[j].name
             v == r[j].offer[c]
  <2>2. j \in DOMAIN r /\ c \in DOMAIN r[j].offer
    BY DEF T
  <2>3. n \in Plugins /\ proc[n].inst = 1 /\ proc[n].offer = r[j].offer
    BY <1>1, <2>2
  <2>4. v \in Versions /\ v = proc[n].offer[c] /\ c \in DOMAIN proc[n].offer
    BY <1>1, <2>2, <2>3, OfferType
  <2>5. e(i) = [ version |-> v, plugin_handle |-> [ plugin_name |-> n, instance_id |-> 1 ] ]
    BY <2>1 DEF FirstHandle
  <2> HIDE DEF n, v, e
  <2>6. [ plugin_name |-> n, instance_id |-> 1 ] \in Handles
    BY <2>3, InstanceIds DEF Handles
  <2>7. e(i) \in Entries
    BY <2>4, <2>5, <2>6 DEF Entries
  <2>8. Serves([ plugin_name |-> n, instance_id |-> 1 ], c, { v })
    BY <2>3, <2>4, <2>6 DEF Serves, Offered
  <2> QED
    BY <2>5, <2>7, <2>8
<1> HIDE DEF e
<1>6. Advertised(s, c) \in Seq(Entries)
  <2> DEFINE m == Len(offering)
             a == Advertised(s, c)
  <2>1. m \in Nat /\ a \in [ 1 .. m -> Entries ]
    BY <1>3, <1>4, <1>5, Zenon
  <2> HIDE DEF m, a
  <2>2. a \in Seq(Entries)
    BY <2>1
  <2> QED
    BY <2>2 DEF a
<1>7. /\ DOMAIN Advertised(s, c) = DOMAIN offering
      /\ \A i \in DOMAIN offering : Advertised(s, c)[i] = e(i)
  BY <1>3
<1> QED
  BY <1>5, <1>6, <1>7

\* The invariant holds at the start ...
LEMMA ServedStarts == Init => ServedInv
<1> SUFFICES ASSUME Init PROVE ServedInv
  OBVIOUS
<1>1. PICK s \in Scenarios :
        /\ proc = [ n \in Plugins |-> FirstProcess(s, n) ]
        /\ NewRegistry(s.strategy, [ c \in Capabilities |-> Advertised(s, c) ])
        /\ NewBus({ FirstHandle(s.ready[i].name) : i \in DOMAIN s.ready })
        /\ NewRateLimiter
        /\ stage = [ q \in Requests |-> "new" ]
        /\ answer = [ q \in Requests |-> Unanswered ]
  BY DEF Init
<1>2. /\ ProcessesOK
      /\ \A i \in DOMAIN s.ready : s.ready[i].name \in Plugins
  BY <1>1, FirstProcesses
<1>3. EntriesOK
  <2>1. inner = [ c \in Capabilities |-> Advertised(s, c) ]
        /\ rr_counter = [ c \in Capabilities |-> 0 ] /\ resolution = s.strategy
    BY <1>1 DEF NewRegistry
  <2>2. s.strategy \in Strategies
    BY ServingAssumption
  <2>3. 0 \in 0 .. CounterSize - 1
    BY CounterSizeAssumption
  <2>4. \A c \in Capabilities :
           /\ inner[c] \in Seq(Entries)
           /\ \A i \in DOMAIN inner[c] : Serves(inner[c][i].plugin_handle, c, { inner[c][i].version })
    BY <1>1, <2>1, FirstEntries
  <2>5. inner \in [ Capabilities -> Seq(Entries) ]
    BY <2>1, <2>4
  <2> QED
    BY <2>1, <2>2, <2>3, <2>4, <2>5 DEF EntriesOK, RegistryTypeOK
<1>4. CallsServed /\ ExchangesServed
  <2>1. call = [ k \in Calls |-> NoCall ] /\ exchange = [ k \in Calls |-> Idle ]
    BY <1>1 DEF NewBus
  <2>2. Held(Idle) /\ Linked(Idle, NoCall)
    BY ExchangeTypes, NoCallType DEF Held, Linked, Busy
  <2> QED
    BY <2>1, <2>2, NoCallType, ExchangeTypes DEF CallsServed, ExchangesServed
<1>5. TablesOK
  <2>1. \A i \in DOMAIN s.ready : FirstHandle(s.ready[i].name) \in Handles
    BY <1>2, InstanceIds DEF FirstHandle, Handles
  <2> QED
    BY <1>1, <2>1 DEF TablesOK, NewBus
<1>6. HandlersTyped
  <2>1. Unanswered \in [ code : Codes, payload : Payloads ]
    BY DEF Unanswered, Codes, Payloads
  <2> QED
    BY <1>1, <2>1 DEF HandlersTyped, RateLimiterTypeOK, NewRateLimiter, Stages
<1> QED
  BY <1>2, <1>3, <1>4, <1>5, <1>6 DEF ServedInv

\* ... and no step breaks it.
LEMMA ServedStep == ServingInv /\ ServedInv /\ [Next]_vars => ServedInv'
<1> SUFFICES ASSUME ServingInv, ServedInv, [Next]_vars PROVE ServedInv'
  OBVIOUS
<1>1. CASE \E q \in Requests : Arrival(q) \/ Handler(q) \/ ClientLeaves(q)
  BY <1>1, HandlerServes
<1>2. CASE \E k \in Calls : Dispatching(k)
  BY <1>2, DispatchServes
<1>3. CASE \/ \E k \in Calls : HandlerReturns(k)
           \/ InstallHandler /\ UNCHANGED << hostVars, entries, gatewayVars >>
           \/ \E c \in HostCapabilities : HostRegisters(c)
           \/ \E q \in Requests : DropNested(q) /\ UNCHANGED << entries, gatewayVars >>
           \/ Sweeper \/ UNCHANGED vars
  BY <1>3, HostServes
<1>4. CASE Tick
  BY <1>4, TickServes
<1>5. CASE \E n \in Plugins : Lifecycle(n) /\ UNCHANGED << entries, gatewayVars >>
  BY <1>5, LifecycleServes
<1>6. CASE \E k \in Calls : PluginStep(k) /\ UNCHANGED << entries, gatewayVars >>
  BY <1>6, PluginServes
<1> QED
  BY <1>1, <1>2, <1>3, <1>4, <1>5, <1>6 DEF Next, Kernel, Environment

-----------------------------------------------------------------------------
\* The invariant of the calls holds ...
LEMMA AlwaysServed == Spec => []ServedInv
BY ServedStarts, ServedStep, ServingInvariant, PTL DEF Spec

\* ... and with it what the two properties say.
LEMMA ServedInvariant == Spec => [](TypeOK /\ ServedAsAsked)
BY AlwaysServed, ServingInvariant, ServedSuffices, PTL

\* Every handle in the registry, on the bus and with a call is one a plugin's
\* start drew, the round-robin counter keeps its width, and a call, its exchange
\* and its answer are what the code's types say, through every restart.
THEOREM ServingTypeCorrect == Spec => []TypeOK
BY ServedInvariant, PTL

\* The process that works on a call offers the capability in a version the call
\* accepts, as long as it is the process the lookup found, whatever plugins
\* restarted, withdrew or advertised between the lookup and the call.
THEOREM CallsServedAsAsked == Spec => []ServedAsAsked
BY ServedInvariant, PTL

-----------------------------------------------------------------------------
(* Round robin: the counts of the turns follow from the cursor. *)

\* A natural number is a multiple of the divisor and a remainder below it ...
LEMMA Quotient ==
    ASSUME NEW n \in Nat \ { 0 }, NEW r \in Nat
    PROVE  r % n \in 0 .. n - 1 /\ \E q \in Nat : r = n * q + (r % n)
<1>1. r % n \in 0 .. n - 1
  OBVIOUS
<1>2. r = n * (r \div n) + (r % n)
  OBVIOUS
<1>3. r \div n \in Nat
  OBVIOUS
<1> QED
  BY <1>1, <1>2, <1>3

\* ... and in only one way.
LEMMA Remainder ==
    ASSUME NEW n \in Nat \ { 0 }, NEW q \in Int, NEW s \in 0 .. n - 1
    PROVE  (n * q + s) % n = s
OBVIOUS

\* The position after p in a list of n, counted from 0.
After(p, n) == IF p = n - 1 THEN 0 ELSE p + 1

\* fetch_add moves the cursor to the next position also where the counter wraps, if
\* the list's length divides the counter's range.
LEMMA CursorMoves ==
    ASSUME NEW n \in Nat \ { 0 }, NEW M \in Nat \ { 0 }, M % n = 0, NEW r \in 0 .. M - 1
    PROVE  ((r + 1) % M) % n = After(r % n, n)
<1> DEFINE s == r % n
<1>1. s \in 0 .. n - 1
  BY Quotient
<1>2. PICK q \in Nat : r = n * q + s
  <2>1. r \in Nat
    OBVIOUS
  <2> QED
    BY <2>1, Quotient
<1> HIDE DEF s
<1>3. CASE r + 1 < M
  <2>1. (r + 1) % M = r + 1
    BY <1>3
  <2>2. CASE s = n - 1
    <3>1. r + 1 = n * (q + 1) + 0
      BY <1>2, <2>2
    <3>2. (n * (q + 1) + 0) % n = 0
      BY Remainder
    <3> QED
      BY <2>1, <2>2, <3>1, <3>2 DEF After, s
  <2>3. CASE s # n - 1
    <3>1. r + 1 = n * q + (s + 1)
      BY <1>2, <1>1
    <3>2. (n * q + (s + 1)) % n = s + 1
      BY <1>1, <2>3, Remainder
    <3> QED
      BY <2>1, <2>3, <3>1, <3>2 DEF After, s
  <2> QED
    BY <2>2, <2>3
<1>4. CASE r + 1 = M
  <2>1. (r + 1) % M = 0
    BY <1>4
  <2>2. PICK k \in Nat : M = n * k + 0
    BY Quotient
  <2>3. r = n * (k - 1) + (n - 1)
    BY <1>4, <2>2
  <2>4. (n * (k - 1) + (n - 1)) % n = n - 1
    BY Remainder
  <2>5. 0 % n = 0
    OBVIOUS
  <2> QED
    BY <2>1, <2>3, <2>4, <2>5 DEF After
<1> QED
  BY <1>3, <1>4

\* How many picks ago position i was picked, with the cursor (from 0) at p.
Behind(i, p, n) == IF i - 1 < p THEN p - i ELSE p - i + n

\* Counts of a list of n that has been gone round in its order: the positions of
\* the last m picks have one turn more than the others.
Even(counts, p, n) ==
    \E m \in 0 .. n - 1 : counts = [ i \in 1 .. n |-> IF Behind(i, p, n) < m THEN 1 ELSE 0 ]

\* A pick of the position under the cursor; a turn that everybody had is dropped.
Counted(old, p) == [ old EXCEPT ![p + 1] = @ + 1 ]
Levelled(new) ==
    [ i \in DOMAIN new |-> IF \A j \in DOMAIN new : new[j] > 0 THEN new[i] - 1 ELSE new[i] ]

\* Every position gets one pick older but the one that is picked, the oldest.
LEMMA BehindMoves ==
    ASSUME NEW n \in Nat \ { 0 }, NEW p \in 0 .. n - 1, NEW i \in 1 .. n
    PROVE  /\ Behind(i, p, n) \in 0 .. n - 1
           /\ Behind(i, p, n) = n - 1 <=> i = p + 1
           /\ Behind(i, After(p, n), n) = IF i = p + 1 THEN 0 ELSE Behind(i, p, n) + 1
BY DEF Behind, After

\* For every age there is a position of that age.
LEMMA BehindReaches ==
    ASSUME NEW n \in Nat \ { 0 }, NEW p \in 0 .. n - 1, NEW m \in 0 .. n - 1
    PROVE  \E i \in 1 .. n : Behind(i, p, n) = m
<1>1. CASE m < p
  <2>1. p - m \in 1 .. n /\ Behind(p - m, p, n) = m
    BY <1>1 DEF Behind
  <2> QED
    BY <2>1
<1>2. CASE ~(m < p)
  <2>1. p - m + n \in 1 .. n /\ Behind(p - m + n, p, n) = m
    BY <1>2 DEF Behind
  <2> QED
    BY <2>1
<1> QED
  BY <1>1, <1>2

\* A pick keeps the counts even.
LEMMA PickKeepsEven ==
    ASSUME NEW n \in Nat \ { 0 }, NEW p \in 0 .. n - 1, NEW old, Even(old, p, n)
    PROVE  Even(Levelled(Counted(old, p)), After(p, n), n)
<1> DEFINE new == Counted(old, p)
           res == Levelled(new)
           x == After(p, n)
<1>1. PICK m \in 0 .. n - 1 : old = [ i \in 1 .. n |-> IF Behind(i, p, n) < m THEN 1 ELSE 0 ]
  BY DEF Even
<1>2. p + 1 \in 1 .. n /\ DOMAIN new = 1 .. n /\ DOMAIN res = 1 .. n
  BY <1>1 DEF Counted, Levelled
<1>3. \A i \in 1 .. n : new[i] = IF Behind(i, x, n) < m + 1 THEN 1 ELSE 0
  <2> TAKE i \in 1 .. n
  <2>1. old[p + 1] = 0
    BY <1>1, <1>2, BehindMoves
  <2>2. new[i] = IF i = p + 1 THEN 1 ELSE old[i]
    BY <1>1, <1>2, <2>1 DEF Counted
  <2>3. /\ Behind(i, p, n) \in 0 .. n - 1
        /\ Behind(i, x, n) = IF i = p + 1 THEN 0 ELSE Behind(i, p, n) + 1
    BY BehindMoves
  <2>4. i # p + 1 => old[i] = IF Behind(i, p, n) < m THEN 1 ELSE 0
    BY <1>1
  <2> HIDE DEF new, x
  <2> QED
    BY <2>2, <2>3, <2>4
<1>4. res = [ i \in 1 .. n |-> IF \A j \in 1 .. n : new[j] > 0 THEN new[i] - 1 ELSE new[i] ]
  BY <1>2 DEF Levelled
<1>5. x \in 0 .. n - 1
  BY DEF After
<1> HIDE DEF new, res, x
<1>6. CASE m = n - 1
  <2>1. \A i \in 1 .. n : new[i] = 1
    BY <1>3, <1>5, <1>6, BehindMoves
  <2>2. res = [ i \in 1 .. n |-> 0 ]
    BY <1>4, <2>1
  <2>3. \A i \in 1 .. n : ~(Behind(i, x, n) < 0)
    BY <1>5, BehindMoves
  <2>4. res = [ i \in 1 .. n |-> IF Behind(i, x, n) < 0 THEN 1 ELSE 0 ]
    BY <2>2, <2>3
  <2> QED
    BY <2>4 DEF Even, res, new, x
<1>7. CASE m # n - 1
  <2>1. m + 1 \in 0 .. n - 1
    BY <1>7
  <2>2. PICK j \in 1 .. n : Behind(j, x, n) = m + 1
    BY <1>5, <2>1, BehindReaches
  <2>3. new[j] = 0
    BY <1>3, <2>2
  <2>4. res = [ i \in 1 .. n |-> new[i] ]
    BY <1>4, <2>3
  <2>5. res = [ i \in 1 .. n |-> IF Behind(i, x, n) < m + 1 THEN 1 ELSE 0 ]
    BY <1>3, <2>4
  <2> QED
    BY <2>1, <2>5 DEF Even, res, new, x
<1> QED
  BY <1>6, <1>7

\* No counts are even, wherever the cursor is.
LEMMA FreshIsEven ==
    ASSUME NEW n \in Nat \ { 0 }, NEW p \in 0 .. n - 1
    PROVE  Even([ i \in 1 .. n |-> 0 ], p, n)
<1>1. \A i \in 1 .. n : ~(Behind(i, p, n) < 0)
  BY BehindMoves
<1>2. [ i \in 1 .. n |-> 0 ] = [ i \in 1 .. n |-> IF Behind(i, p, n) < 0 THEN 1 ELSE 0 ]
  BY <1>1
<1> QED
  BY <1>2 DEF Even

\* What is known of the history of a capability's picks, t, and its counter, r:
\* the counts are even around the cursor that the counter stands for.
EvenTurns(t, r) ==
    LET n == Len(t.list)
    IN /\ n \in Nat
       /\ DOMAIN t.counts = 1 .. n
       /\ n > 0 /\ CounterSize % n = 0 => Even(t.counts, r % n, n)

TurnsInv ==
    /\ DOMAIN turns = Capabilities
    /\ \A c \in Capabilities : EvenTurns(turns[c], rr_counter[c])

\* Even counts differ by no more than one.
LEMMA TurnsSuffice == TurnsInv => RoundRobinEven
<1> SUFFICES ASSUME TurnsInv, NEW c \in Capabilities,
                    NEW i \in DOMAIN turns[c].counts, NEW j \in DOMAIN turns[c].counts,
                    CounterSize % Len(turns[c].list) = 0
             PROVE  turns[c].counts[i] <= turns[c].counts[j] + 1
  BY DEF RoundRobinEven
<1> DEFINE t == turns[c]
           n == Len(t.list)
           p == rr_counter[c] % n
<1>1. n \in Nat /\ DOMAIN t.counts = 1 .. n
  BY DEF TurnsInv, EvenTurns
<1>2. Even(t.counts, p, n)
  BY <1>1 DEF TurnsInv, EvenTurns
<1> HIDE DEF t, n, p
<1>3. PICK m \in 0 .. n - 1 :
        t.counts = [ b \in 1 .. n |-> IF Behind(b, p, n) < m THEN 1 ELSE 0 ]
  BY <1>2 DEF Even
<1>4. \A b \in 1 .. n : t.counts[b] \in { 0, 1 }
  BY <1>3
<1> QED
  BY <1>1, <1>4 DEF t

\* A lookup keeps the counts even around the cursor it leaves.
LEMMA TurnedIsEven ==
    ASSUME EntriesOK, NEW c \in Capabilities, NEW con, Matching(c, con) # << >>,
           EvenTurns(turns[c], rr_counter[c])
    PROVE  EvenTurns(Turned(c, con), (rr_counter[c] + 1) % CounterSize)
<1> DEFINE list == Matching(c, con)
           n == Len(list)
           r == rr_counter[c]
           p == r % n
           zero == [ i \in 1 .. n |-> 0 ]
           old == IF turns[c].list = list THEN turns[c].counts ELSE zero
           new == Levelled(Counted(old, p))
<1>1. inner[c] \in Seq(Entries) /\ r \in 0 .. CounterSize - 1 /\ CounterSize \in Nat \ { 0 }
  BY CounterSizeAssumption DEF EntriesOK, RegistryTypeOK
<1>2. n \in Nat \ { 0 } /\ DOMAIN list = 1 .. n
  <2> DEFINE s == inner[c]
             T == { i \in DOMAIN s : s[i].version \in con }
  <2>1. list = Filtered(s, T) /\ T \in SUBSET DOMAIN s
    BY DEF Matching
  <2>2. Filtered(s, T) # << >>
    BY <2>1
  <2>3. Filtered(s, T) \in Seq(Entries) /\ Len(Filtered(s, T)) > 0
    <3> HIDE DEF s, T, list, n
    <3> QED
      BY <1>1, <2>1, <2>2, FilteredIs DEF s
  <2> QED
    BY <2>1, <2>3
<1>3. p \in 0 .. n - 1
  BY <1>1, <1>2
<1>4. DOMAIN old = 1 .. n
  BY <1>2 DEF EvenTurns
<1>5. Turned(c, con) = [ list |-> list, counts |-> new ]
  BY <1>2 DEF Turned, TurnOf, Counted, Levelled
<1>6. DOMAIN new = 1 .. n
  BY <1>4 DEF Counted, Levelled
<1>7. ASSUME CounterSize % n = 0
      PROVE  Even(new, ((r + 1) % CounterSize) % n, n)
  <2>1. Even(zero, p, n)
    BY <1>2, <1>3, FreshIsEven
  <2>2. Even(old, p, n)
    BY <1>2, <1>7, <2>1 DEF EvenTurns
  <2>3. ((r + 1) % CounterSize) % n = After(p, n)
    BY <1>1, <1>2, <1>7, CursorMoves
  <2>4. Even(new, After(p, n), n)
    <3> HIDE DEF n, p, old
    <3> QED
      BY <1>2, <1>3, <2>2, PickKeepsEven
  <2> QED
    BY <2>3, <2>4
<1> HIDE DEF list, n, r, p, old, new
<1>8. n = Len(list)
  BY DEF n
<1> QED
  BY <1>2, <1>5, <1>6, <1>7, <1>8 DEF EvenTurns, r

\* Only a lookup takes turns.
LEMMA TurnsFrame ==
    ASSUME [Next]_vars, ~\E k \in Calls : Resolve(k)
    PROVE  UNCHANGED << turns, rr_counter >>
<1>1. CASE \E q \in Requests : Arrival(q) \/ ClientLeaves(q) \/ Handler(q)
  BY <1>1 DEF Arrival, RejectTooLarge, HttpInvoke, GrpcInvoke, DeclarativeRoute, ClientLeaves,
     Handler, AuthAnswered, TargetAnswered, HandlerFrame, registryVars
<1>2. CASE \E k \in Calls : Dispatching(k)
  BY <1>2 DEF Dispatching, KernelStep, RunLocal, NothingOffered, Send, NotConnected, Respond,
     Expire, Break, registryVars
<1>3. CASE \/ \E k \in Calls : HandlerReturns(k)
           \/ \E c \in HostCapabilities : HostRegisters(c)
           \/ InstallHandler
           \/ Tick \/ Sweeper \/ UNCHANGED vars
  BY <1>3 DEF HandlerReturns, LocalReturns, HostRegisters, RegisterHandler, InstallHandler, Tick,
     Elapse, Sweeper, registryVars, busVars, vars
<1>4. CASE \E n \in Plugins : Lifecycle(n)
  BY <1>4 DEF Lifecycle, StartPlugin, Advertise, Crash, Retire, HostRemovesConnection, busVars,
     registryVars
<1>5. CASE \/ \E k \in Calls : PluginStep(k)
           \/ \E q \in Requests : DropNested(q)
  BY <1>5 DEF PluginStep, Take, Cancel, Verify, Execute, Refuse, Swallow, RouterDeclines,
     RouterAsks, RouterDenies, RouterQueries, RouterReports, DropNested, registryVars
<1> QED
  BY <1>1, <1>2, <1>3, <1>4, <1>5 DEF Next, Kernel, Environment

\* The lookup of a dispatch takes a turn of the capability it asks for.
LEMMA ResolveTurns ==
    ASSUME ServingInv, ServedInv, TurnsInv, NEW k \in Calls, Resolve(k)
    PROVE  TurnsInv'
<1> DEFINE c == call[k].capability
           con == call[k].constraint
<1>1. /\ Matching(c, con) # << >> /\ CountsTurn(c) /\ call[k].pc = "arrived"
      /\ turns' = IF resolution = "RoundRobin" THEN [ turns EXCEPT ![c] = Turned(c, con) ] ELSE turns
  BY DEF Resolve, Reads, At
<1>2. c \in Capabilities
  BY <1>1 DEF ServedInv, CallsServed, ProperCalls
<1>3. EntriesOK /\ rr_counter \in [ Capabilities -> 0 .. CounterSize - 1 ]
  BY DEF ServedInv, EntriesOK, RegistryTypeOK
<1>4. CASE resolution = "RoundRobin"
  <2>1. EvenTurns(Turned(c, con), (rr_counter[c] + 1) % CounterSize)
    BY <1>1, <1>2, <1>3, TurnedIsEven DEF TurnsInv
  <2>2. /\ turns' = [ turns EXCEPT ![c] = Turned(c, con) ]
        /\ rr_counter' = [ rr_counter EXCEPT ![c] = (@ + 1) % CounterSize ]
    BY <1>1, <1>4 DEF CountsTurn
  <2>3. EvenTurns(turns'[c], rr_counter'[c])
    BY <1>2, <1>3, <2>1, <2>2 DEF TurnsInv
  <2>4. ASSUME NEW d \in Capabilities, d # c PROVE EvenTurns(turns'[d], rr_counter'[d])
    BY <1>3, <2>2, <2>4 DEF TurnsInv
  <2> QED
    BY <2>2, <2>3, <2>4 DEF TurnsInv
<1>5. CASE resolution # "RoundRobin"
  BY <1>1, <1>5 DEF CountsTurn, TurnsInv
<1> QED
  BY <1>4, <1>5

\* The counts are even around the cursor at the start ...
LEMMA TurnsStart == Init => TurnsInv
<1> SUFFICES ASSUME Init PROVE TurnsInv
  OBVIOUS
<1>1. turns = [ c \in Capabilities |-> [ list |-> << >>, counts |-> << >> ] ]
  BY DEF Init, NewBus
<1> QED
  BY <1>1 DEF TurnsInv, EvenTurns

\* ... and in every state: a lookup keeps them so, and nothing else touches them.
LEMMA TurnsInvariant == Spec => []TurnsInv
<1>1. ServingInv /\ ServedInv /\ TurnsInv /\ [Next]_vars => TurnsInv'
  <2> SUFFICES ASSUME ServingInv, ServedInv, TurnsInv, [Next]_vars PROVE TurnsInv'
    OBVIOUS
  <2>1. CASE \E k \in Calls : Resolve(k)
    BY <2>1, ResolveTurns
  <2>2. CASE ~\E k \in Calls : Resolve(k)
    BY <2>2, TurnsFrame DEF TurnsInv
  <2> QED
    BY <2>1, <2>2
<1> QED
  BY <1>1, ServingInvariant, AlwaysServed, TurnsStart, PTL DEF Spec

\* Round robin is fair for any list whose length divides the counter's range, with
\* any number of callers and across the wrap of the counter (Registry::lookup).
THEOREM TurnsAreEven == Spec => []RoundRobinEven
BY TurnsInvariant, TurnsSuffice, PTL
=============================================================================
