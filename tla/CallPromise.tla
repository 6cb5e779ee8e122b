---------------------------- MODULE CallPromise ----------------------------
(***************************************************************************)
(* What the kernel promises to the client of a request, whatever plugins,  *)
(* gateways and deadlines do in between: the request is answered; its      *)
(* effect happens at most once, for a protected request only behind a      *)
(* valid verdict; an answer of success means it happened, unless the       *)
(* request is one whose failure goes unreported; a refusal means that it   *)
(* did not and never will; after any other answer the client does not      *)
(* know, and it may still happen.                                          *)
(***************************************************************************)
EXTENDS Naturals

CONSTANT Requests

VARIABLES
    guarded,    \* the requests whose effect needs a verdict
    unreported, \* the requests whose failure may be answered with success
    promise, verdict, performed

asked == << guarded, unreported >>
vars == << asked, promise, verdict, performed >>

Settlements == { "done", "refused", "unknown" }

Init ==
    /\ guarded \in SUBSET Requests
    /\ unreported \in SUBSET Requests
    /\ promise = [ q \in Requests |-> "new" ]
    /\ verdict = [ q \in Requests |-> "none" ]
    /\ performed = [ q \in Requests |-> 0 ]

\* The client's request reaches a gateway, which may answer it at once.
Open(q) ==
    /\ promise[q] = "new"
    /\ promise' = [ promise EXCEPT ![q] = "open" ]
    /\ UNCHANGED << asked, verdict, performed >>

Refuse(q) ==
    /\ promise[q] = "new"
    /\ promise' = [ promise EXCEPT ![q] = "refused" ]
    /\ UNCHANGED << asked, verdict, performed >>

Judge(q) ==
    /\ promise[q] # "new"
    /\ verdict[q] = "none"
    /\ \E v \in { "valid", "invalid" } : verdict' = [ verdict EXCEPT ![q] = v ]
    /\ UNCHANGED << asked, promise, performed >>

Perform(q) ==
    /\ promise[q] \in { "open", "unknown" }
    /\ q \in guarded => verdict[q] = "valid"
    /\ performed[q] = 0
    /\ performed' = [ performed EXCEPT ![q] = 1 ]
    /\ UNCHANGED << asked, promise, verdict >>

Settle(q) ==
    /\ promise[q] = "open"
    /\ \E s \in Settlements :
         /\ s = "done" => performed[q] = 1 \/ q \in unreported
         /\ s = "refused" => performed[q] = 0
         /\ promise' = [ promise EXCEPT ![q] = s ]
    /\ UNCHANGED << asked, verdict, performed >>

Next == \E q \in Requests : Open(q) \/ Refuse(q) \/ Judge(q) \/ Perform(q) \/ Settle(q)

Safety == Init /\ [][Next]_vars

Liveness == \A q \in Requests : WF_vars(Settle(q))

Spec == Safety /\ Liveness
=============================================================================
