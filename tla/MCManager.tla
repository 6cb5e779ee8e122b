----------------------------- MODULE MCManager -----------------------------
(* Values of the manager's function-valued constants for TLC. *)
EXTENDS Manager, TLC

CONSTANTS p1, p2, capA, capB, o1, o2

\* p1 is a managed process with a capability of its own and one it shares with
\* p2, a server started by hand.
MCCapsOf == [p \in Plugins |-> IF p = p1 THEN { capA, capB } ELSE { capB }]

AlwaysRestart == [p \in Plugins |-> "always"]
RestartOnFailure == [p \in Plugins |-> "on-failure"]
MixedPolicy == [p \in Plugins |-> IF p = p1 THEN "always" ELSE "never"]

OperatorSymmetry == Permutations(Operators)
=============================================================================
