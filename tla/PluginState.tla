---------------------------- MODULE PluginState ----------------------------
(***************************************************************************)
(* The lifecycle states of a plugin and the moves PluginState::transition  *)
(* permits (src/forge/src/lifecycle.rs).  Every caller in the manager      *)
(* ignores the error of an illegal move, so a refused move is a stutter:   *)
(* Transition returns the state the entry has afterwards.                  *)
(***************************************************************************)

PluginStates == { "Discovered", "Connecting", "Handshaking", "Ready",
                  "Degraded", "Draining", "Stopped" }

\* The manager's map holds no entry for the plugin.
Absent == "Absent"

\* The states in which the manager takes a plugin to be running.
Serving == { "Ready", "Degraded" }

\* Mutant: a start that did not get through cannot be given up.
NoAbortMoves ==
    { <<"Discovered", "Connecting">>, <<"Connecting", "Handshaking">>,
      <<"Handshaking", "Ready">>, <<"Ready", "Degraded">>,
      <<"Degraded", "Ready">>, <<"Draining", "Stopped">> }
    \cup { <<s, t>> : s \in Serving, t \in { "Draining", "Stopped" } }
    \cup { <<s, "Discovered">> : s \in { "Stopped", "Connecting" } }

LegalMoves ==
    { <<"Discovered", "Connecting">>, <<"Connecting", "Handshaking">>,
      <<"Handshaking", "Ready">>, <<"Ready", "Degraded">>,
      <<"Degraded", "Ready">> }
    \cup { <<s, "Draining">> : s \in Serving }
    \cup { <<s, "Stopped">> : s \in PluginStates \ { "Stopped" } }
    \cup { <<s, "Discovered">> : s \in { "Stopped", "Connecting" } }

Transition(from, to) == IF <<from, to>> \in LegalMoves THEN to ELSE from
=============================================================================
