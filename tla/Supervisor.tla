----------------------------- MODULE Supervisor -----------------------------
(***************************************************************************)
(* What the rest of the kernel may rely on of the plugins' supervision,    *)
(* however starts, crashes, restarts and shutdowns interleave: each        *)
(* instance that comes up is a newer one than those before it; only the    *)
(* newest instance of a plugin is advertised, a capability at a time and   *)
(* only those the plugin has; and a plugin is withdrawn as a whole.  So    *)
(* what a lookup finds of an instance can only become less from the moment *)
(* a newer one of its plugin comes up, and is nothing once the plugin has  *)
(* been withdrawn.                                                         *)
(***************************************************************************)
EXTENDS Naturals

CONSTANTS
    Plugins,
    MayOffer    \* the capabilities each plugin may advertise

VARIABLES
    newest,     \* plugin -> the instance that came up last; 0 before the first
    offered     \* what a lookup may find: records of capability, plugin, instance

vars == << newest, offered >>

\* The kernel comes up with no plugin, or with some that are ready.
Init ==
    /\ newest \in [ Plugins -> Nat ]
    /\ \A h \in offered : h.plugin \in Plugins /\ h.inst = newest[h.plugin]

ComesUp(p) ==
    /\ newest'[p] > newest[p]
    /\ newest' = [ newest EXCEPT ![p] = newest'[p] ]
    /\ UNCHANGED offered

Advertises(p) ==
    /\ newest[p] > 0
    /\ \E c \in MayOffer[p] :
          offered' = offered \cup { [ cap |-> c, plugin |-> p, inst |-> newest[p] ] }
    /\ UNCHANGED newest

Withdraws(ps) ==
    /\ offered' = { h \in offered : h.plugin \notin ps }
    /\ UNCHANGED newest

Next ==
    \/ \E p \in Plugins : ComesUp(p) \/ Advertises(p)
    \/ \E ps \in SUBSET Plugins : Withdraws(ps)

Spec == Init /\ [][Next]_vars
=============================================================================
