------------------------------ MODULE Registry ------------------------------
(***************************************************************************)
(* The capability registry (src/forge/src/registry.rs): for each           *)
(* capability the ordered list of the plugin instances that offer it, and  *)
(* the policy by which a call chooses one of them.                         *)
(*                                                                         *)
(* DashMap guards every key by a lock of its shard: `lookup` holds it      *)
(* while it filters, advances the round-robin counter and picks, and so    *)
(* does `register` while it appends.  `deregister` visits the keys one     *)
(* after another; a lookup reads a single key, so no caller can tell that  *)
(* from one step.  Each operation is therefore one action.                 *)
(***************************************************************************)
EXTENDS Naturals, Sequences, FiniteSets

CONSTANTS
    Capabilities,   \* capability names
    Versions,       \* versions a plugin may offer of a capability
    Plugins,        \* plugin names
    Instances,      \* instance ids: each start of a plugin draws a fresh one
    CounterSize     \* values of the round-robin counter, 2^64 in the code

ASSUME CounterSizeAssumption == CounterSize \in Nat \ { 0 }

Strategies == { "FirstReadyWins", "RoundRobin" }

\* PluginHandle
Handles == [ plugin_name : Plugins, instance_id : Instances ]

\* CapabilityEntry; its `name` is the key it is stored under.
Entries == [ version : Versions, plugin_handle : Handles ]

\* semver::VersionReq, as the set of the versions it matches.
Constraints == SUBSET Versions
Star == Versions

VARIABLES
    inner,        \* capability -> sequence of entries; an absent key is << >>
    rr_counter,   \* capability -> calls counted so far; an absent key is 0
    resolution    \* the strategy chosen when the registry was built

registryVars == << inner, rr_counter, resolution >>

RegistryTypeOK ==
    /\ inner \in [ Capabilities -> Seq(Entries) ]
    /\ rr_counter \in [ Capabilities -> 0 .. CounterSize - 1 ]
    /\ resolution \in Strategies

\* Registry::new builds FirstReadyWins, Registry::with_resolution either.  The
\* registry is empty then; `registered` is what plugins have added since.
NewRegistry(strategy, registered) ==
    /\ inner = registered
    /\ rr_counter = [ c \in Capabilities |-> 0 ]
    /\ resolution = strategy

\* The entries of a list at the positions T, in their order.
Filtered(s, T) ==
    [ n \in 1 .. Cardinality(T) |-> s[CHOOSE i \in T : Cardinality({ j \in T : j <= i }) = n] ]

Registers(c, v, h) ==
    inner' = [ inner EXCEPT ![c] = Append(@, [ version |-> v, plugin_handle |-> h ]) ]

\* Mutant: the walk over the keys ends at the first one that lists the plugin.
DeregistersFirst(name) ==
    LET Rest(c) == { i \in DOMAIN inner[c] : inner[c][i].plugin_handle.plugin_name # name }
        first == CHOOSE c \in Capabilities : Rest(c) # DOMAIN inner[c]
    IN inner' = [ inner EXCEPT ![first] = Filtered(@, Rest(first)) ]

\* By plugin name alone: every instance of the plugin goes.
Deregisters(name) ==
    inner' = [ c \in Capabilities |->
                 Filtered(inner[c], { i \in DOMAIN inner[c] :
                                        inner[c][i].plugin_handle.plugin_name # name }) ]

\* Mutant: the lookup does not ask for the version.
MatchingAny(c, con) ==
    Filtered(inner[c], { i \in DOMAIN inner[c] : inner[c][i].version \in Versions })

Matching(c, con) ==
    Filtered(inner[c], { i \in DOMAIN inner[c] : inner[c][i].version \in con })

\* The entry a lookup with a match returns ...
TurnOf(c, con) == (rr_counter[c] % Len(Matching(c, con))) + 1

Found(c, con) ==
    LET matching == Matching(c, con)
    IN IF resolution = "RoundRobin" THEN matching[TurnOf(c, con)] ELSE matching[1]

\* Mutant: a lookup counts for two.
CountsTurnTwice(c) ==
    rr_counter' = IF resolution = "RoundRobin"
                  THEN [ rr_counter EXCEPT ![c] = (@ + 2) % CounterSize ]
                  ELSE rr_counter

\* ... and the counter it leaves: `fetch_add` wraps at the integer's width,
\* and only a round-robin lookup that has a match reaches it.
CountsTurn(c) ==
    rr_counter' = IF resolution = "RoundRobin"
                  THEN [ rr_counter EXCEPT ![c] = (@ + 1) % CounterSize ]
                  ELSE rr_counter

=============================================================================
