------------------------------ MODULE MCDaemon ------------------------------
(* Worlds for TLC: configurations, a directory that is edited, clients. *)
EXTENDS Daemon, TLC

CONSTANTS p1, p2, c1, c2, ip1, ip2

MCClientOf == (c1 :> ip1) @@ (c2 :> ip2)

Says(version, tls, watch, limit) ==
    [ version |-> version, tls |-> tls, watch |-> watch, limit |-> limit ]
Silent == Says(Unset, Unset, Unset, Unset)

There == [ mtime |-> 1, st |-> "valid" ]
Nothing == [ mtime |-> Unseen, st |-> "absent" ]

World(files, envs, more) ==
    { more @@ [ read |-> "fine", file |-> f, env |-> e, disk |-> [ p \in Paths |-> Nothing ], edits |-> FALSE,
                clients |-> {}, signals |-> FALSE, interrupts |-> FALSE ] : f \in files, e \in envs }

\* Every way to configure the daemon.
OneThere == (p1 :> There) @@ (p2 :> Nothing)
Configured ==
    World({ Silent, Says("2.x", "true", "false", "some") },
          { Silent, Says("1.x", "yes", "true", "garbage"), Says("2.x", "1", "1", "none") },
          [ interrupts |-> TRUE, disk |-> OneThere ])
      \cup UNION { World({ Silent }, { Silent }, [ read |-> r ]) : r \in { "unreadable", "malformed" } }

\* One manifest to begin with; both files are edited.
Edited == World({ Says("1.x", Unset, "true", Unset) }, { Silent },
                [ edits |-> TRUE, disk |-> OneThere ])

\* Clients of a listener, plain or TLS, with and without the limiter.
Served == World({ Says("1.x", tls, "false", "some") : tls \in { "true", "false" } }, { Silent },
                [ clients |-> Connections, interrupts |-> TRUE ])
            \cup World({ Says("1.x", tls, "false", "none") : tls \in { "true", "false" } }, { Silent },
                       [ clients |-> { c1 }, signals |-> TRUE ])

MCWorlds == Configured \cup Edited \cup Served
=============================================================================
