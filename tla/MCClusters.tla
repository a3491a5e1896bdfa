----------------------------- MODULE MCClusters -----------------------------
(* Instances of Clusters: two sessions that share a machine, one release whose *)
(* clusters have a name for each, and one whose name both of them come by.     *)
EXTENDS Clusters, TLC

CONSTANTS p1, p2, alice, bob, r1, r2, a1, b1, ab2

TwoOwners == (p1 :> alice) @@ (p2 :> bob)

OneOwner == p1 :> alice

\* ownerID keeps eight letters of an owner, so two may come by one name.
MCNameFor == (r1 :> ((alice :> a1) @@ (bob :> b1)))
               @@ (r2 :> ((alice :> ab2) @@ (bob :> ab2)))

MCReleaseOf == (a1 :> r1) @@ (b1 :> r1) @@ (ab2 :> r2)

Line(name, picked, force) == [name |-> name, picked |-> picked, force |-> force]

Lines ==
    (p1 :> { Line("start", <<r2, r1>>, TRUE), Line("start", <<r1>>, FALSE),
             Line("start", <<r2>>, FALSE), Line("remove", <<r2>>, FALSE), Line("start", <<>>, FALSE) })
      @@ (p2 :> { Line("start", <<r2>>, FALSE), Line("stop", <<r2>>, FALSE),
                  Line("stop", <<r1>>, FALSE), Line("remove", <<r1>>, FALSE) })

Of(n, o, t) == [name |-> n, owner |-> o, created |-> t]

Node(a, b, ab) == (a1 :> a) @@ (b1 :> b) @@ (ab2 :> ab)

\* At most one runs, and each node has its record.
WithinOne ==
    { [records |-> {}, node |-> Node("absent", "absent", "absent")],
      [records |-> {Of(b1, bob, 1)}, node |-> Node("absent", "up", "absent")],
      [records |-> {Of(ab2, bob, 1), Of(a1, alice, 2)}, node |-> Node("down", "absent", "up")],
      [records |-> {Of(a1, alice, 1), Of(b1, bob, 2), Of(ab2, bob, 3)}, node |-> Node("up", "down", "down")] }

---------------------------------------------------------------------------
\* One process that makes one cluster.
StartOnce == p1 :> { Line("start", <<r1>>, FALSE) }

Nothing == { [records |-> {}, node |-> Node("absent", "absent", "absent")] }

=============================================================================
