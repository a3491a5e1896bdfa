------------------------------ MODULE MCModels ------------------------------
(* Every product, with servers on both sides of every gate of its model.    *)
EXTENDS Models

Pair(main, own) == [main |-> main, own |-> own]

\* The releases that the fragments and the fields gate on, and the one below each.
Fragments(b) == UNION { { b.stmt[j].choice[n] : n \in DOMAIN b.stmt[j].choice } : j \in DOMAIN b.stmt }
Gates(b)     == UNION { b.stmt[j].gates : j \in DOMAIN b.stmt }

Mins(p) ==
    { g.min : g \in { h \in UNION { Fragments(b) \cup Gates(b) : b \in Registered(p) } :
                          h.key \in MainKeys(p) /\ h.min > 0 } }

OfOneVersion(p) ==
    { Pair(m, m) : m \in Mins(p) \cup { m - 1 : m \in Mins(p) } \cup {Unreported} }

\* Products that claim another's release report the pairs that were measured.
MCReleases ==
    [p \in AllProducts |->
        CASE p = "cockroachdb" -> {Pair(v13, V(24, 3, 0)), Pair(v13, V(26, 1, 9)), Pair(v13, V(26, 2, 0)),
                                   Pair(v18, V(26, 3, 0))}
          [] p = "cratedb"     -> {Pair(v14, V(6, 3, 7)), Pair(v14, V(6, 4, 0)), Pair(v14, V(6, 4, 5))}
          [] p = "tidb"        -> {Pair(V(8, 0, 11), r) : r \in {V(7, 5, 8), V(8, 1, 2), V(8, 5, 0), V(8, 5, 8)}}
          [] p = "vitess"      -> {Pair(V(8, 4, 6), V(24, 0, 3))}
          [] p = "singlestore" -> {Pair(V(5, 7, 32), V(9, 0, 0)), Pair(V(5, 7, 32), V(9, 1, 1))}
          [] p = "scylladb"    -> {Pair(V(3, 0, 8), r) : r \in {Unreported, V(2026, 2, 0), V(2026, 3, 1)}}
          [] OTHER             -> OfOneVersion(p)]

=============================================================================
