----------------------------- MODULE MCResolve -----------------------------
(* A small instance of Resolve: two products beside the main key, two       *)
(* releases, and every choice of up to three alternatives.                  *)
EXTENDS Resolve, RegistryFacts

CONSTANTS a, b   \* two named keys, such as "mariadb" and "cql"

MCKeys == {Main, a, b}

\* Up to three alternatives.  The text of each alternative is the place it
\* was written in, which tells every alternative from every other.
MCChoices ==
    UNION { { [n \in 1..k |-> [key |-> g[n][1], min |-> g[n][2], query |-> n]] :
                g \in [1..k -> MCKeys \X {0, 1, 2}] } : k \in 0..3 }

MCTexts == 1..3

MCVersionSets ==
    UNION { [ks -> {1, 2, Unknown}] : ks \in { ks \in SUBSET MCKeys : Main \in ks } }
      \cup {<<>>}

=============================================================================
