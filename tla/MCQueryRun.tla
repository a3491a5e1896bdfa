----------------------------- MODULE MCQueryRun -----------------------------
(* An instance of QueryRun: callers that ask nothing while a statement is open, *)
(* and callers whose bodies open statements inside statements.                  *)
EXTENDS QueryRun, TLC

CONSTANTS c1, c2, c3

\* Two callers that read one statement each, and one that asks within walks.
Within == (c1 :> <<"stmt">>) @@ (c2 :> <<"stmt">>) @@ (c3 :> <<"walk", "walk", "stmt">>)

\* Two callers that do what Query.All says not to, beside one that does not.
Nested == (c1 :> <<"stmt", "walk">>) @@ (c2 :> <<"stmt", "stmt">>) @@ (c3 :> <<"stmt">>)

EveryPlan == {Within, Nested}

=============================================================================
