------------------------------- MODULE MCRows -------------------------------
(***************************************************************************)
(* Every model that reads its rows by position.                            *)
(***************************************************************************)
EXTENDS Rows

AllModels == DOMAIN Bound

\* The products of which scan.go says that they read '' as NULL.
MCNoEmptyText == {"oracle", "exasol"}
=============================================================================
