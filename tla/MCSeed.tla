------------------------------- MODULE MCSeed -------------------------------
(* One process that runs one command after another and may die nearly anywhere. *)
EXTENDS Seed

CONSTANTS p1, p2

EveryCommand == {"start", "stop", "remove", "remove --seed", "test"}

\* Everywhere but between the mark and the removal of the container it was
\* built in, and between the removal of a database and that of its mark.
Elsewhere == Labels \ {"idle", "build.remove", "drop.golden", "drop.done"}

=============================================================================
