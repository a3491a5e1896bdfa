----------------------------- MODULE Ownership -----------------------------
(***************************************************************************)
(* What dbrun promises the sessions that share a machine, seen from one of *)
(* them: whatever the commands of that session do to the containers, a     *)
(* running server of somebody else is left alone, a stopped container of   *)
(* somebody else is only ever replaced by one of the session's own, and a  *)
(* machine keeps its owner (owner.go: ownerLabel, mayTouch, claimable).    *)
(*                                                                         *)
(* Module Servers is the commands; this is the requirement they are        *)
(* checked against while no other session is at work.                      *)
(***************************************************************************)
CONSTANTS Targets, Machines, Session, NoOwner, Absent

VARIABLE cont

Mine(t) == cont[t] # Absent /\ cont[t].owner \in {Session, NoOwner}

Becomes(t, c) == cont' = [cont EXCEPT ![t] = c]

Create(t) ==
    /\ cont[t] = Absent /\ t \notin Machines
    /\ \E r \in BOOLEAN : Becomes(t, [owner |-> Session, ports |-> TRUE, running |-> r])

Switch(t) ==
    /\ Mine(t)
    /\ \E r \in BOOLEAN : Becomes(t, [cont[t] EXCEPT !.running = r])

Remove(t) ==
    /\ \/ Mine(t)
       \/ cont[t] # Absent /\ t \notin Machines /\ ~cont[t].running
    /\ Becomes(t, Absent)

Next == \E t \in Targets : Create(t) \/ Switch(t) \/ Remove(t)

Spec == [][Next]_cont

=============================================================================
