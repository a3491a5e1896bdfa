------------------------------ MODULE Listing -------------------------------
(***************************************************************************)
(* What a listing of a catalog promises, while other sessions change it.   *)
(*                                                                         *)
(* A listing that takes many statements sees no one moment of the catalog. *)
(* It may still not invent anything, and one that ends without an error    *)
(* has told everything that was there all along.                           *)
(***************************************************************************)
EXTENDS Naturals

CONSTANTS
    Objects,    \* what a catalog may hold
    Kinds,      \* what an object may be
    Parts       \* what there is to tell of one

VARIABLES
    catalog,    \* per object, what it is, or "absent"
    seen,       \* the objects that were there at some moment since the start
    stayed,     \* those that were there all the time
    asked,      \* those that the caller asks for
    lenient,    \* the service may refuse to tell of one, which is no error
    refused,    \* the objects it refused
    trouble,    \* something failed, or changed
    told,       \* what the caller was given
    outcome     \* how the listing ended

vars == <<catalog, seen, stayed, asked, lenient, refused, trouble, told, outcome>>

Present(c) == {<<o, c[o]>> : o \in {x \in Objects : c[x] # "absent"}}

Init ==
    /\ catalog \in [Objects -> Kinds \cup {"absent"}]
    /\ seen = Present(catalog) /\ stayed = Present(catalog)
    /\ asked \subseteq Objects \X Kinds
    /\ lenient \in BOOLEAN
    /\ refused = {} /\ trouble = FALSE /\ told = {}
    /\ outcome \in {"going", "done"}
    /\ outcome = "done" => asked = {}

\* Another session changes the catalog.
Change ==
    /\ \E o \in Objects, k \in Kinds \cup {"absent"} : catalog' = [catalog EXCEPT ![o] = k]
    /\ UNCHANGED <<asked, lenient, refused, told, outcome>>

\* And when it drops a whole database.
Drop ==
    /\ \E gone \in SUBSET Objects :
         catalog' = [o \in Objects |-> IF o \in gone THEN "absent" ELSE catalog[o]]
    /\ UNCHANGED <<asked, lenient, refused, told, outcome>>

Changes ==
    /\ Change \/ Drop
    /\ seen' = seen \cup Present(catalog')
    /\ stayed' = stayed \cap Present(catalog')
    /\ trouble' = TRUE

Fault ==
    /\ trouble' = TRUE
    /\ UNCHANGED <<catalog, seen, stayed, asked, lenient, refused, told, outcome>>

\* The caller is given what was there, and what it asked for.
Tell ==
    /\ outcome = "going"
    /\ \E it \in seen \cap asked, part \in Parts : told' = told \cup {<<it, part>>}
    /\ outcome' \in {"going", "stopped"}
    /\ UNCHANGED <<catalog, seen, stayed, asked, lenient, refused, trouble>>

Refuse ==
    /\ outcome = "going" /\ lenient
    /\ \E o \in Objects : refused' = refused \cup {o}
    /\ trouble' \in {trouble, TRUE}
    /\ UNCHANGED <<catalog, seen, stayed, asked, lenient, told, outcome>>

\* An end without an error: all of what stayed was told.
Done ==
    /\ outcome = "going"
    /\ \A it \in stayed \cap asked, part \in Parts :
         it[1] \in refused \/ <<it, part>> \in told
    /\ outcome' = "done"
    /\ UNCHANGED <<catalog, seen, stayed, asked, lenient, refused, trouble, told>>

\* Nothing fails for no reason.
Fail ==
    /\ outcome = "going" /\ trouble'
    /\ outcome' = "failed"
    /\ UNCHANGED <<catalog, seen, stayed, asked, lenient, refused, told>>

Next == Changes \/ Fault \/ Tell \/ Refuse \/ Done \/ Fail

Spec == Init /\ [][Next]_vars
=============================================================================
