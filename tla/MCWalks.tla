------------------------------ MODULE MCWalks -------------------------------
(***************************************************************************)
(* Two databases, one with two names and one with one, two of the three    *)
(* asked for or none, and two changes by other sessions.                   *)
(***************************************************************************)
EXTENDS Walks

MCObjects == {<<"d1", "x">>, <<"d1", "y">>, <<"d2", "z">>}
MCAsking  == {{"x", "y"}, {"x", "z"}, {}}
AllFaults == {"service", "garbled", "cancel"}
=============================================================================
