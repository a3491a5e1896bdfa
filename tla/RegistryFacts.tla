--------------------------- MODULE RegistryFacts ---------------------------
(***************************************************************************)
(* That the tables of the models keep to what module Registry says: facts  *)
(* about tables that are written out, so there is nothing in them to prove *)
(* but to evaluate.                                                        *)
(***************************************************************************)
EXTENDS Registry

ASSUME RegistryAssumption ==
    \A p \in AllProducts : \A b \in Registered(p) :
        /\ b \in BindingType
        /\ NamesOneKey(p, b)
        /\ AllOrNothing(p, b)
        /\ EachPieceIsDue(p, b)
        /\ ReadsAreHosted(p, b)
        /\ FieldsTell(p, b)
        /\ PadsRunOut(p, b)

=============================================================================
