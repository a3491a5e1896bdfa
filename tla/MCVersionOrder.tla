--------------------------- MODULE MCVersionOrder ---------------------------
(* An instance of VersionOrder: every version of up to three components, and   *)
(* the unknown one.                                                            *)
EXTENDS VersionOrder

\* V() is the zero version, which every server is at least.
MCVersions ==
    { [parts |-> p, unknown |-> FALSE] : p \in UNION { [1..n -> 0..MaxPart] : n \in 0..3 } }
        \cup { [parts |-> <<>>, unknown |-> TRUE] }

=============================================================================
