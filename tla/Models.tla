------------------------------- MODULE Models -------------------------------
(***************************************************************************)
(* The models: every binding that a release or a product decides, built    *)
(* for servers on both sides of each of its gates.                         *)
(*                                                                         *)
(* A caller asks a query of a server.  Stmt.Build resolves the pieces one  *)
(* after the other by the rules of Choice.Resolve (module Resolve, whose   *)
(* loop is shown there to follow them) and stops at the first it cannot.   *)
(* Then the server may be upgraded and asked again.  What the statements   *)
(* have to get right is a matter of data: a piece gated on one release     *)
(* and the piece it depends on, or its field, gated on another.            *)
(***************************************************************************)
EXTENDS Registry

CONSTANTS
    Unreported,  \* a version the server did not report in a usable form
    Products,    \* the products whose models are in the binary
    Releases     \* per product, the main version and its own that servers report

ReportedVersion == Nat \cup {Unreported}

ASSUME ModelsAssumption ==
    /\ Unreported \notin Nat
    /\ Products \subseteq AllProducts
    /\ \A p \in Products : Releases[p] \subseteq [main : ReportedVersion, own : ReportedVersion]

VARIABLES
    product, server,   \* whom is asked, and its version set
    binding,           \* what is asked
    place,             \* the piece that Build resolves
    built,             \* the texts so far
    err,               \* what Build returned, or that it has not yet
    before             \* what was asked of the release before the upgrade

modelsVars == <<product, server, binding, place, built, err, before>>

---------------------------------------------------------------------------
(* What is registered, and what a server reports. *)

VersionSet(p, r) ==
    [key \in KeysOf(p) |-> IF key \in OwnKeys(p) THEN r.own ELSE r.main]

Servers(p) == { VersionSet(p, r) : r \in Releases[p] }

\* A later release of the same product.
Newer(vs, ws) ==
    /\ ws # vs
    /\ \A key \in DOMAIN vs : {vs[key], ws[key]} \subseteq Nat /\ vs[key] <= ws[key]

---------------------------------------------------------------------------
(* Choice.Resolve, Gate.Met and Field.Present. *)

ReportedKeys == { "" } \cup UNION { KeysOf(p) : p \in Products }

Rules(vs, texts) ==
    INSTANCE Resolve WITH
        versions <- vs, choice <- texts, Keys <- ReportedKeys, Main <- "", Unknown <- Unreported,
        NoText <- Empty, Texts <- {}, Choices <- {}, VersionSets <- {},
        i <- 1, best <- Empty, found <- FALSE, reachable <- 0, result <- Empty

Resolves(vs, texts) ==
    ~Rules(vs, texts)!TwoProducts /\ Rules(vs, texts)!Applicable # {}

Resolved(vs, texts) ==
    texts[CHOOSE n \in DOMAIN texts : Rules(vs, texts)!Winner(n)].query

WhyNot(vs, texts) ==
    IF Rules(vs, texts)!TwoProducts THEN "ErrAmbiguousFragment"
    ELSE IF Rules(vs, texts)!WrongProduct THEN "ErrNotSupported"
    ELSE "ErrVersionTooOld"

GateMet(gate, vs) == Rules(vs, <<>>)!Met(vs, gate)

Present(gates, vs) == \E g \in gates : GateMet(g, vs)

---------------------------------------------------------------------------
NotBuilt == "pending"

NotAsked == [server |-> <<>>, built |-> <<>>, err |-> "not asked"]

ModelsInit ==
    /\ product \in Products
    /\ server \in Servers(product)
    /\ binding \in Registered(product)
    /\ place = 1
    /\ built = <<>>
    /\ err = NotBuilt
    /\ before = NotAsked

Piece == binding.stmt[place].choice

Asking == err = NotBuilt /\ place <= Len(binding.stmt)

NextPiece ==
    /\ Asking
    /\ Resolves(server, Piece)
    /\ built' = Append(built, Resolved(server, Piece))
    /\ place' = place + 1
    /\ UNCHANGED <<product, server, binding, err, before>>

\* The first piece that cannot be resolved is what Build returns.
Refused ==
    /\ Asking
    /\ ~Resolves(server, Piece)
    /\ err' = WhyNot(server, Piece)
    /\ UNCHANGED <<product, server, binding, place, built, before>>

Built ==
    /\ err = NotBuilt /\ place > Len(binding.stmt)
    /\ err' = "nil"
    /\ UNCHANGED <<product, server, binding, place, built, before>>

Upgrade ==
    /\ err # NotBuilt /\ before = NotAsked
    /\ \E vs \in Servers(product) : Newer(server, vs) /\ server' = vs
    /\ before' = [server |-> server, built |-> built, err |-> err]
    /\ place' = 1 /\ built' = <<>> /\ err' = NotBuilt
    /\ UNCHANGED <<product, binding>>

ModelsNext == NextPiece \/ Refused \/ Built \/ Upgrade

ModelsSpec == ModelsInit /\ [][ModelsNext]_modelsVars

---------------------------------------------------------------------------
(* Properties. *)

Answered(vs) == \A j \in DOMAIN binding.stmt : Resolves(vs, binding.stmt[j].choice)

\* A caller acts on the two refusals: ErrVersionTooOld says that some release of
\* the product answers, and ErrNotSupported that none does, whatever piece of the
\* statement happened to be the first that could not be resolved.  The third,
\* ErrAmbiguousFragment, reaches no caller: no server that a product can be reports
\* two keys that one piece has a fragment for.
RefusalTells ==
    /\ err # "ErrAmbiguousFragment"
    /\ err = "ErrVersionTooOld" => \E vs \in Servers(product) : Newer(server, vs) /\ Answered(vs)
    /\ err = "ErrNotSupported" => \A vs \in Servers(product) : ~Answered(vs)

\* What a statement reads from a relation that only some servers have is put in
\* its FROM on exactly those servers: the piece with the column and the piece with
\* the join are gated apart and have to agree on every release.
Joined == UNION { built[j].joins : j \in DOMAIN built }

ReadsWhatIsJoined ==
    err = "nil" => \A j \in DOMAIN built : built[j].reads \subseteq Joined \cup {Everywhere}

\* The fields that Field.Present is asked about and the columns that are padded
\* on this server.
SaysPresent == UNION { p.names : p \in { q \in { binding.stmt[j] : j \in DOMAIN binding.stmt } :
                                            Present(q.gates, server) } }

Padded == UNION { binding.stmt[j].names : j \in { h \in DOMAIN built : built[h].pads } }

\* The fields of which Present says one thing and the statement does another.
Astray ==
    IF err # "nil" THEN {}
    ELSE { name \in UNION { binding.stmt[j].names : j \in DOMAIN built } :
               (name \in SaysPresent) # (name \notin Padded) }

\* The comment on Field.Present: a field that is present has a real source on the
\* server, and one that is not is padded with NULL, so that a caller who reads
\* NULL learns which of the two it is.
FieldsTellTheirSource == Astray = {}

\* Every other field of every model tells a caller what the statement does with
\* its column, on both sides of every gate: the gate of the field is written
\* apart from the gates of the fragments, and of a product's own key.
PresentTells == Astray \subseteq KnownAstray(product, binding.query)

\* A statement that answers goes on answering after an upgrade, and no column
\* that had a source before it is padded after it.
PaddedBefore == UNION { binding.stmt[j].names : j \in { h \in DOMAIN before.built : before.built[h].pads } }

UpgradeLosesNothing ==
    before.err = "nil" /\ err # NotBuilt => err = "nil" /\ Padded \subseteq PaddedBefore

=============================================================================
