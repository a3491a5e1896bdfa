------------------------------ MODULE Registry ------------------------------
(***************************************************************************)
(* What init registers: which bindings answer for a product, and under     *)
(* which keys its server reports versions.  Then what the tables of the    *)
(* models keep to, whatever the release: facts about the pieces as they    *)
(* are written, with no server in them, that module RegistryFacts has      *)
(* evaluated and the theorems about Models rest on.                        *)
(***************************************************************************)
EXTENDS Naturals, Sequences, PostgresModels, MySQLModels, OtherModels

AllProducts ==
    {"postgres", "cockroachdb", "cratedb", "mysql", "mariadb", "tidb", "vitess", "singlestore",
     "sqlserver", "oracle", "clickhouse", "cassandra", "scylladb", "vertica", "firebird"}

Registered(p) ==
    CASE p = "postgres"             -> Postgres
      [] p = "cockroachdb"          -> CockroachDB
      [] p = "cratedb"              -> CrateDB
      [] p \in {"mysql", "mariadb"} -> MySQL
      [] p = "tidb"                 -> TiDB
      [] p = "vitess"               -> Vitess
      [] p = "singlestore"          -> SingleStore
      [] p = "sqlserver"            -> SQLServer
      [] p = "oracle"               -> Oracle
      [] p = "clickhouse"           -> ClickHouse
      [] p \in {"cassandra", "scylladb"} -> Cassandra
      [] p = "vertica"              -> Vertica
      [] p = "firebird"             -> Firebird

\* The keys under which the main version, or the release it claims, is set.
MainKeys(p) ==
    {""} \cup
    CASE p = "mariadb" -> {"mariadb"}
      [] p \in {"mysql", "tidb", "vitess", "singlestore"} -> {"mysql"}
      [] OTHER -> {}

\* The key of the product's own release, where the main one is another's.
OwnKeys(p) ==
    CASE p \in {"cockroachdb", "cratedb", "tidb", "vitess"} -> {p}
      [] p = "singlestore" -> {"memsql"}
      [] p = "scylladb"    -> {"scylla"}
      [] OTHER             -> {}

KeysOf(p) == MainKeys(p) \cup OwnKeys(p)

\* The newest release of the other product that p claims to be, as was measured.
Claimed(p) ==
    CASE p = "cockroachdb" -> v18
      [] p = "cratedb"     -> v14
      [] p = "tidb"        -> V(8, 0, 11)
      [] p = "vitess"      -> V(8, 4, 6)
      [] p = "singlestore" -> V(5, 7, 32)
      [] p = "scylladb"    -> V(3, 0, 8)

\* What a release of p will reach some day: a gate on p's own releases, or one on
\* another's that is no later than what p claims.
Due(p, g) == OwnKeys(p) # {} /\ g.key \notin OwnKeys(p) => g.min <= Claimed(p)

---------------------------------------------------------------------------
(* How the gates of one product stand to each other on every release.      *)

Names(f) == f.key # ""

\* Wherever the server of a product meets the gate g it meets f, whose key it
\* reports: any release of that key does, or an earlier one.
Implied(f, g) == f.min = 0 \/ (f.key = g.key /\ f.min <= g.min)

\* Choice.Resolve prefers f to g where both are met.
Beats(f, g) == (Names(f) /\ ~Names(g)) \/ (f.key = g.key /\ g.min < f.min)

\* The alternatives of a piece that a server of the product can meet.
Meant(p, texts) == { n \in DOMAIN texts : texts[n].key \in KeysOf(p) }

\* Where the gate g is met, alternative m is not the one that is used.
Beaten(p, texts, m, g) ==
    \E h \in Meant(p, texts) : Implied(texts[h], g) /\ Beats(texts[h], texts[m])

---------------------------------------------------------------------------
(* What the tables keep to. *)

GateType == [key : STRING, min : Nat]

FragmentType ==
    [key : STRING, min : Nat,
     query : [pads : BOOLEAN, reads : SUBSET STRING, joins : SUBSET STRING]]

PieceType == [names : SUBSET STRING, gates : SUBSET GateType, choice : Seq(FragmentType)]

BindingType == [query : STRING, stmt : Seq(PieceType)]

\* No product reports two keys that one piece names.
NamesOneKey(p, b) ==
    \A j \in DOMAIN b.stmt :
      \A m, n \in Meant(p, b.stmt[j].choice) :
        LET f == b.stmt[j].choice[m]
            g == b.stmt[j].choice[n]
        IN  Names(f) /\ Names(g) => f.key = g.key

\* Some release of the product could be asked the whole statement, or none could
\* be asked any of it.
Supports(p, b) == \A j \in DOMAIN b.stmt : Meant(p, b.stmt[j].choice) # {}

AllOrNothing(p, b) ==
    Supports(p, b)
      \/ \A j \in DOMAIN b.stmt : b.stmt[j].choice # <<>> /\ Meant(p, b.stmt[j].choice) = {}

\* A statement that a product supports waits for no release that will not come.
EachPieceIsDue(p, b) ==
    Supports(p, b) =>
      \A j \in DOMAIN b.stmt :
        \E n \in Meant(p, b.stmt[j].choice) : Due(p, b.stmt[j].choice[n])

\* What alternative m of piece j reads, piece d puts in the FROM: each of its
\* alternatives does, but those that cannot be used together with m.
HostedBy(p, b, j, m, relation, d) ==
    LET reader == b.stmt[j].choice
        host   == b.stmt[d].choice
    IN  \A h \in Meant(p, host) :
           \/ relation \in host[h].query.joins
           \/ Beaten(p, host, h, reader[m])
           \/ Beaten(p, reader, m, host[h])

ReadsAreHosted(p, b) ==
    \A j \in DOMAIN b.stmt :
      \A m \in Meant(p, b.stmt[j].choice) :
        \A relation \in b.stmt[j].choice[m].query.reads \ {Everywhere} :
          \E d \in DOMAIN b.stmt : HostedBy(p, b, j, m, relation, d)

\* The gates of a field are met with the alternatives that have a source for it,
\* and with none that pads it.
GatesTell(p, piece) ==
    \A m \in Meant(p, piece.choice) :
      IF piece.choice[m].query.pads
      THEN \A g \in piece.gates : g.key \in KeysOf(p) => Beaten(p, piece.choice, m, g)
      ELSE \/ Beaten(p, piece.choice, m, piece.choice[m])
           \/ \E g \in piece.gates : g.key \in KeysOf(p) /\ Implied(g, piece.choice[m])

\* Two pieces for one field are gated alike.
GatedAlike(b) ==
    \A j, l \in DOMAIN b.stmt :
      b.stmt[j].names \cap b.stmt[l].names # {} => b.stmt[j].gates = b.stmt[l].gates

\* An alternative that pads never takes over from one that does not: where the one
\* is met the other loses, or the one is never used.
PadsRunOut(p, b) ==
    \A j \in DOMAIN b.stmt :
      \A m, n \in Meant(p, b.stmt[j].choice) :
        LET texts == b.stmt[j].choice
        IN  texts[n].query.pads /\ ~texts[m].query.pads =>
              Beaten(p, texts, n, texts[m]) \/ Beaten(p, texts, m, texts[m])

\* The fields for which the gates of the models do not hold to that.
KnownAstray(p, query) ==
    CASE p = "cockroachdb" ->
           (CASE query = "OperatorClasses"   -> {"visible", "family_visible"}
              [] query \in {"OperatorFamilies", "OperatorFamilyFunctions"} -> {"visible"}
              [] query = "Extensions"        -> {"default_version"}
              [] query = "PartitionedTables" -> {"direct_size", "total_size"}
              [] OTHER                       -> {})
      [] p \in {"mysql", "vitess"} /\ query = "Settings"  -> {"type", "context"}
      [] p = "tidb" /\ query = "Tables"                    -> {"persistence"}
      [] p = "sqlserver" /\ query = "ColumnStats"          -> {"catalog", "schema", "table", "name"}
      [] p = "vertica" /\ query = "Columns"                -> {"comment"}
      [] p = "vertica" /\ query = "Constraints"            -> {"definition"}
      [] p = "vertica" /\ query \in {"Functions", "Aggregates"} -> {"owner"}
      [] p = "firebird" /\ query = "Indexes"               -> {"predicate"}
      [] OTHER                                             -> {}

FieldsTell(p, b) ==
    /\ GatedAlike(b)
    /\ \A j \in DOMAIN b.stmt :
          b.stmt[j].names \subseteq KnownAstray(p, b.query) \/ GatesTell(p, b.stmt[j])

=============================================================================
