--------------------------- MODULE PostgresModels ---------------------------
(***************************************************************************)
(* The bindings of models/postgres that a release or a product decides,    *)
(* those that CockroachDB and CrateDB share, and the ones of their own     *)
(* (models/postgres, models/cockroachdb, models/cratedb).                  *)
(***************************************************************************)
EXTENDS Fragments, Sequences

v95 == V(9, 5, 0)
v10 == V(10, 0, 0)
v11 == V(11, 0, 0)
v12 == V(12, 0, 0)
v13 == V(13, 0, 0)
v14 == V(14, 0, 0)
v15 == V(15, 0, 0)
v16 == V(16, 0, 0)
v17 == V(17, 0, 0)
v18 == V(18, 0, 0)

\* What the statements shared with CockroachDB write for it.
Cockroach(text) == On("cockroachdb", 0, text)

---------------------------------------------------------------------------
(* models/postgres/catalog.go and postgres.go. *)

pgDatabases == Binding("Databases", <<
    Changed("locale_provider", v15, Source),
    Column("locale", From(v15), <<Base(Padding), Since(v15, Source), Since(v17, Source)>>),
    PaddedBelow("icu_rules", v16, Source)>>)

pgCollations == Binding("Collations", <<
    PaddedBelow("provider", v10, Source),
    Column("locale", Always, <<Base(Source), Since(v15, Source), Since(v17, Source)>>),
    Changed("deterministic", v12, Source),
    PaddedBelow("rules", v16, Source)>>)

pgSettings == Binding("Settings", <<
    PaddedBelow("access", v15, Reads("pg_parameter_acl")),
    JoinedFrom(v15, "pg_parameter_acl")>>)

\* Mutant: the join comes one release after the column that reads it.
pgTablesLateJoin == Binding("Tables", <<
    PaddedBelow("access_method", v12, Reads("pg_am")),
    JoinedFrom(v13, "pg_am")>>)

pgTables == Binding("Tables", <<
    PaddedBelow("access_method", v12, Reads("pg_am")),
    JoinedFrom(v12, "pg_am")>>)

pgColumns == Binding("Columns", <<
    PaddedBelow("identity", v11, Source),
    PaddedBelow("generated", v12, Source),
    PaddedBelow("compression", v14, Source)>>)

---------------------------------------------------------------------------
(* models/postgres/replication.go. *)

pgPublications == Binding("Publications", <<
    Row({"name", "owner", "all_tables", "insert", "update", "delete", "comment"}, v10),
    Column("truncate", From(v10), <<Since(v10, Source), Since(v11, Source)>>),
    Column("via_root", From(v10), <<Since(v10, Source), Since(v13, Source)>>),
    Column("generated_columns", From(v10), <<Since(v10, Source), Since(v18, Source)>>)>>)

pgPublicationTables == Binding("PublicationTables", <<
    Row({"publication", "schema", "name", "via"}, v10),
    Column("columns", From(v10), <<Since(v10, Source), Since(v15, Source)>>),
    Column("where", From(v10), <<Since(v10, Source), Since(v15, Source)>>),
    Clause(<<Since(v10, Empty), Since(v15, Source), Cockroach(Empty)>>),
    Clause(<<Since(v10, Source), Cockroach(Empty)>>)>>)

\* Padded from the first release that has subscriptions.
SubscriptionOption(name, min) ==
    Column(name, From(min), <<Since(v10, Padding), Since(min, Source)>>)

\* Mutant: the field says that it has a source one release too early.
pgSubscriptionsEarly == Binding("Subscriptions", <<
    Row({"name", "owner", "enabled", "publications", "synchronous", "slot", "comment"}, v10),
    SubscriptionOption("binary", v14),
    Column("streaming", From(v13), <<Since(v10, Padding), Since(v14, Source), Since(v16, Source)>>),
    SubscriptionOption("failover", v17)>>)

pgSubscriptions == Binding("Subscriptions", <<
    Row({"name", "owner", "enabled", "publications", "synchronous", "slot", "comment"}, v10),
    SubscriptionOption("binary", v14),
    Column("streaming", From(v14), <<Since(v10, Padding), Since(v14, Source), Since(v16, Source)>>),
    SubscriptionOption("two_phase", v15),
    SubscriptionOption("disable_on_error", v15),
    SubscriptionOption("origin", v16),
    SubscriptionOption("password_required", v16),
    SubscriptionOption("run_as_owner", v16),
    SubscriptionOption("failover", v17),
    SubscriptionOption("skip_lsn", v15)>>)

pgSubscriptionConnections == Binding("SubscriptionConnections", <<Row({"name", "conninfo"}, v10)>>)

\* A column that CockroachDB has no source for.
NotOnCockroach(name, text) == Column(name, Always, <<Base(text), Cockroach(Padding)>>)

pgOperatorClasses == Binding("OperatorClasses", <<
    NotOnCockroach("visible", Source),
    NotOnCockroach("family_visible", Source)>>)

pgOperatorFamilies == Binding("OperatorFamilies", <<
    Column("applies_to", Always, <<Base(Source), Cockroach(Source)>>),
    NotOnCockroach("visible", Source)>>)

pgOperatorFamilyFunctions == Binding("OperatorFamilyFunctions", <<NotOnCockroach("visible", Source)>>)

pgExtensions == Binding("Extensions", <<
    NotOnCockroach("default_version", Reads("pg_available_extensions")),
    Clause(<<Base(Joins("pg_available_extensions")), Cockroach(Empty)>>)>>)

pgExtendedStats == Binding("ExtendedStats", <<
    Row({"schema", "name", "owner", "table", "kinds", "comment", "ndistinct", "dependencies",
         "mcv", "table_visible"}, v10),
    Column("definition", From(v10), <<Since(v10, Source), Since(v14, Source)>>),
    Column("stats_target", From(v13), <<Since(v10, Padding), Since(v13, Source)>>)>>)

\* One part of the union, which CockroachDB has its own form of, twice.
pgComments == Binding("Comments", <<
    Clause(<<Base(Source), Cockroach(Source)>>),
    Clause(<<Base(Source), Cockroach(Source)>>)>>)

---------------------------------------------------------------------------
(* models/postgres/role.go, routine.go, section.go and table.go. *)

pgRoleGrants == Binding("RoleGrants", <<
    PaddedBelow("grantor", v16, Reads("pg_roles g")),
    Changed("inherit", v16, Source),
    Changed("set", v16, Source),
    JoinedFrom(v16, "pg_roles g")>>)

\* functionStmt.
functionStmt == <<Changed("kind", v11, Source), Changed("definition", v11, Source)>>

pgFunctions == Binding("Functions", functionStmt)

pgAggregates ==
    Binding("Aggregates", functionStmt \o <<Clause(<<Base(Source), Since(v11, Source)>>)>>)

pgPartitions == Binding("Partitions", <<
    Row({"schema", "table", "partition_schema", "partition", "type", "bound", "constraint",
         "partitioned", "table_visible", "partition_visible"}, v10),
    Column("detach_pending", From(v10), <<Since(v10, Source), Since(v14, Source)>>)>>)

pgInherits == Binding("Inherits", <<Changed("partition", v10, Source)>>)

pgPolicies == Binding("Policies", <<
    Row({"schema", "table", "name", "command", "roles", "using", "with_check", "comment"}, v95),
    Column("permissive", From(v95), <<Since(v95, Source), Since(v10, Source)>>)>>)

pgNotNulls == Binding("NotNulls", <<
    Row({"schema", "table", "name", "column", "no_inherit", "local", "inherited", "validated"}, v18)>>)

pgIndexes == Binding("Indexes", <<Changed("constraint_period", v18, Source)>>)

pgIndexColumns == Binding("IndexColumns", <<Changed("include", v11, Source)>>)

pgSequences == Binding("Sequences", <<
    Columns({"data_type", "start", "minimum", "maximum", "increment", "cycles", "cache_size"},
            From(v10), <<Base(Padding), Since(v10, Reads("pg_sequence"))>>),
    JoinedFrom(v10, "pg_sequence")>>)

pgPartitionedTables == Binding("PartitionedTables", <<
    Row({"schema", "name", "owner", "type", "parent", "strategy", "expression", "comment", "table",
         "access_method", "parent_visible", "table_visible", "visible"}, v10),
    Columns({"direct_size", "total_size"}, From(v12),
            <<Since(v10, Padding), Cockroach(Padding), Since(v12, Source)>>)>>)

Postgres ==
    {pgDatabases, pgCollations, pgSettings, pgTables, pgColumns, pgPublications,
     pgPublicationTables, pgSubscriptions, pgSubscriptionConnections, pgOperatorClasses,
     pgOperatorFamilies, pgOperatorFamilyFunctions, pgExtensions, pgExtendedStats, pgComments,
     pgRoleGrants, pgFunctions, pgAggregates, pgPartitions, pgInherits, pgPolicies, pgNotNulls,
     pgIndexes, pgIndexColumns, pgSequences, pgPartitionedTables}

---------------------------------------------------------------------------
(* models/cockroachdb and models/cratedb. *)

\* A column that a release of the product itself gave a source.
OwnFrom(key, name, min) ==
    Column(name, {Gate(key, min)}, <<On(key, min, Source), Base(Padding)>>)

crDatabases == Binding("Databases", <<OwnFrom("cockroachdb", "size", V(26, 3, 0))>>)

crTriggers == Binding("Triggers", <<OwnFrom("cockroachdb", "definition", V(26, 2, 0))>>)

CockroachDB ==
    {pgTables, pgColumns, pgIndexes, pgCollations, pgSettings, pgFunctions, pgAggregates,
     pgRoleGrants, pgPublications, pgPublicationTables, pgSubscriptions, pgOperatorClasses,
     pgOperatorFamilies, pgOperatorFamilyFunctions, pgExtensions, pgComments, pgSequences,
     pgPartitionedTables, crDatabases, crTriggers}

crateConstraints == Binding("Constraints", <<OwnFrom("cratedb", "definition", V(6, 4, 0))>>)

crateCollations == Binding("Collations", <<Clause(<<On("cratedb", V(6, 4, 0), Source)>>)>>)

CrateDB == {pgSettings, pgRoleGrants, crateConstraints, crateCollations}

=============================================================================
