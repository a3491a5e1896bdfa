---------------------------- MODULE OtherModels ----------------------------
(***************************************************************************)
(* The bindings that a release decides in the models that are a family of  *)
(* one: models/sqlserver, models/oracle, models/clickhouse,                *)
(* models/vertica, models/firebird, and models/cassandra, where ScyllaDB   *)
(* is told from Cassandra by a key.                                        *)
(***************************************************************************)
EXTENDS Fragments, Sequences

---------------------------------------------------------------------------
(* models/sqlserver.  "sz" is the space an object takes (joinSpace).        *)

ms11 == V(11, 0, 0)
ms12 == V(12, 0, 0)
ms13 == V(13, 0, 0)

msTables == Binding("Tables", <<
    Changed("type", ms13, Source),
    Changed("persistence", ms12, Source),
    Changed("access_method", ms12, Source),
    Column("size", From(ms11),
           <<Base(Padding), Since(ms11, Reads("sz")), Since(ms12, Reads("sz"))>>),
    Changed("rows", ms12, Source),
    PaddedBelow("row_security", ms13, Source),
    PaddedBelow("row_security_forced", ms13, Source),
    JoinedFrom(ms11, "sz"),
    Clause(<<Base(Source), Since(ms13, Source)>>),
    Clause(<<Base(Source), Since(ms13, Source)>>)>>)

msIndexes == Binding("Indexes", <<
    Changed("persistence", ms12, Reads("t")),
    Column("size", From(ms11),
           <<Base(Padding), Since(ms11, Reads("sz")), Since(ms12, ReadsBoth("sz", "t"))>>),
    JoinedFrom(ms12, "t"),
    JoinedFrom(ms11, "sz")>>)

msSequences == Binding("Sequences", <<
    Row({"schema", "name", "data_type", "start", "minimum", "maximum", "increment", "cycles",
         "owned_by", "comment", "cache_size"}, ms11)>>)

msPolicies == Binding("Policies", <<
    Row({"schema", "table", "name", "command", "permissive", "using", "with_check", "comment",
         "enabled"}, ms13)>>)

msPartitionedTables == Binding("PartitionedTables", <<
    Columns({"direct_size", "total_size"}, From(ms11), <<Base(Padding), Since(ms11, Reads("sz"))>>),
    JoinedFrom(ms11, "sz")>>)

msForeignTables == Binding("ForeignTables", <<Row({"schema", "name", "server", "options", "comment"}, ms13)>>)

msColumnStats == Binding("ColumnStats", <<
    Columns({"catalog", "schema", "table", "name"}, From(ms13), <<Since(ms11, Source)>>),
    Row({"distinct"}, ms11)>>)

SQLServer ==
    {msTables, msIndexes, msSequences, msPolicies, msPartitionedTables, msForeignTables,
     msColumnStats}

---------------------------------------------------------------------------
(* models/oracle. *)

or12  == V(12, 0, 0)
or122 == V(12, 2, 0)
or18  == V(18, 0, 0)
or23  == V(23, 0, 0)

\* A clause or a column that a release writes in a form of its own.
Rewritten(min) == Clause(<<Base(Source), Since(min, Source)>>)

\* The written list of schemas, with the flag of all_users beside it.
notSystem == Rewritten(or18)

\* ON OVERFLOW TRUNCATE.
listagg == Rewritten(or122)

\* The rows of a NOT NULL that the server named, told from a check.
notGeneratedNotNull == Rewritten(or12)

\* The bindings in which only the filter differs, and those with a list too.
orFiltered ==
    { Binding(q, <<notSystem>>) :
        q \in {"ForeignServers", "ForeignTables", "Indexes", "IndexColumns",
               "Sequences", "Schemas", "Tables", "RoutineParameters", "Types", "Operators",
               "Partitions", "Policies", "Comments", "Triggers", "EventTriggers", "ColumnStats",
               "ExtendedStats"} }

orListed ==
    { Binding(q, <<listagg, notSystem>>) : q \in {"Functions", "Aggregates", "PartitionedTables"} }

orPrivileges == Binding("Privileges", <<Changed("type", or18, Source), listagg, notSystem>>)

orConstraints ==
    Binding("Constraints", <<Changed("definition", or12, Source), notSystem, notGeneratedNotNull>>)

orConstraintColumns == Binding("ConstraintColumns", <<notSystem, notGeneratedNotNull>>)

orViews == Binding("Views", <<Changed("definition", or18, Source), notSystem>>)

orCurrentDatabase == Binding("CurrentDatabase", <<Changed("name", or12, Source)>>)

orColumns == Binding("Columns", <<
    PaddedBelow("identity", or12, Source),
    PaddedBelow("collation", or122, Source),
    notSystem>>)

\* notSystemAt(v23): the filter has one form, gated as the statement is.
orDomains == Binding("Domains", <<Floor(or23)>>)

orNotNulls == Binding("NotNulls", <<
    Row({"schema", "table", "name", "column", "no_inherit", "local", "inherited", "validated"}, or12),
    notSystem>>)

Oracle ==
    orFiltered \cup orListed \cup
    {orPrivileges, orConstraints, orConstraintColumns, orViews, orCurrentDatabase, orColumns,
     orDomains, orNotNulls}

---------------------------------------------------------------------------
(* models/clickhouse. *)

ch256 == V(25, 6, 0)
ch268 == V(26, 8, 0)

chConstraints == Binding("Constraints", <<Floor(ch268)>>)

chForeignServers == Binding("ForeignServers", <<PaddedBelow("options", ch256, Source)>>)

\* functionStmt.  The column is a plain string, padded with the empty one.
chFunctionStmt == <<PaddedBelow("volatility", ch268, Source)>>

ClickHouse ==
    {chConstraints, chForeignServers} \cup
    { Binding(q, chFunctionStmt) : q \in {"Functions", "Aggregates"} }

---------------------------------------------------------------------------
(* models/cassandra. *)

ca40 == V(4, 0, 0)

\* scylla: ScyllaDB keeps the table somewhere else.
OnScyllaToo(text) == <<Base(text), On("scylla", 0, text)>>

caRoles == { Binding(q, <<Clause(OnScyllaToo(Source))>>) : q \in {"Roles", "RoleGrants", "Privileges"} }

caRoleSettings == Binding("RoleSettings", <<Clause(<<On("scylla", 0, Source)>>)>>)

\* Mutant: the ScyllaDB fragment is left out of one piece.
caSettingsHalf == Binding("Settings", <<
    Columns({"name", "value"}, Always, <<Since(ca40, Source), On("scylla", 0, Source)>>),
    Column("type", {Gate("scylla", 0)}, <<Since(ca40, Padding), On("scylla", 0, Source)>>),
    Clause(<<Since(ca40, Source)>>)>>)

caSettings == Binding("Settings", <<
    Columns({"name", "value"}, Always, <<Since(ca40, Source), On("scylla", 0, Source)>>),
    Column("type", {Gate("scylla", 0)}, <<Since(ca40, Padding), On("scylla", 0, Source)>>),
    Clause(<<Since(ca40, Source), On("scylla", 0, Source)>>)>>)

Cassandra == caRoles \cup {caRoleSettings, caSettings}

---------------------------------------------------------------------------
(* models/vertica. *)

ve91  == V(9, 1, 0)
ve101 == V(10, 1, 0)
ve251 == V(25, 1, 0)

\* Mutant: the two sides are given to since in the wrong order.
PaddedUngatedSwapped(name, min) == Column(name, Always, <<Base(Source), Since(min, Padding)>>)

\* since: the older side is padded and the field has no gate.
PaddedUngated(name, min) == Column(name, Always, <<Base(Padding), Since(min, Source)>>)

veColumns == Binding("Columns", <<
    Changed("generated", ve91, Source),
    PaddedUngated("comment", ve101),
    Rewritten(ve101)>>)

vePolicies == Binding("Policies", <<
    Row({"schema", "table", "name", "command", "permissive", "using", "enabled"}, ve91)>>)

veConstraints == Binding("Constraints", <<PaddedUngated("definition", ve91)>>)

veRoles == Binding("Roles", <<Changed("conn_limit", ve91, Source)>>)

\* Only the first piece has a gate.
veRoleSettings == Binding("RoleSettings", <<Floor(ve251)>>)
veTriggers     == Binding("Triggers", <<Floor(ve251)>>)

vePrivileges == Binding("Privileges", <<
    Changed("access", ve101, Source),
    PaddedBelow("policies", ve101, Reads("a")),
    JoinedFrom(ve101, "a"),
    Clause(<<Base(Empty), Since(ve101, Reads("a"))>>)>>)

\* functionStmt.
veFunctionStmt == <<
    PaddedUngated("owner", ve91),
    Changed("security", ve251, Reads("user_procedures")),
    Changed("language", ve251, Reads("user_procedures")),
    JoinedFrom(ve251, "user_procedures")>>

Vertica ==
    {veColumns, vePolicies, veConstraints, veRoles, veRoleSettings, veTriggers, vePrivileges} \cup
    { Binding(q, veFunctionStmt) : q \in {"Functions", "Aggregates"} }

---------------------------------------------------------------------------
(* models/firebird.  The newer fragment is written first. *)

fb4 == V(4, 0, 0)
fb5 == V(5, 0, 0)

tableOptions == Column("options", Always, <<Since(fb4, Source), Base(Source)>>)

fbTables == Binding("Tables", <<tableOptions>>)

indexPredicate == Column("predicate", Always, <<Since(fb5, Source), Base(Padding)>>)

fbIndexes == Binding("Indexes", <<indexPredicate>>)

\* Written for the functions and again for the procedures.
sqlSecurity == Column("security", Always, <<Since(fb4, Source), Base(Source)>>)

fbFunctions == Binding("Functions", <<sqlSecurity, sqlSecurity>>)

\* from4, on every piece.
fbFrom4 == { Binding(q, <<Floor(fb4)>>) : q \in {"Settings", "Publications", "PublicationTables"} }

Firebird == {fbTables, fbIndexes, fbFunctions} \cup fbFrom4

=============================================================================
