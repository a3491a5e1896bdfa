------------------------------ MODULE Bindings ------------------------------
(***************************************************************************)
(* What a model registers for a query, as far as reading a row goes, and   *)
(* the lists of names that the models use.                                 *)
(***************************************************************************)

(* What a model registers for one query.

   select    the names of its select list, in order.  Each alternative of a
             Choice adds its own list to selects
   fields    the names in Binding.Fields, in order
   scan      where Scan puts each column, by the field of the row it fills; "_"
             is a value that Scan drops, or takes apart after the read
   null      the columns that some alternative writes as NULL: the literal, a
             NULLIF, a CASE with a NULL branch or without ELSE
   params    the names in Binding.Params
   reads     those that the statement names in every alternative, and the one
             that picks a Variant *)
Binding(select, fields, scan, null, params, reads) ==
    [selects |-> {select}, fields |-> fields, scan |-> scan, null |-> null,
     params |-> params, reads |-> reads, emptied |-> {}, blank |-> {}, keeps |-> {}]

\* The fields that are read through NullAsEmpty, or through the scanner of Exasol
\* for a nullable field, and the columns that the statement writes as ''.
Emptying(b, emptied, blank) == [b EXCEPT !.emptied = emptied, !.blank = blank]

\* A binding with a Keep, which reads these parameters.
Keeping(b, keeps) == [b EXCEPT !.keeps = keeps]

\* The bindings that Share registers again for another dialect.
Shared(model, queries) == [query \in queries |-> model[query]]

(* The parameters. *)

byCatalogSchemaNameSystem == {"catalog", "name", "schema", "with_system"}
byCatalogSchemaNameTypesSystem == {"catalog", "name", "schema", "types", "with_system"}
byCatalogSchemaParentNameSystem == {"catalog", "name", "parent", "schema", "with_system"}
byCatalogSchemaSystem == {"catalog", "schema", "with_system"}
byMethodName == {"access_method", "name"}
byMethodNameType == {"access_method", "name", "type"}
byName == {"name"}
byNameDatabase == {"database", "name"}
byNameServer == {"name", "server"}
byNameSystem == {"name", "with_system"}
byNameTable == {"name", "table"}
bySchema == {"schema"}
bySchemaName == {"name", "schema"}
bySchemaNameServerKind == {"kind", "name", "schema", "server"}
bySchemaNameSystem == {"name", "schema", "with_system"}
bySchemaNameTypes == {"name", "schema", "types"}
bySchemaNameTypesSystem == {"name", "schema", "types", "with_system"}
bySchemaNameTypesSystemInfo ==
    {"name", "schema", "types", "with_system", "with_table_info"}
bySchemaParentName == {"name", "parent", "schema"}
bySchemaParentNameImplicit == {"name", "parent", "schema", "with_implicit"}
bySchemaParentNameIndex == {"index", "name", "parent", "schema"}
bySchemaParentNameIndexSystem == {"index", "name", "parent", "schema", "with_system"}
bySchemaParentNameSystem == {"name", "parent", "schema", "with_system"}
bySchemaParentSchemaParentNameIndexesSystem ==
    {"indexes", "name", "parent", "parent_schema", "schema", "with_system"}
bySchemaPartitionParentName == {"name", "parent", "partition_schema", "schema"}
bySchemaPartitionParentNameIndexesSystem ==
    {"indexes", "name", "parent", "partition_schema", "schema", "with_system"}
bySchemaPartitionParentNameSystem ==
    {"name", "parent", "partition_schema", "schema", "with_system"}
bySchemaSystem == {"schema", "with_system"}

(* The lists of names.  A list that several models use is named for the
   query alone. *)

accessMethods == <<"name", "type", "handler", "comment">>
aggregates == <<"catalog", "schema", "name", "id", "kind", "result_type", "arg_types",
    "volatility", "parallel", "owner", "security", "access", "language", "source",
    "comment", "definition">>
aggregatesOfVertica == <<"catalog", "schema", "name", "id", "kind", "result_type",
    "arg_types", "volatility", "parallel", "owner", "security", "access", "language",
    "source", "comment", "definition", "prosrc">>
aggregatesOfPostgreSQL == <<"catalog", "schema", "name", "id", "kind", "result_type",
    "arg_types", "volatility", "parallel", "owner", "security", "access", "language",
    "source", "comment", "definition", "leakproof", "prosrc", "visible">>
aggregatesOfBigQuery == <<"catalog", "schema", "name", "id", "kind", "result_type",
    "arg_types", "volatility", "parallel", "owner", "security", "access", "language",
    "source", "comment", "definition", "leakproof", "prosrc">>
casts == <<"source", "target", "function", "implicit", "leakproof", "comment">>
collations ==
    <<"schema", "name", "provider", "collate", "ctype", "locale", "deterministic",
    "comment", "rules">>
columnPrivileges == <<"schema", "table", "column", "ordinal", "access", "grantee",
    "grantor", "privileges">>
columnStats ==
    <<"catalog", "schema", "table", "name", "avg_width", "null_frac", "distinct",
    "min", "max", "mean", "top_n", "top_n_freqs">>
columns == <<"catalog", "schema", "table", "name", "ordinal", "data_type", "nullable",
    "default", "primary_key", "identity", "generated", "comment", "collation">>
columnsOfPostgreSQL == <<"catalog", "schema", "table", "name", "ordinal", "data_type",
    "nullable", "default", "primary_key", "identity", "generated", "comment", "collation",
    "storage", "compression", "stats_target">>
columnsOfRedshift == <<"catalog", "schema", "table", "name", "ordinal", "data_type",
    "nullable", "default", "primary_key", "identity", "generated", "comment", "collation",
    "compression">>
columnsOfClickHouse == <<"catalog", "schema", "table", "name", "ordinal", "data_type",
    "nullable", "default", "primary_key", "identity", "generated", "comment", "collation",
    "storage", "compression">>
columnsOfSurrealDB == <<"catalog", "collation", "comment", "data_type", "default",
    "generated", "identity", "name", "nullable", "ordinal", "primary_key", "schema",
    "table">>
comments == <<"schema", "name", "type", "comment">>
commentsOfPostgreSQL == <<"schema", "name", "type", "comment", "visible">>
commentsOfSurrealDB == <<"comment", "name", "schema", "type">>
constraintColumns == <<"catalog", "schema", "table", "constraint", "name", "ordinal",
    "foreign_catalog", "foreign_schema", "foreign_table", "foreign_name">>
constraintColumnsOfSurrealDB == <<"catalog", "constraint", "foreign_catalog",
    "foreign_name", "foreign_schema", "foreign_table", "name", "ordinal", "schema",
    "table">>
constraints ==
    <<"schema", "table", "name", "type", "definition", "deferrable", "deferred",
    "comment", "enforced">>
constraintsOfPostgreSQL ==
    <<"schema", "table", "name", "type", "definition", "deferrable",
    "deferred", "comment">>
constraintsOfSurrealDB == <<"comment", "deferrable", "deferred", "definition", "name",
    "schema", "table", "type">>
conversions == <<"schema", "name", "source", "target", "default", "comment">>
currentDatabase == <<"name">>
currentSchema == <<"catalog", "name", "owner", "comment">>
currentSchemaOfDatabricks == <<"catalog", "name", "owner", "comment", "access">>
currentSchemaOfBigQuery == <<"catalog", "name", "owner", "comment", "access", "options">>
currentSchemaOfSurrealDB == <<"catalog", "comment", "name", "owner">>
currentUser == <<"name", "session">>
databases == <<"name", "owner", "encoding", "collate", "ctype", "access", "tablespace",
    "size", "comment">>
databasesOfPostgreSQL == <<"name", "owner", "encoding", "collate", "ctype", "access",
    "tablespace", "size", "comment", "locale_provider", "locale", "icu_rules">>
databasesOfSurrealDB == <<"access", "collate", "comment", "ctype", "encoding", "name",
    "owner", "size", "tablespace">>
defaultACLs == <<"owner", "schema", "type", "access">>
domains == <<"catalog", "schema", "name", "data_type", "collation", "nullable", "default",
    "constraints", "access", "comment">>
domainsOfPostgreSQL ==
    <<"catalog", "schema", "name", "data_type", "collation", "nullable",
    "default", "constraints", "access", "comment", "visible">>
enumValues == <<"catalog", "schema", "enum", "label", "ordinal">>
eventTriggers == <<"name", "event", "owner", "enabled", "function", "tags", "comment">>
extendedStats == <<"schema", "name", "owner", "table", "kinds", "comment", "definition",
    "ndistinct", "dependencies", "mcv">>
extendedStatsOfPostgreSQL == <<"schema", "name", "owner", "table", "kinds", "comment",
    "definition", "ndistinct", "dependencies", "mcv", "stats_target", "table_visible">>
extensionObjects == <<"extension", "description">>
extensions == <<"name", "version", "schema", "comment">>
extensionsOfPostgreSQL == <<"name", "version", "schema", "comment", "default_version">>
foreignDataWrappers == <<"name", "owner", "handler", "validator", "access", "options",
    "comment">>
foreignDataWrappersOfHana ==
    <<"name", "owner", "handler", "validator", "options", "access",
    "comment">>
foreignOptions == <<"kind", "schema", "name", "server", "ordinal", "option", "value",
    "quoted">>
foreignServers == <<"name", "owner", "wrapper", "type", "version", "access", "options",
    "comment">>
foreignServersOfHana == <<"name", "wrapper", "owner", "type", "version", "options",
    "access", "comment">>
foreignTables == <<"schema", "name", "server", "options", "comment">>
functions == <<"catalog", "schema", "name", "id", "kind", "result_type", "arg_types",
    "volatility", "parallel", "owner", "security", "access", "language", "source",
    "comment", "definition">>
functionsOfRedshift == <<"catalog", "schema", "name", "id", "kind", "result_type",
    "arg_types", "volatility", "parallel", "owner", "security", "access", "language",
    "source", "comment", "definition", "prosrc">>
functionsOfBigQuery == <<"catalog", "schema", "name", "id", "kind", "result_type",
    "arg_types", "volatility", "parallel", "owner", "security", "access", "language",
    "source", "comment", "definition", "leakproof", "prosrc">>
functionsOfPostgreSQL == <<"catalog", "schema", "name", "id", "kind", "result_type",
    "arg_types", "volatility", "parallel", "owner", "security", "access", "language",
    "source", "comment", "definition", "leakproof", "prosrc", "visible">>
functionsOfSurrealDB == <<"access", "arg_types", "catalog", "comment", "definition", "id",
    "kind", "language", "name", "owner", "parallel", "result_type", "schema", "security",
    "source", "volatility">>
indexColumns == <<"schema", "table", "index", "name", "ordinal", "expression",
    "descending">>
indexColumnsOfSQLServer == <<"schema", "table", "index", "name", "ordinal", "expression",
    "descending", "include">>
indexColumnsOfPostgreSQL == <<"schema", "table", "index", "name", "ordinal", "expression",
    "descending", "include", "column_name", "column_type", "storage", "stats_target">>
indexColumnsOfSurrealDB == <<"descending", "expression", "index", "name", "ordinal",
    "schema", "table">>
indexes == <<"catalog", "schema", "table", "name", "type", "unique", "primary", "comment",
    "owner", "persistence", "size", "predicate", "valid", "clustered", "replica_identity",
    "deferrable", "initially_deferred", "options", "definition", "using",
    "constraint_type">>
indexesOfBigQuery == <<"catalog", "schema", "table", "name", "type", "unique", "primary",
    "comment", "owner", "persistence", "size", "predicate", "valid", "clustered",
    "replica_identity", "deferrable", "initially_deferred", "options", "definition",
    "using", "constraint_type", "constraint_definition", "constraint_period",
    "table_visible">>
indexesOfDatabend == <<"catalog", "schema", "table", "name", "type", "unique", "primary",
    "comment">>
indexesOfPostgreSQL ==
    <<"catalog", "schema", "table", "name", "type", "unique", "primary",
    "comment", "owner", "persistence", "size", "predicate", "valid", "clustered",
    "replica_identity", "partitioned", "deferrable", "initially_deferred", "options",
    "definition", "using", "constraint_type", "constraint_definition",
    "constraint_period",
    "table_visible", "visible">>
indexesOfCrateDB == <<"catalog", "schema", "table", "name", "type", "unique", "primary",
    "comment", "valid", "clustered", "replica_identity", "constraint_type">>
indexesOfMySQL == <<"catalog", "schema", "table", "name", "type", "unique", "primary",
    "comment", "using">>
indexesOfSQLServer == <<"catalog", "schema", "table", "name", "type", "unique", "primary",
    "comment", "persistence", "size", "predicate", "valid", "clustered", "deferrable",
    "initially_deferred", "options", "constraint_type">>
indexesOfOracle == <<"catalog", "schema", "table", "name", "type", "unique", "primary",
    "comment", "owner", "persistence", "size", "valid", "clustered", "deferrable",
    "initially_deferred", "options", "constraint_type">>
indexesOfVertica == <<"catalog", "schema", "table", "name", "type", "unique", "primary",
    "comment", "size", "valid", "options">>
indexesOfExasol == <<"catalog", "schema", "table", "name", "type", "unique", "primary",
    "comment", "owner", "persistence", "size">>
indexesOfClickHouse ==
    <<"catalog", "schema", "table", "name", "type", "unique", "primary",
    "comment", "size", "options", "using">>
indexesOfDuckDB == <<"catalog", "schema", "table", "name", "type", "unique", "primary",
    "comment", "persistence", "definition", "using">>
indexesOfSQLite == <<"catalog", "schema", "table", "name", "type", "unique", "primary",
    "comment", "persistence", "predicate", "clustered", "definition", "using",
    "constraint_type">>
indexesOfCouchbase == <<"catalog", "schema", "table", "name", "type", "unique", "primary",
    "comment", "predicate", "valid", "definition", "options">>
indexesOfSurrealDB ==
    <<"catalog", "comment", "name", "primary", "schema", "table", "type",
    "unique">>
indexesOfCassandra == <<"catalog", "schema", "table", "name", "type", "unique", "primary",
    "comment", "options">>
indexesOfNeo4j == <<"catalog", "schema", "table", "name", "type", "unique", "primary",
    "comment", "valid", "definition", "using", "options">>
inherits == <<"schema", "name", "type", "parent_schema", "parent", "ordinal", "partition",
    "visible", "parent_visible">>
languages == <<"name", "owner", "trusted", "internal", "handler", "validator", "inline",
    "access", "comment">>
largeObjects == <<"oid", "owner", "access", "comment">>
notNulls == <<"schema", "table", "name", "column", "no_inherit", "local", "inherited",
    "validated">>
operatorClasses == <<"access_method", "schema", "name", "input_type", "default", "family",
    "owner", "storage_type", "visible", "family_visible", "family_schema">>
operatorFamilies ==
    <<"access_method", "schema", "name", "owner", "applies_to", "visible">>
operatorFamilyFunctions ==
    <<"access_method", "family", "left_type", "right_type", "number",
    "function", "function_name", "visible", "family_schema">>
operatorFamilyOperators == <<"access_method", "family", "operator", "strategy", "purpose",
    "left_type", "right_type", "sort_family", "leakproof", "visible", "family_schema">>
operatorFamilyOperatorsOfCockroachDB ==
    <<"access_method", "family", "operator", "strategy",
    "purpose">>
operators == <<"schema", "name", "left_type", "right_type", "result_type", "function",
    "comment", "leakproof">>
operatorsOfOracle == <<"schema", "name", "left_type", "right_type", "result_type",
    "function", "comment">>
partitionedTables == <<"schema", "name", "owner", "type", "parent", "strategy",
    "expression", "comment">>
partitionedTablesOfBigQuery == <<"schema", "name", "owner", "type", "parent", "strategy",
    "expression", "comment", "table", "access_method", "direct_size", "total_size",
    "parent_visible", "table_visible">>
partitionedTablesOfPostgreSQL ==
    <<"schema", "name", "owner", "type", "parent", "strategy",
    "expression", "comment", "table", "access_method", "parent_visible", "table_visible",
    "direct_size", "total_size", "visible">>
partitionedTablesOfMySQL == <<"schema", "name", "owner", "type", "parent", "strategy",
    "expression", "comment", "direct_size", "total_size">>
partitionedTablesOfSQLServer == <<"schema", "name", "type", "parent", "strategy",
    "expression", "comment", "owner", "access_method", "direct_size", "total_size">>
partitionedTablesOfClickHouse ==
    <<"schema", "name", "owner", "type", "parent", "strategy",
    "expression", "comment", "table", "access_method", "direct_size", "total_size">>
partitions == <<"schema", "table", "partition_schema", "partition", "type", "bound",
    "constraint", "partitioned", "detach_pending", "table_visible", "partition_visible">>
partitionsOfMySQL ==
    <<"schema", "table", "partition_schema", "partition", "type", "bound",
    "partitioned">>
partitionsOfSQLServer == <<"schema", "table", "partition_schema", "partition", "type",
    "bound", "partitioned", "detach_pending">>
policies == <<"schema", "table", "name", "command", "permissive", "roles", "using",
    "with_check", "comment", "enabled">>
policiesOfSQLServer == <<"schema", "table", "name", "command", "permissive", "using",
    "with_check", "comment", "enabled">>
privileges == <<"schema", "name", "type", "access", "column_access", "policies">>
privilegesOfPostgreSQL ==
    <<"schema", "name", "type", "access", "column_access", "policies",
    "visible">>
privilegesOfSurrealDB ==
    <<"access", "column_access", "name", "policies", "schema", "type">>
publicationTables == <<"publication", "schema", "name", "columns", "where", "via">>
publicationTablesOfCrateDB == <<"publication", "schema", "name", "columns", "where">>
publications == <<"name", "owner", "all_tables", "insert", "update", "delete", "truncate",
    "via_root", "comment", "generated_columns">>
publicationsOfCrateDB == <<"name", "owner", "all_tables", "insert", "update", "delete",
    "truncate", "via_root", "comment">>
roleGrants == <<"role", "member_of", "grantor", "admin", "inherit", "set">>
roleGrantsOfSurrealDB == <<"admin", "grantor", "inherit", "member_of", "role", "set">>
roleSettings == <<"role", "database", "settings">>
roles == <<"name", "superuser", "create_role", "create_db", "can_login", "replication",
    "bypass_rls", "inherit", "conn_limit", "valid_until", "member_of", "comment">>
rolesOfSurrealDB == <<"bypass_rls", "can_login", "comment", "conn_limit", "create_db",
    "create_role", "inherit", "member_of", "name", "replication", "superuser",
    "valid_until">>
routineParameters == <<"catalog", "schema", "routine", "routine_id", "name", "ordinal",
    "mode", "data_type", "default">>
routineParametersOfSurrealDB == <<"catalog", "data_type", "default", "mode", "name",
    "ordinal", "routine", "routine_id", "schema">>
rules == <<"schema", "table", "name", "event", "enabled", "instead", "definition",
    "comment">>
schemas == <<"catalog", "name", "owner", "comment">>
schemasOfPostgreSQL == <<"catalog", "name", "owner", "comment", "access">>
schemasOfBigQuery == <<"catalog", "name", "owner", "comment", "access", "options">>
schemasOfSurrealDB == <<"catalog", "comment", "name", "owner">>
sequences == <<"schema", "name", "data_type", "start", "minimum", "maximum", "increment",
    "cycles", "owned_by", "comment">>
sequencesOfSQLServer == <<"schema", "name", "data_type", "start", "minimum", "maximum",
    "increment", "cycles", "owned_by", "comment", "cache_size">>
sequencesOfPostgreSQL == <<"schema", "name", "data_type", "start", "minimum", "maximum",
    "increment", "cycles", "owned_by", "comment", "cache_size", "identity", "visible">>
sequencesOfSurrealDB == <<"comment", "cycles", "data_type", "increment", "maximum",
    "minimum", "name", "owned_by", "schema", "start">>
settings == <<"name", "value", "type", "context", "access", "display">>
settingsOfPostgreSQL ==
    <<"name", "value", "type", "context", "access", "display", "source",
    "boot">>
subscriptionConnections == <<"name", "conninfo">>
subscriptions == <<"name", "owner", "enabled", "publications", "synchronous", "slot",
    "comment">>
subscriptionsOfPostgreSQL == <<"name", "owner", "enabled", "publications", "synchronous",
    "slot", "comment", "binary", "streaming", "two_phase", "disable_on_error", "origin",
    "password_required", "run_as_owner", "failover", "skip_lsn">>
tables == <<"catalog", "schema", "name", "type", "comment">>
tablesOfSQLServer == <<"catalog", "schema", "name", "type", "comment", "owner",
    "persistence", "access_method", "size", "rows", "options", "row_security",
    "row_security_forced">>
tablesOfHana == <<"catalog", "schema", "name", "type", "comment", "owner", "persistence",
    "access_method", "size", "rows", "options">>
tablesOfCrateDB == <<"catalog", "schema", "name", "type", "comment", "options">>
tablesOfRedshift == <<"catalog", "schema", "name", "type", "comment", "owner",
    "persistence", "size", "rows", "options">>
tablesOfMySQL == <<"catalog", "schema", "name", "type", "comment", "persistence",
    "access_method", "size", "rows", "options">>
tablesOfDrill == <<"catalog", "schema", "name", "type", "comment", "rows">>
tablesOfPostgreSQL == <<"catalog", "schema", "name", "type", "comment", "owner",
    "persistence", "access_method", "size", "rows", "options", "row_security",
    "row_security_forced", "visible">>
tablesOfQuestDB == <<"catalog", "schema", "name", "type", "comment", "rows", "options">>
tablesOfVertica ==
    <<"catalog", "schema", "name", "type", "comment", "owner", "persistence",
    "options">>
tablesOfDuckDB ==
    <<"catalog", "schema", "name", "type", "comment", "persistence", "rows">>
tablesOfSQLite == <<"catalog", "schema", "name", "type", "comment", "persistence">>
tablesOfYDB == <<"catalog", "schema", "name", "type", "comment", "owner", "size", "rows">>
tablesOfAvatica == <<"catalog", "schema", "name", "type", "comment", "owner",
    "persistence">>
tablesOfSurrealDB == <<"catalog", "comment", "name", "schema", "type">>
tablesOfCassandra == <<"catalog", "schema", "name", "type", "comment", "compaction",
    "compression", "gc_grace_seconds", "default_time_to_live">>
tablespaces == <<"name", "owner", "location", "options", "size", "access", "comment">>
tablespacesOfSQLServer == <<"name", "owner", "location", "options", "size", "comment">>
textSearchConfigMaps == <<"schema", "config", "token", "position", "dictionary_schema",
    "dictionary">>
textSearchConfigs == <<"schema", "name", "parser", "comment", "parser_schema">>
textSearchDictionaries == <<"schema", "name", "template", "options", "comment",
    "template_schema">>
textSearchParserFunctions == <<"schema", "parser", "method", "ordinal", "function",
    "comment">>
textSearchParserTokenTypes == <<"schema", "parser", "id", "alias", "description">>
textSearchParsers == <<"schema", "name", "comment">>
textSearchTemplates == <<"schema", "name", "init", "lexize", "comment">>
triggers == <<"schema", "table", "name", "enabled", "definition", "comment">>
triggersOfSurrealDB == <<"comment", "definition", "enabled", "name", "schema", "table">>
types == <<"catalog", "schema", "name", "internal", "kind", "elements", "owner", "access",
    "comment", "size">>
typesOfPostgreSQL ==
    <<"catalog", "schema", "name", "internal", "kind", "elements", "owner",
    "access", "comment", "size", "visible">>
userMappings == <<"server", "name", "options">>
views == <<"catalog", "schema", "name", "definition", "check_option", "updatable",
    "insertable", "comment">>
viewsOfSurrealDB == <<"catalog", "check_option", "comment", "definition", "insertable",
    "name", "schema", "updatable">>
=============================================================================
