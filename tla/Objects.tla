------------------------------ MODULE Objects -------------------------------
(***************************************************************************)
(* The rows that the queries answer with, which are the same Go types for  *)
(* every product: their fields, under the names that the queries declare.  *)
(***************************************************************************)

(* A row has plain fields, and fields of a type sql.Null.  Database/sql refuses
   a NULL for the plain ones and keeps it for the others. *)
Row(plain, nullable) == [plain |-> plain, nullable |-> nullable]

Table == Row({"catalog", "schema", "name", "type"},
    {"comment", "owner", "persistence", "access_method", "size", "rows", "options",
     "row_security", "row_security_forced", "visible"})
Schema == Row({"catalog", "name", "owner"}, {"comment", "access", "options"})
Column == Row({"catalog", "schema", "table", "name", "ordinal", "data_type", "nullable",
    "primary_key"},
    {"default", "identity", "generated", "comment", "collation", "storage", "compression",
     "stats_target"})
Index == Row({"catalog", "schema", "table", "name", "type", "unique", "primary"},
    {"comment", "owner", "persistence", "size", "predicate", "valid", "clustered",
     "replica_identity", "partitioned", "deferrable", "initially_deferred", "options",
     "definition", "using", "constraint_type", "constraint_definition",
     "constraint_period",
     "table_visible", "visible"})
DatabaseName == Row({}, {"name"})
Database == Row({"name", "owner", "encoding", "collate", "ctype"},
    {"access", "tablespace", "size", "comment", "locale_provider", "locale", "icu_rules"})
Tablespace == Row({"name"}, {"owner", "location", "options", "size", "access", "comment"})
AccessMethod == Row({"name", "type"}, {"handler", "comment"})
Language ==
    Row({"name", "owner", "trusted", "internal", "handler", "validator", "inline"},
    {"access", "comment"})
Conversion == Row({"schema", "name", "source", "target", "default"}, {"comment"})
Cast == Row({"source", "target", "implicit"}, {"function", "leakproof", "comment"})
Collation == Row({"schema", "name"},
    {"provider", "collate", "ctype", "locale", "deterministic", "comment", "rules"})
LargeObject == Row({"oid", "owner"}, {"access", "comment"})
EventTrigger ==
    Row({"name", "event", "owner", "enabled", "function"}, {"tags", "comment"})
Setting == Row({"name"},
    {"value", "type", "context", "access", "display", "source", "boot"})
Function ==
    Row({"catalog", "schema", "name", "kind", "volatility", "parallel", "security",
    "language", "leakproof"},
    {"id", "result_type", "arg_types", "owner", "access", "source", "comment",
     "definition",
     "prosrc", "visible"})
Type == Row({"catalog", "schema", "name", "internal", "kind", "elements"},
    {"owner", "access", "comment", "size", "visible"})
Domain == Row({"catalog", "schema", "name", "data_type", "collation", "nullable",
    "constraints"},
    {"default", "access", "comment", "visible"})
Operator == Row({"schema", "name", "left_type", "right_type", "result_type", "leakproof"},
    {"function", "comment"})
Role == Row({"name", "superuser", "create_role", "create_db", "can_login", "replication",
    "bypass_rls", "inherit", "conn_limit", "member_of"},
    {"valid_until", "comment"})
RoleSetting == Row({}, {"role", "database", "settings"})
RoleGrant == Row({"role", "member_of", "admin", "inherit", "set"}, {"grantor"})
Privilege == Row({"name", "type"},
    {"schema", "access", "column_access", "policies", "visible"})
DefaultACL == Row({"owner", "type"}, {"schema", "access"})
ForeignDataWrapper == Row({"name", "owner"},
    {"handler", "validator", "access", "options", "comment"})
ForeignServer == Row({"name", "owner", "wrapper"},
    {"type", "version", "access", "options", "comment"})
User == Row({"name"}, {"session"})
UserMapping == Row({"server"}, {"name", "options"})
ForeignTable == Row({"schema", "name", "server"}, {"options", "comment"})
ForeignOption == Row({"kind", "ordinal", "option", "value", "quoted"},
    {"schema", "name", "server"})
ColumnPrivilege == Row({"schema", "table", "column", "ordinal", "access", "privileges"},
    {"grantee", "grantor"})
Publication ==
    Row({"name", "owner", "all_tables", "insert", "update", "delete", "truncate",
    "via_root"},
    {"comment", "generated_columns"})
PublicationTable == Row({"publication", "schema", "name", "columns"}, {"where", "via"})
Subscription == Row({"name", "owner", "enabled", "publications"},
    {"synchronous", "slot", "comment", "binary", "streaming", "two_phase",
     "disable_on_error", "origin", "password_required", "run_as_owner", "failover",
     "skip_lsn"})
SubscriptionConnection == Row({"name", "conninfo"}, {})
TextSearchParser == Row({"schema", "name"}, {"comment"})
TextSearchDictionary == Row({"schema", "name", "template"},
    {"options", "comment", "template_schema"})
TextSearchParserFunction == Row({"schema", "parser", "method", "ordinal", "function"},
    {"comment"})
TextSearchParserTokenType == Row({"schema", "parser", "id", "alias", "description"}, {})
TextSearchTemplate == Row({"schema", "name", "lexize"}, {"init", "comment"})
TextSearchConfig == Row({"schema", "name", "parser"}, {"comment", "parser_schema"})
TextSearchConfigMap == Row({"schema", "config", "token", "position", "dictionary_schema",
    "dictionary"},
    {})
OperatorClass ==
    Row({"access_method", "schema", "name", "input_type", "default", "family",
    "owner", "family_schema"},
    {"storage_type", "visible", "family_visible"})
OperatorFamily == Row({"access_method", "schema", "name", "owner"},
    {"applies_to", "visible"})
OperatorFamilyOperator ==
    Row({"access_method", "family", "operator", "strategy", "purpose",
    "left_type", "right_type", "leakproof", "family_schema"},
    {"sort_family", "visible"})
OperatorFamilyFunction == Row({"access_method", "family", "left_type", "right_type",
    "number", "function", "function_name", "family_schema"},
    {"visible"})
Extension == Row({"name", "version", "schema"}, {"comment", "default_version"})
ExtensionObject == Row({"extension", "description"}, {})
ExtendedStat == Row({"schema", "table", "kinds", "ndistinct", "dependencies", "mcv"},
    {"name", "owner", "comment", "definition", "stats_target", "table_visible"})
Comment == Row({"schema", "name", "type", "comment"}, {"visible"})
IndexColumn == Row({"schema", "table", "index", "ordinal", "include"},
    {"name", "expression", "descending", "column_name", "column_type", "storage",
     "stats_target"})
Constraint == Row({"schema", "table", "name", "type", "deferrable", "deferred"},
    {"definition", "comment", "enforced"})
Trigger == Row({"schema", "table", "name", "enabled", "definition"}, {"comment"})
Sequence == Row({"schema", "name", "owned_by"},
    {"data_type", "start", "minimum", "maximum", "increment", "cycles", "comment",
     "cache_size", "identity", "visible"})
PartitionedTable == Row({"schema", "name", "owner", "type", "parent", "strategy",
    "expression"},
    {"comment", "table", "access_method", "direct_size", "total_size", "parent_visible",
     "table_visible", "visible"})
Partition ==
    Row({"schema", "table", "partition_schema", "partition", "type", "partitioned",
    "detach_pending"},
    {"bound", "constraint", "table_visible", "partition_visible"})
Inherit == Row({"schema", "name", "type", "parent_schema", "parent", "ordinal",
    "partition"},
    {"visible", "parent_visible"})
Policy == Row({"schema", "table", "name", "command", "permissive"},
    {"roles", "using", "with_check", "comment", "enabled"})
Rule == Row({"schema", "table", "name", "event", "enabled", "instead", "definition"},
    {"comment"})
NotNull == Row({"schema", "table", "name", "column", "no_inherit", "local", "inherited",
    "validated"},
    {})
ConstraintColumn == Row({"catalog", "schema", "table", "constraint", "name", "ordinal"},
    {"foreign_catalog", "foreign_schema", "foreign_table", "foreign_name"})
RoutineParameter == Row({"catalog", "schema", "routine", "ordinal", "mode", "data_type"},
    {"routine_id", "name", "default"})
EnumValue == Row({"catalog", "schema", "enum", "label", "ordinal"}, {})
View == Row({"catalog", "schema", "name"},
    {"definition", "check_option", "updatable", "insertable", "comment"})
ColumnStat == Row({"catalog", "schema", "table", "name"},
    {"avg_width", "null_frac", "distinct", "min", "max", "mean", "top_n", "top_n_freqs"})

\* The type of the rows that each query answers with.
RowType ==
    [access_methods |-> AccessMethod, aggregates |-> Function, casts |-> Cast,
     collations |-> Collation, column_privileges |-> ColumnPrivilege,
     column_stats |-> ColumnStat, columns |-> Column, comments |-> Comment,
     constraint_columns |-> ConstraintColumn, constraints |-> Constraint,
     conversions |-> Conversion, current_database |-> DatabaseName,
     current_schema |-> Schema, current_user |-> User, databases |-> Database,
     default_acls |-> DefaultACL, domains |-> Domain, enum_values |-> EnumValue,
     event_triggers |-> EventTrigger, extended_stats |-> ExtendedStat,
     extension_objects |-> ExtensionObject, extensions |-> Extension,
     foreign_data_wrappers |-> ForeignDataWrapper, foreign_options |-> ForeignOption,
     foreign_servers |-> ForeignServer, foreign_tables |-> ForeignTable,
     functions |-> Function, index_columns |-> IndexColumn, indexes |-> Index,
     inherits |-> Inherit, languages |-> Language, large_objects |-> LargeObject,
     not_nulls |-> NotNull, operator_classes |-> OperatorClass,
     operator_families |-> OperatorFamily,
     operator_family_functions |-> OperatorFamilyFunction,
     operator_family_operators |-> OperatorFamilyOperator, operators |-> Operator,
     partitioned_tables |-> PartitionedTable, partitions |-> Partition,
     policies |-> Policy,
     privileges |-> Privilege, publication_tables |-> PublicationTable,
     publications |-> Publication, role_grants |-> RoleGrant,
     role_settings |-> RoleSetting,
     roles |-> Role, routine_parameters |-> RoutineParameter, rules |-> Rule,
     schemas |-> Schema, sequences |-> Sequence, settings |-> Setting,
     subscription_connections |-> SubscriptionConnection, subscriptions |-> Subscription,
     tables |-> Table, tablespaces |-> Tablespace,
     text_search_config_maps |-> TextSearchConfigMap,
     text_search_configs |-> TextSearchConfig,
     text_search_dictionaries |-> TextSearchDictionary,
     text_search_parser_functions |-> TextSearchParserFunction,
     text_search_parser_token_types |-> TextSearchParserTokenType,
     text_search_parsers |-> TextSearchParser,
     text_search_templates |-> TextSearchTemplate,
     triggers |-> Trigger, types |-> Type, user_mappings |-> UserMapping, views |-> View]
=============================================================================
