---------------------------- MODULE AnalyticRows ----------------------------
(***************************************************************************)
(* The rows of the models of the columnar and the embedded databases: for  *)
(* each query that a model registers, what its statement returns, what it  *)
(* declares and what its Scan reads. Module Binding says what the          *)
(* arguments are.                                                          *)
(***************************************************************************)
EXTENDS TLC, Bindings

(* Vertica. *)
verticaSchemas == Binding(schemas, schemas, schemas, {}, byNameSystem, byNameSystem)
verticaTables ==
    Binding(tablesOfVertica, tablesOfVertica, tablesOfVertica, {"options"},
            bySchemaNameTypesSystem, bySchemaNameTypesSystem)
verticaViews == Binding(views, views, views, {}, bySchemaNameSystem, bySchemaNameSystem)
verticaPartitionedTables ==
    Binding(partitionedTables, partitionedTables, partitionedTables, {},
            bySchemaNameSystem,
            bySchemaNameSystem)
verticaSequences ==
    Binding(sequences, sequences, sequences, {"start"}, bySchemaNameSystem,
            bySchemaNameSystem)
verticaComments == Binding(comments, comments, comments, {}, byName, byName)
verticaColumns ==
    Binding(columns, columns, columns, {"collation", "comment", "default"},
            bySchemaParentNameSystem, bySchemaParentNameSystem)
verticaPolicies ==
    Binding(policies, policies, policies, {"comment", "enabled", "roles", "with_check"},
            bySchemaParentNameSystem, bySchemaParentNameSystem)
verticaPartitions ==
    Binding(partitions, partitions, partitions,
            {"constraint", "partition_visible", "table_visible"},
            bySchemaPartitionParentNameSystem, bySchemaPartitionParentNameSystem)
verticaIndexes ==
    Binding(indexesOfVertica, indexesOfVertica, indexesOfVertica, {},
            bySchemaParentNameSystem, bySchemaParentNameSystem)
verticaIndexColumns ==
    Binding(indexColumns, indexColumns, indexColumns, {"expression"},
            bySchemaParentNameSystem, bySchemaParentNameSystem)
verticaConstraints ==
    Binding(constraints, constraints, constraints, {"comment", "definition"},
            bySchemaParentNameSystem, bySchemaParentNameSystem)
verticaConstraintColumns ==
    Binding(constraintColumns, constraintColumns, constraintColumns,
            {"foreign_catalog", "foreign_name", "foreign_schema", "foreign_table"},
            bySchemaParentNameSystem, bySchemaParentNameSystem)
verticaFunctions ==
    Binding(functionsOfRedshift, functionsOfRedshift, functionsOfRedshift,
            {"access", "comment", "definition", "owner", "prosrc", "source"},
            bySchemaNameSystem, bySchemaNameSystem)
verticaAggregates ==
    Binding(aggregatesOfVertica, aggregatesOfVertica, aggregatesOfVertica,
            {"access", "comment", "definition", "owner", "prosrc", "source"},
            bySchemaNameSystem, bySchemaNameSystem)
verticaTypes ==
    Binding(types, types, types, {"access", "comment", "owner", "size"}, byName, byName)
verticaTriggers ==
    Binding(triggers, triggers, triggers, {"comment"}, bySchemaParentNameSystem,
            bySchemaParentNameSystem)
verticaRoles == Binding(roles, roles, roles, {"valid_until"}, byName, byName)
verticaRoleSettings ==
    Binding(roleSettings, roleSettings, roleSettings, {}, byName, byName)
verticaRoleGrants == Binding(roleGrants, roleGrants, roleGrants, {}, byName, byName)
verticaPrivileges ==
    Binding(privileges, privileges, privileges, {"column_access", "policies"},
            bySchemaName,
            bySchemaName)
verticaDatabases ==
    Binding(databases, databases, databases, {"access", "comment", "size", "tablespace"},
            byName, byName)
verticaTablespaces ==
    Binding(tablespaces, tablespaces, tablespaces, {"access", "comment", "owner", "size"},
            byName, byName)
verticaSettings ==
    Binding(settings, settings, settings, {"access", "display", "type"}, byName, byName)
verticaForeignServers ==
    Binding(foreignServers, foreignServers, foreignServers, {"access", "type", "version"},
            byName, byName)
verticaForeignTables ==
    Binding(foreignTables, foreignTables, foreignTables, {}, bySchemaNameSystem,
            bySchemaNameSystem)
verticaCurrentSchema ==
    Binding(currentSchema, currentSchema, currentSchema, {"comment"}, {}, {})
verticaCurrentUser == Binding(currentUser, currentUser, currentUser, {}, {}, {})
vertica ==
    [schemas |-> verticaSchemas, tables |-> verticaTables, views |-> verticaViews,
     partitioned_tables |-> verticaPartitionedTables, sequences |-> verticaSequences,
     comments |-> verticaComments, columns |-> verticaColumns,
     policies |-> verticaPolicies,
     partitions |-> verticaPartitions, indexes |-> verticaIndexes,
     index_columns |-> verticaIndexColumns, constraints |-> verticaConstraints,
     constraint_columns |-> verticaConstraintColumns, functions |-> verticaFunctions,
     aggregates |-> verticaAggregates, types |-> verticaTypes,
     triggers |-> verticaTriggers,
     roles |-> verticaRoles, role_settings |-> verticaRoleSettings,
     role_grants |-> verticaRoleGrants, privileges |-> verticaPrivileges,
     databases |-> verticaDatabases, tablespaces |-> verticaTablespaces,
     settings |-> verticaSettings, foreign_servers |-> verticaForeignServers,
     foreign_tables |-> verticaForeignTables, current_schema |-> verticaCurrentSchema,
     current_user |-> verticaCurrentUser]

(* Exasol. *)
exasolSchemas ==
    Emptying(
        Binding(schemas, schemas, schemas, {}, byNameSystem, byNameSystem),
        {"catalog", "name", "owner"}, {"catalog"})
exasolTables ==
    Emptying(
        Binding(tablesOfHana, tablesOfHana, tablesOfHana,
                {"access_method", "options", "persistence", "rows", "size"},
                bySchemaNameTypesSystem, bySchemaNameTypesSystem),
        {"catalog", "name", "schema", "type"}, {"catalog"})
exasolViews ==
    Emptying(
        Binding(views, views, views, {}, bySchemaName, bySchemaName),
        {"catalog", "name", "schema"}, {"catalog"})
exasolPartitionedTables ==
    Emptying(
        Binding(partitionedTables, partitionedTables, partitionedTables, {}, bySchemaName,
                bySchemaName),
        {"expression", "name", "owner", "parent", "schema", "strategy", "type"},
        {"parent"})
exasolComments ==
    Emptying(
        Binding(comments, comments, comments, {}, byName, byName),
        {"comment", "name", "schema", "type"}, {"schema"})
exasolColumns ==
    Emptying(
        Binding(columns, columns, columns, {"collation"}, bySchemaParentNameSystem,
                bySchemaParentNameSystem),
        {"catalog", "data_type", "generated", "identity", "name", "schema", "table"},
        {"catalog", "generated", "identity"})
exasolIndexes ==
    Emptying(
        Binding(indexesOfExasol, indexesOfExasol, indexesOfExasol, {"persistence"},
                bySchemaParentName, bySchemaParentName),
        {"catalog", "name", "schema", "table", "type"}, {"catalog"})
exasolIndexColumns ==
    Emptying(
        Binding(indexColumns, indexColumns, indexColumns, {"expression"},
                bySchemaParentName,
                bySchemaParentName),
        {"index", "schema", "table"}, {})
exasolConstraints ==
    Emptying(
        Binding(constraints, constraints, constraints, {"comment", "definition"},
                bySchemaParentName, bySchemaParentName),
        {"name", "schema", "table", "type"}, {})
exasolConstraintColumns ==
    Emptying(
        Binding(constraintColumns, constraintColumns, constraintColumns,
                {"foreign_catalog"},
                bySchemaParentName, bySchemaParentName),
        {"catalog", "constraint", "name", "schema", "table"}, {"catalog",
                                                               "foreign_catalog"})
exasolNotNulls ==
    Emptying(
        Binding(notNulls, notNulls, notNulls, {}, bySchemaParentName, bySchemaParentName),
        {"column", "name", "schema", "table"}, {})
exasolFunctions ==
    Emptying(
        Binding(functions, functions, functions,
                {"access", "arg_types", "result_type", "source"}, bySchemaNameSystem,
                bySchemaNameSystem),
        {"catalog", "kind", "language", "name", "parallel", "schema", "security",
        "volatility"}, {"catalog", "parallel", "security", "volatility"})
exasolAggregates ==
    Emptying(
        Binding(aggregates, aggregates, aggregates,
                {"access", "arg_types", "result_type", "source"}, bySchemaName,
                bySchemaName),
        {"catalog", "kind", "language", "name", "parallel", "schema", "security",
        "volatility"}, {"catalog", "parallel", "security", "volatility"})
exasolTypes ==
    Emptying(
        Binding(types, types, types, {"access", "comment", "owner", "size"}, byName,
                byName),
        {"catalog", "elements", "internal", "kind", "name", "schema"}, {"catalog",
        "elements", "schema"})
exasolLanguages ==
    Emptying(
        Binding(languages, languages, languages, {"access", "comment"}, byName, byName),
        {"handler", "inline", "name", "owner", "validator"}, {"handler", "inline",
                                                              "owner",
        "validator"})
exasolRoles ==
    Emptying(
        Binding(roles, roles, roles, {"valid_until"}, byName, byName),
        {"member_of", "name"}, {"member_of"})
exasolRoleGrants ==
    Emptying(
        Binding(roleGrants, roleGrants, roleGrants, {"grantor"}, byName, byName),
        {"member_of", "role"}, {})
exasolPrivileges ==
    Emptying(
        Binding(privileges, privileges, privileges, {"column_access", "policies"},
                bySchemaName,
                bySchemaName),
        {"name", "type"}, {})
exasolDatabases ==
    Emptying(
        Binding(databases, databases, databases, {"access", "comment", "size",
                                                  "tablespace"},
                byName, byName),
        {"collate", "ctype", "encoding", "name", "owner"}, {"collate", "ctype"})
exasolSettings ==
    Emptying(
        Binding(settings, settings, settings, {"access", "display", "type"}, byName,
                byName),
        {"name"}, {})
exasolCurrentSchema ==
    Emptying(
        Binding(currentSchema, currentSchema, currentSchema, {}, {}, {}),
        {"catalog", "name", "owner"}, {"catalog"})
exasolCurrentUser ==
    Emptying(
        Binding(currentUser, currentUser, currentUser, {"session"}, {}, {}),
        {"name"}, {})
exasolForeignDataWrappers ==
    Emptying(
        Binding(foreignDataWrappers, foreignDataWrappers, foreignDataWrappers,
                {"access", "options", "validator"}, byName, byName),
        {"name", "owner"}, {})
exasolForeignServers ==
    Emptying(
        Binding(foreignServers, foreignServers, foreignServers, {"access", "type",
                                                                 "version"},
                byName, byName),
        {"name", "owner", "wrapper"}, {})
exasolUserMappings ==
    Emptying(
        Binding(userMappings, userMappings, userMappings, {}, byName, byName),
        {"server"}, {})
exasolForeignTables ==
    Emptying(
        Binding(foreignTables, foreignTables, foreignTables, {"options"}, bySchemaName,
                bySchemaName),
        {"name", "schema", "server"}, {})
exasol ==
    [schemas |-> exasolSchemas, tables |-> exasolTables, views |-> exasolViews,
     partitioned_tables |-> exasolPartitionedTables, comments |-> exasolComments,
     columns |-> exasolColumns, indexes |-> exasolIndexes,
     index_columns |-> exasolIndexColumns, constraints |-> exasolConstraints,
     constraint_columns |-> exasolConstraintColumns, not_nulls |-> exasolNotNulls,
     functions |-> exasolFunctions, aggregates |-> exasolAggregates,
     types |-> exasolTypes,
     languages |-> exasolLanguages, roles |-> exasolRoles,
     role_grants |-> exasolRoleGrants,
     privileges |-> exasolPrivileges, databases |-> exasolDatabases,
     settings |-> exasolSettings, current_schema |-> exasolCurrentSchema,
     current_user |-> exasolCurrentUser,
     foreign_data_wrappers |-> exasolForeignDataWrappers,
     foreign_servers |-> exasolForeignServers, user_mappings |-> exasolUserMappings,
     foreign_tables |-> exasolForeignTables]

(* ClickHouse. *)
clickhouseSchemas ==
    Binding(schemas, schemas, schemas, {"comment"}, bySchemaSystem, bySchemaSystem)
clickhouseDatabases ==
    Binding(databases, databases, databases, {"access", "comment", "size", "tablespace"},
            byNameSystem, byNameSystem)
clickhouseTables ==
    Binding(tablesOfMySQL, tablesOfMySQL, tablesOfMySQL,
            {"comment", "options", "persistence"}, bySchemaNameTypesSystem,
            bySchemaNameTypesSystem)
clickhouseColumns ==
    Binding(columnsOfClickHouse, columnsOfClickHouse, columnsOfClickHouse,
            {"collation", "comment", "compression", "default", "generated", "identity",
             "storage"},
            bySchemaParentNameSystem, bySchemaParentNameSystem)
\* Mutant: the check option is read as text that is empty where it is absent.
clickhouseViewsEmptied ==
    Emptying(
        Binding(views, views, views, {"check_option", "comment"}, bySchemaNameSystem,
                bySchemaNameSystem),
        {"check_option"}, {})
clickhouseViews ==
    Binding(views, views, views, {"check_option", "comment"}, bySchemaNameSystem,
            bySchemaNameSystem)
clickhouseIndexes ==
    Binding(indexesOfClickHouse, indexesOfClickHouse, indexesOfClickHouse, {"comment"},
            bySchemaParentNameSystem, bySchemaParentNameSystem)
clickhouseIndexColumns ==
    Binding(indexColumns, indexColumns, indexColumns, {}, bySchemaParentNameSystem,
            bySchemaParentNameSystem)
clickhouseConstraints ==
    Binding(constraints, constraints, constraints, {"comment"}, bySchemaParentNameSystem,
            bySchemaParentNameSystem)
clickhouseComments ==
    Binding(comments, comments, comments, {}, bySchemaNameSystem, bySchemaNameSystem)
clickhousePartitionedTables ==
    Binding(partitionedTablesOfClickHouse, partitionedTablesOfClickHouse,
            partitionedTablesOfClickHouse, {"comment", "table"}, bySchemaNameSystem,
            bySchemaNameSystem)
clickhousePartitions ==
    Binding(partitions, partitions, partitions,
            {"constraint", "partition_visible", "table_visible"},
            bySchemaPartitionParentNameSystem, bySchemaPartitionParentNameSystem)
clickhousePolicies ==
    Binding(policies, policies, policies, {"comment", "enabled", "with_check"},
            bySchemaParentNameSystem, bySchemaParentNameSystem)
clickhouseTypes ==
    Binding(types, types, types, {"access", "comment", "owner", "size"}, byName, byName)
clickhouseCollations ==
    Binding(collations, collations, collations, {"comment", "locale", "rules"}, byName,
            byName)
clickhouseRoles ==
    Binding(roles, roles, roles, {"comment", "valid_until"}, byName, byName)
clickhouseRoleGrants ==
    Binding(roleGrants, roleGrants, roleGrants, {"grantor"}, byName, byName)
clickhousePrivileges ==
    Binding(privileges, privileges, privileges, {"policies"}, bySchemaNameSystem,
            bySchemaNameSystem)
clickhouseSettings == Binding(settings, settings, settings, {"display"}, byName, byName)
clickhouseFunctions ==
    Binding(functions, functions, functions,
            {"access", "arg_types", "comment", "definition", "id", "owner", "result_type",
             "source"},
            byName, byName)
clickhouseAggregates ==
    Binding(aggregates, aggregates, aggregates,
            {"access", "arg_types", "comment", "definition", "id", "owner", "result_type",
             "source"},
            byName, byName)
clickhouseTablespaces ==
    Binding(tablespaces, tablespaces, tablespaces, {"access", "comment", "owner", "size"},
            byName, byName)
clickhouseForeignTables ==
    Binding(foreignTables, foreignTables, foreignTables, {"comment", "options"},
            bySchemaNameSystem, bySchemaNameSystem)
clickhouseForeignServers ==
    Binding(foreignServers, foreignServers, foreignServers,
            {"access", "comment", "options", "type", "version"}, byName, byName)
clickhouseCurrentDatabase ==
    Binding(currentDatabase, currentDatabase, currentDatabase, {}, {}, {})
clickhouseCurrentSchema ==
    Binding(currentSchema, currentSchema, currentSchema, {"comment"}, {}, {})
clickhouseCurrentUser == Binding(currentUser, currentUser, currentUser, {}, {}, {})
clickhouse ==
    [schemas |-> clickhouseSchemas, databases |-> clickhouseDatabases,
     tables |-> clickhouseTables, columns |-> clickhouseColumns,
     views |-> clickhouseViews,
     indexes |-> clickhouseIndexes, index_columns |-> clickhouseIndexColumns,
     constraints |-> clickhouseConstraints, comments |-> clickhouseComments,
     partitioned_tables |-> clickhousePartitionedTables,
     partitions |-> clickhousePartitions, policies |-> clickhousePolicies,
     types |-> clickhouseTypes, collations |-> clickhouseCollations,
     roles |-> clickhouseRoles, role_grants |-> clickhouseRoleGrants,
     privileges |-> clickhousePrivileges, settings |-> clickhouseSettings,
     functions |-> clickhouseFunctions, aggregates |-> clickhouseAggregates,
     tablespaces |-> clickhouseTablespaces, foreign_tables |-> clickhouseForeignTables,
     foreign_servers |-> clickhouseForeignServers,
     current_database |-> clickhouseCurrentDatabase,
     current_schema |-> clickhouseCurrentSchema, current_user |-> clickhouseCurrentUser]

(* DuckDB. *)
duckdbSchemas == Binding(schemas, schemas, schemas, {}, byNameSystem, byNameSystem)
duckdbDatabases ==
    Binding(databases, databases, databases, {"access", "size", "tablespace"},
            byNameSystem,
            byNameSystem)
duckdbTables ==
    Binding(tablesOfDuckDB, tablesOfDuckDB, tablesOfDuckDB, {}, bySchemaNameTypesSystem,
            bySchemaNameTypesSystem)
duckdbColumns ==
    Binding(columns, columns, columns, {"collation", "generated", "identity"},
            bySchemaParentNameSystem, bySchemaParentNameSystem)
duckdbIndexes ==
    Binding(indexesOfDuckDB, indexesOfDuckDB, indexesOfDuckDB, {},
            bySchemaParentNameSystem,
            bySchemaParentNameSystem)
duckdbConstraints ==
    Binding(constraintsOfPostgreSQL, constraintsOfPostgreSQL, constraintsOfPostgreSQL,
            {"comment"}, bySchemaParentNameSystem, bySchemaParentNameSystem)
duckdbConstraintColumns ==
    Binding(constraintColumns, constraintColumns, constraintColumns,
            {"foreign_catalog", "foreign_schema"}, bySchemaParentNameSystem,
            bySchemaParentNameSystem)
duckdbNotNulls ==
    Binding(notNulls, notNulls, notNulls, {}, bySchemaParentNameSystem,
            bySchemaParentNameSystem)
duckdbSequences ==
    Binding(sequences, sequences, sequences, {}, bySchemaNameSystem, bySchemaNameSystem)
duckdbViews ==
    Binding(views, views, views, {"check_option"}, bySchemaNameSystem, bySchemaNameSystem)
duckdbComments ==
    Binding(comments, comments, comments, {}, bySchemaNameSystem, bySchemaNameSystem)
duckdbFunctions ==
    Binding(functionsOfRedshift, functionsOfRedshift, functionsOfRedshift,
            {"access", "definition", "owner"}, bySchemaNameSystem, bySchemaNameSystem)
duckdbAggregates ==
    Binding(aggregatesOfVertica, aggregatesOfVertica, aggregatesOfVertica,
            {"access", "definition", "owner"}, bySchemaNameSystem, bySchemaNameSystem)
duckdbRoutineParameters ==
    Binding(routineParameters, routineParameters, routineParameters, {"default", "name"},
            bySchemaParentNameSystem, bySchemaParentNameSystem)
duckdbTypes ==
    Binding(types, types, types, {"access", "owner"}, bySchemaNameSystem,
            bySchemaNameSystem)
duckdbEnumValues ==
    Binding(enumValues, enumValues, enumValues, {}, bySchemaNameSystem,
            bySchemaNameSystem)
duckdbCollations ==
    Binding(collations, collations, collations, {"comment", "locale", "provider",
                                                 "rules"},
            byName, byName)
duckdbSettings ==
    Binding(settings, settings, settings, {"access", "display"}, byName, byName)
duckdbExtensions ==
    Binding(extensions, extensions, extensions, {}, byNameSystem, byNameSystem)
duckdbCurrentUser == Binding(currentUser, currentUser, currentUser, {"session"}, {}, {})
duckdbCurrentDatabase ==
    Binding(currentDatabase, currentDatabase, currentDatabase, {}, {}, {})
duckdbCurrentSchema ==
    Binding(currentSchema, currentSchema, currentSchema, {"comment"}, {}, {})
duckdb ==
    [schemas |-> duckdbSchemas, databases |-> duckdbDatabases, tables |-> duckdbTables,
     columns |-> duckdbColumns, indexes |-> duckdbIndexes,
     constraints |-> duckdbConstraints, constraint_columns |-> duckdbConstraintColumns,
     not_nulls |-> duckdbNotNulls, sequences |-> duckdbSequences, views |-> duckdbViews,
     comments |-> duckdbComments, functions |-> duckdbFunctions,
     aggregates |-> duckdbAggregates, routine_parameters |-> duckdbRoutineParameters,
     types |-> duckdbTypes, enum_values |-> duckdbEnumValues,
     collations |-> duckdbCollations, settings |-> duckdbSettings,
     extensions |-> duckdbExtensions, current_user |-> duckdbCurrentUser,
     current_database |-> duckdbCurrentDatabase, current_schema |-> duckdbCurrentSchema]

(* SQLite. *)
sqlite3Schemas == Binding(schemas, schemas, schemas, {"comment"}, byName, byName)
sqlite3Databases ==
    Binding(databases, databases, databases, {"access", "comment", "size", "tablespace"},
            byName, byName)
sqlite3Tables ==
    Binding(tablesOfSQLite, tablesOfSQLite, tablesOfSQLite, {"comment", "persistence"},
            bySchemaNameTypesSystem, bySchemaNameTypesSystem)
sqlite3Columns ==
    Binding(columns, columns, columns, {"collation", "comment", "generated", "identity"},
            bySchemaParentNameSystem, bySchemaParentNameSystem)
sqlite3Indexes ==
    Binding(indexesOfSQLite, indexesOfSQLite, indexesOfSQLite,
            {"comment", "constraint_type", "predicate"}, bySchemaParentNameSystem,
            bySchemaParentNameSystem)
sqlite3IndexColumns ==
    Binding(indexColumns, indexColumns, indexColumns, {"expression"},
            bySchemaParentNameSystem, bySchemaParentNameSystem)
sqlite3Constraints ==
    Binding(constraintsOfPostgreSQL, constraintsOfPostgreSQL, constraintsOfPostgreSQL,
            {"comment"}, bySchemaParentNameSystem, bySchemaParentNameSystem)
sqlite3Triggers ==
    Binding(triggers, triggers, triggers, {"comment"}, bySchemaParentNameSystem,
            bySchemaParentNameSystem)
sqlite3Functions ==
    Binding(functions, functions, functions,
            {"access", "comment", "definition", "owner", "result_type", "source"},
            bySchemaNameSystem, bySchemaNameSystem)
sqlite3Collations ==
    Binding(collations, collations, collations, {"comment", "locale", "provider",
                                                 "rules"},
            byName, byName)
sqlite3Settings == Binding(settings, settings, settings, {}, byName, byName)
sqlite3ConstraintColumns ==
    Binding(constraintColumns, constraintColumns, constraintColumns,
            {"foreign_catalog", "foreign_name", "foreign_schema", "foreign_table"},
            bySchemaParentNameSystem, bySchemaParentNameSystem)
sqlite3Views ==
    Binding(views, views, views, {"check_option", "comment"}, bySchemaNameSystem,
            bySchemaNameSystem)
sqlite3CurrentDatabase ==
    Binding(currentDatabase, currentDatabase, currentDatabase, {}, {}, {})
sqlite3CurrentSchema ==
    Binding(currentSchema, currentSchema, currentSchema, {"comment"}, {}, {})
sqlite3 ==
    [schemas |-> sqlite3Schemas, databases |-> sqlite3Databases, tables |-> sqlite3Tables,
     columns |-> sqlite3Columns, indexes |-> sqlite3Indexes,
     index_columns |-> sqlite3IndexColumns, constraints |-> sqlite3Constraints,
     triggers |-> sqlite3Triggers, functions |-> sqlite3Functions,
     collations |-> sqlite3Collations, settings |-> sqlite3Settings,
     constraint_columns |-> sqlite3ConstraintColumns, views |-> sqlite3Views,
     current_database |-> sqlite3CurrentDatabase, current_schema |-> sqlite3CurrentSchema]

(* libSQL. *)
libsqlShared ==
    {"tables", "schemas", "columns", "indexes", "index_columns", "constraints",
     "constraint_columns", "triggers", "views", "databases", "functions", "collations",
     "settings", "current_database", "current_schema"}
libsql ==
    Shared(sqlite3, libsqlShared)

(* rqlite. *)
rqliteShared ==
    {"tables", "schemas", "columns", "indexes", "index_columns", "constraints",
     "constraint_columns", "triggers", "views", "databases", "functions", "collations",
     "settings", "current_schema"}
rqlite ==
    Shared(sqlite3, rqliteShared)
=============================================================================
