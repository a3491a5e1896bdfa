----------------------------- MODULE CloudRows ------------------------------
(***************************************************************************)
(* The rows of the models of the hosted warehouses: for each query that a  *)
(* model registers, what its statement returns, what it declares and what  *)
(* its Scan reads. Module Binding says what the arguments are.             *)
(***************************************************************************)
EXTENDS TLC, Bindings

(* BigQuery. *)
bigqueryTables ==
    Binding(tablesOfSQLServer, tablesOfSQLServer, tablesOfSQLServer,
            {"access_method", "options", "owner", "persistence", "row_security",
             "row_security_forced", "rows", "size"},
            bySchemaNameTypes, bySchemaNameTypes)
bigqueryColumns ==
    Binding(columnsOfPostgreSQL, columnsOfPostgreSQL, columnsOfPostgreSQL,
            {"collation", "compression", "default", "generated", "identity",
             "stats_target", "storage"},
            bySchemaParentName, bySchemaParentName)
bigqueryIndexes ==
    Binding(indexesOfBigQuery, indexesOfBigQuery, indexesOfBigQuery,
            {"clustered", "comment", "constraint_definition", "constraint_period",
             "constraint_type", "deferrable", "initially_deferred", "owner", "predicate",
             "replica_identity", "table_visible"},
            bySchemaParentName, bySchemaParentName)
bigqueryViews == Binding(views, views, views, {"updatable"}, bySchemaName, bySchemaName)
bigqueryIndexColumns ==
    Binding(indexColumnsOfSQLServer, indexColumnsOfSQLServer, indexColumnsOfSQLServer,
            {"descending", "expression"}, bySchemaParentNameIndex,
            bySchemaParentNameIndex)
bigqueryConstraints ==
    Binding(constraints, constraints, constraints, {"comment", "definition"},
            bySchemaParentName, bySchemaParentName)
bigqueryConstraintColumns ==
    Binding(constraintColumns, constraintColumns, constraintColumns, {"foreign_name"},
            bySchemaParentName, bySchemaParentName)
bigqueryCurrentUser == Binding(currentUser, currentUser, currentUser, {"session"}, {}, {})
bigqueryDatabases ==
    Binding(databases, databases, databases, {"access", "comment", "size", "tablespace"},
            byName, byName)
bigqueryFunctions ==
    Emptying(
        Binding(functionsOfBigQuery, functionsOfBigQuery, functionsOfBigQuery,
                {"access", "owner", "prosrc"}, bySchemaName, bySchemaName),
        {"language", "security"}, {})
bigqueryAggregates ==
    Emptying(
        Binding(aggregatesOfBigQuery, aggregatesOfBigQuery, aggregatesOfBigQuery,
                {"access", "owner", "prosrc"}, bySchemaName, bySchemaName),
        {"language", "security"}, {})
bigqueryRoutineParameters ==
    Binding(routineParameters, routineParameters, routineParameters, {},
            bySchemaParentName,
            bySchemaParentName)
bigqueryComments == Binding(comments, comments, comments, {}, bySchemaName, bySchemaName)
bigqueryPartitionedTables ==
    Binding(partitionedTablesOfBigQuery, partitionedTablesOfBigQuery,
            partitionedTablesOfBigQuery,
            {"access_method", "parent_visible", "table", "table_visible"}, bySchemaName,
            bySchemaName)
bigqueryPartitions ==
    Binding(partitions, partitions, partitions,
            {"constraint", "partition_visible", "table_visible"},
            bySchemaPartitionParentName, bySchemaPartitionParentName)
bigquerySchemas ==
    Emptying(
        Binding(schemasOfBigQuery, schemasOfBigQuery, schemasOfBigQuery, {"access"},
                byName,
                byName),
        {"owner"}, {})
bigqueryCurrentSchema ==
    Emptying(
        Binding(currentSchemaOfBigQuery, currentSchemaOfBigQuery, currentSchemaOfBigQuery,
                {"access"}, {}, {}),
        {"owner"}, {})
bigquery ==
    [tables |-> bigqueryTables, columns |-> bigqueryColumns, indexes |-> bigqueryIndexes,
     views |-> bigqueryViews, index_columns |-> bigqueryIndexColumns,
     constraints |-> bigqueryConstraints,
     constraint_columns |-> bigqueryConstraintColumns,
     current_user |-> bigqueryCurrentUser, databases |-> bigqueryDatabases,
     functions |-> bigqueryFunctions, aggregates |-> bigqueryAggregates,
     routine_parameters |-> bigqueryRoutineParameters, comments |-> bigqueryComments,
     partitioned_tables |-> bigqueryPartitionedTables, partitions |-> bigqueryPartitions,
     schemas |-> bigquerySchemas, current_schema |-> bigqueryCurrentSchema]

(* Databend. *)
databendSchemas ==
    Emptying(
        Binding(schemas, schemas, schemas, {"comment"}, byNameSystem, byNameSystem),
        {"owner"}, {})
databendDatabases ==
    Emptying(
        Binding(databases, databases, databases, {"access", "comment", "size",
                                                  "tablespace"},
                byNameSystem, byNameSystem),
        {"owner"}, {})
databendTables ==
    Binding(tablesOfHana, tablesOfHana, tablesOfHana, {"comment", "options",
                                                       "persistence"},
            bySchemaNameTypesSystem, bySchemaNameTypesSystem)
databendColumns ==
    Binding(columns, columns, columns,
            {"collation", "comment", "default", "generated", "identity"},
            bySchemaParentNameSystem, bySchemaParentNameSystem)
databendIndexes ==
    Emptying(
        Binding(indexesOfDatabend, indexesOfDatabend, indexesOfDatabend, {"comment"},
                bySchemaParentNameSystem, bySchemaParentNameSystem),
        {"table"}, {})
databendIndexColumns ==
    Emptying(
        Binding(indexColumns, indexColumns, indexColumns, {"expression"},
                bySchemaParentNameSystem, bySchemaParentNameSystem),
        {"table"}, {})
databendConstraintColumns ==
    Emptying(
        Binding(constraintColumns, constraintColumns, constraintColumns,
                {"foreign_catalog", "foreign_name", "foreign_schema", "foreign_table"},
                bySchemaParentNameSystem, bySchemaParentNameSystem),
        {"schema", "table"}, {})
databendConstraints ==
    Emptying(
        Binding(constraintsOfPostgreSQL, constraintsOfPostgreSQL, constraintsOfPostgreSQL,
                {"comment"}, bySchemaParentNameSystem, bySchemaParentNameSystem),
        {"schema", "table"}, {})
databendViews ==
    Binding(views, views, views, {"check_option", "comment", "insertable", "updatable"},
            bySchemaNameSystem, bySchemaNameSystem)
databendComments ==
    Binding(comments, comments, comments, {}, bySchemaNameSystem, bySchemaNameSystem)
databendColumnStats ==
    Binding(columnStats, columnStats, columnStats,
            {"mean", "null_frac", "top_n", "top_n_freqs"}, bySchemaParentNameSystem,
            bySchemaParentNameSystem)
databendSequences ==
    Binding(sequences, sequences, sequences,
            {"cycles", "data_type", "maximum", "minimum", "start"}, bySchemaName,
            bySchemaName)
databendCurrentSchema ==
    Emptying(
        Binding(currentSchema, currentSchema, currentSchema, {"comment"}, {}, {}),
        {"owner"}, {})
databendFunctions ==
    Binding(functionsOfRedshift, functionsOfRedshift, functionsOfRedshift,
            {"access", "comment", "definition", "id", "owner", "result_type"},
            bySchemaNameSystem, bySchemaNameSystem)
databendAggregates ==
    Binding(aggregatesOfVertica, aggregatesOfVertica, aggregatesOfVertica,
            {"access", "comment", "definition", "id", "owner", "result_type"},
            bySchemaNameSystem, bySchemaNameSystem)
databendSettings ==
    Binding(settings, settings, settings, {"access", "display"}, byName, byName)
databendAccessMethods ==
    Binding(accessMethods, accessMethods, accessMethods, {"handler"}, byName, byName)
databendRoles == Binding(roles, roles, roles, {"comment", "valid_until"}, byName, byName)
databendRoleGrants ==
    Binding(roleGrants, roleGrants, roleGrants, {"grantor"}, byName, byName)
databendCurrentUser == Binding(currentUser, currentUser, currentUser, {"session"}, {}, {})
databend ==
    [schemas |-> databendSchemas, databases |-> databendDatabases,
     tables |-> databendTables, columns |-> databendColumns, indexes |-> databendIndexes,
     index_columns |-> databendIndexColumns,
     constraint_columns |-> databendConstraintColumns,
     constraints |-> databendConstraints,
     views |-> databendViews, comments |-> databendComments,
     column_stats |-> databendColumnStats, sequences |-> databendSequences,
     current_schema |-> databendCurrentSchema, functions |-> databendFunctions,
     aggregates |-> databendAggregates, settings |-> databendSettings,
     access_methods |-> databendAccessMethods, roles |-> databendRoles,
     role_grants |-> databendRoleGrants, current_user |-> databendCurrentUser]

(* Databricks. *)
databricksDatabases ==
    Emptying(
        Binding(databases, databases, databases, {"access", "size", "tablespace"}, byName,
                byName),
        {"owner"}, {})
databricksSchemas ==
    Emptying(
        Binding(schemasOfPostgreSQL, schemasOfPostgreSQL, schemasOfPostgreSQL, {},
                byNameSystem,
                byNameSystem),
        {"owner"}, {})
databricksTables ==
    Binding(tablesOfSQLServer, tablesOfSQLServer, tablesOfSQLServer,
            {"access_method", "options", "persistence", "row_security_forced", "rows",
             "size"},
            bySchemaNameTypesSystem, bySchemaNameTypesSystem)
databricksColumns ==
    Binding(columnsOfPostgreSQL, columnsOfPostgreSQL, columnsOfPostgreSQL,
            {"collation", "compression", "generated", "identity", "stats_target",
             "storage"},
            bySchemaParentNameSystem, bySchemaParentNameSystem)
databricksViews ==
    Binding(views, views, views, {"check_option"}, bySchemaNameSystem, bySchemaNameSystem)
databricksConstraints ==
    Binding(constraints, constraints, constraints, {"comment"}, bySchemaParentNameSystem,
            bySchemaParentNameSystem)
databricksConstraintColumns ==
    Binding(constraintColumns, constraintColumns, constraintColumns, {},
            bySchemaParentNameSystem, bySchemaParentNameSystem)
databricksCurrentUser ==
    Binding(currentUser, currentUser, currentUser, {"session"}, {}, {})
databricksCurrentSchema ==
    Binding(currentSchemaOfDatabricks, currentSchemaOfDatabricks,
            currentSchemaOfDatabricks,
            {"access", "comment"}, {}, {})
databricksFunctions ==
    Emptying(
        Binding(functionsOfBigQuery, functionsOfBigQuery, functionsOfBigQuery,
                {"definition", "prosrc", "result_type"}, bySchemaNameSystem,
                bySchemaNameSystem),
        {"language", "security"}, {})
databricksRoutineParameters ==
    Binding(routineParameters, routineParameters, routineParameters, {},
            bySchemaParentNameSystem, bySchemaParentNameSystem)
databricksComments ==
    Binding(comments, comments, comments, {}, bySchemaNameSystem, bySchemaNameSystem)
databricksPartitionedTables ==
    Emptying(
        Binding(partitionedTablesOfBigQuery, partitionedTablesOfBigQuery,
                partitionedTablesOfBigQuery,
                {"access_method", "direct_size", "parent_visible", "table",
                 "table_visible", "total_size"},
                bySchemaNameSystem, bySchemaNameSystem),
        {"owner"}, {})
databricksPrivileges ==
    Binding(privileges, privileges, privileges, {"column_access", "policies"},
            bySchemaNameSystem, bySchemaNameSystem)
databricksPolicies ==
    Binding(policies, policies, policies, {"comment", "enabled", "roles", "with_check"},
            bySchemaParentNameSystem, bySchemaParentNameSystem)
databricksCollations ==
    Binding(collations, collations, collations, {"collate", "ctype", "locale", "rules"},
            bySchemaName, bySchemaName)
databricksForeignServers ==
    Emptying(
        Binding(foreignServers, foreignServers, foreignServers, {"access", "type",
                                                                 "version"},
                byName, byName),
        {"owner", "wrapper"}, {})
databricks ==
    [databases |-> databricksDatabases, schemas |-> databricksSchemas,
     tables |-> databricksTables, columns |-> databricksColumns,
     views |-> databricksViews,
     constraints |-> databricksConstraints,
     constraint_columns |-> databricksConstraintColumns,
     current_user |-> databricksCurrentUser, current_schema |-> databricksCurrentSchema,
     functions |-> databricksFunctions,
     routine_parameters |-> databricksRoutineParameters,
     comments |-> databricksComments, partitioned_tables |-> databricksPartitionedTables,
     privileges |-> databricksPrivileges, policies |-> databricksPolicies,
     collations |-> databricksCollations, foreign_servers |-> databricksForeignServers]

(* MaxCompute. *)
maxcomputeDatabases ==
    Binding(databases, databases, databases, {"access", "comment", "size", "tablespace"},
            byName, byName)
maxcomputeSchemas == Binding(schemas, schemas, schemas, {"comment"}, bySchema, bySchema)
maxcomputeTables ==
    Binding(tablesOfSQLServer, tablesOfSQLServer, tablesOfSQLServer,
            {"access_method", "options", "persistence", "row_security",
             "row_security_forced", "rows", "size"},
            bySchemaNameTypes, bySchemaNameTypes)
maxcomputeColumns ==
    Binding(columns, columns, columns, {"collation", "generated", "identity"},
            bySchemaParentName, bySchemaParentName)
maxcomputeViews ==
    Binding(views, views, views, {"check_option"}, bySchemaName, bySchemaName)
maxcomputeCurrentUser ==
    Binding(currentUser, currentUser, currentUser, {"session"}, {}, {})
maxcomputeCurrentSchema ==
    Binding(currentSchema, currentSchema, currentSchema, {"comment"}, {}, {})
maxcomputePartitionedTables ==
    Emptying(
        Binding(partitionedTablesOfBigQuery, partitionedTablesOfBigQuery,
                partitionedTablesOfBigQuery,
                {"access_method", "direct_size", "parent_visible", "table",
                 "table_visible", "total_size"},
                bySchemaName, bySchemaName),
        {"owner"}, {})
maxcomputePartitions ==
    Binding(partitions, partitions, partitions,
            {"constraint", "partition_visible", "table_visible"},
            bySchemaPartitionParentName, bySchemaPartitionParentName)
maxcomputeComments ==
    Binding(comments, comments, comments, {}, bySchemaName, bySchemaName)
maxcomputeRoles == Binding(roles, roles, roles, {"valid_until"}, byName, byName)
maxcomputeRoleGrants ==
    Binding(roleGrants, roleGrants, roleGrants, {"grantor"}, byName, byName)
maxcomputePrivileges ==
    Binding(privileges, privileges, privileges, {"column_access", "policies"},
            bySchemaName,
            bySchemaName)
maxcomputeColumnPrivileges ==
    Binding(columnPrivileges, columnPrivileges, columnPrivileges, {}, bySchemaParentName,
            bySchemaParentName)
maxcomputeFunctions ==
    Binding(functionsOfBigQuery, functionsOfBigQuery, functionsOfBigQuery,
            {"arg_types", "comment", "definition", "id", "prosrc", "result_type",
             "source"},
            bySchemaName, bySchemaName)
maxcompute ==
    [databases |-> maxcomputeDatabases, schemas |-> maxcomputeSchemas,
     tables |-> maxcomputeTables, columns |-> maxcomputeColumns,
     views |-> maxcomputeViews,
     current_user |-> maxcomputeCurrentUser, current_schema |-> maxcomputeCurrentSchema,
     partitioned_tables |-> maxcomputePartitionedTables,
     partitions |-> maxcomputePartitions, comments |-> maxcomputeComments,
     roles |-> maxcomputeRoles, role_grants |-> maxcomputeRoleGrants,
     privileges |-> maxcomputePrivileges,
     column_privileges |-> maxcomputeColumnPrivileges,
     functions |-> maxcomputeFunctions]

(* Snowflake. *)
snowflakeSchemas ==
    Emptying(
        Binding(schemas, schemas, schemas, {}, byNameSystem, byNameSystem),
        {"owner"}, {})
snowflakeDatabases ==
    Emptying(
        Binding(databases, databases, databases, {"access", "size", "tablespace"}, byName,
                byName),
        {"owner"}, {})
snowflakeTables ==
    Binding(tablesOfRedshift, tablesOfRedshift, tablesOfRedshift,
            {"options", "persistence"}, bySchemaNameTypesSystem, bySchemaNameTypesSystem)
snowflakeColumns ==
    Binding(columns, columns, columns, {"generated", "identity"},
            byCatalogSchemaParentNameSystem, byCatalogSchemaParentNameSystem)
snowflakeConstraints ==
    Binding(constraints, constraints, constraints, {"definition"},
            bySchemaParentNameSystem,
            bySchemaParentNameSystem)
snowflakeConstraintColumns ==
    Binding(constraintColumns, constraintColumns, constraintColumns,
            {"foreign_catalog", "foreign_name", "foreign_schema", "foreign_table"},
            byCatalogSchemaParentNameSystem, byCatalogSchemaParentNameSystem)
\* Mutant: the schema is declared and the statement does not narrow by it.
snowflakeViewsWide ==
    Binding(views, views, views, {"check_option"}, bySchemaNameSystem, byNameSystem)
snowflakeViews ==
    Binding(views, views, views, {"check_option"}, bySchemaNameSystem, bySchemaNameSystem)
snowflakeComments ==
    Binding(comments, comments, comments, {}, bySchemaNameSystem, bySchemaNameSystem)
snowflakeSequences ==
    Binding(sequences, sequences, sequences, {}, bySchemaNameSystem, bySchemaNameSystem)
snowflakePrivileges ==
    Binding(privileges, privileges, privileges, {"column_access", "policies"},
            bySchemaNameSystem, bySchemaNameSystem)
snowflakeRoleGrants ==
    Binding(roleGrants, roleGrants, roleGrants, {"grantor"}, byName, byName)
snowflakeCurrentSchema ==
    Emptying(
        Binding(currentSchema, currentSchema, currentSchema, {}, {}, {}),
        {"owner"}, {})
snowflakeCurrentUser == Binding(currentUser, currentUser, currentUser, {}, {}, {})
snowflakeFunctions ==
    Emptying(
        Binding(functionsOfRedshift, functionsOfRedshift, functionsOfRedshift,
                {"access", "definition"}, bySchemaNameSystem, bySchemaNameSystem),
        {"volatility"}, {})
snowflakeSettings ==
    Binding(settings, settings, settings, {"access", "display"}, byName, byName)
snowflake ==
    [schemas |-> snowflakeSchemas, databases |-> snowflakeDatabases,
     tables |-> snowflakeTables, columns |-> snowflakeColumns,
     constraints |-> snowflakeConstraints,
     constraint_columns |-> snowflakeConstraintColumns, views |-> snowflakeViews,
     comments |-> snowflakeComments, sequences |-> snowflakeSequences,
     privileges |-> snowflakePrivileges, role_grants |-> snowflakeRoleGrants,
     current_schema |-> snowflakeCurrentSchema, current_user |-> snowflakeCurrentUser,
     functions |-> snowflakeFunctions, settings |-> snowflakeSettings]

(* Spanner. *)
spannerSchemas ==
    Emptying(
        Binding(schemasOfPostgreSQL, schemasOfPostgreSQL, schemasOfPostgreSQL,
                {"access", "comment"}, byNameSystem, byNameSystem),
        {"owner"}, {})
spannerTables ==
    Binding(tablesOfSQLServer, tablesOfSQLServer, tablesOfSQLServer,
            {"access_method", "comment", "options", "owner", "persistence",
             "row_security", "row_security_forced", "rows", "size"},
            bySchemaNameTypesSystem, bySchemaNameTypesSystem)
spannerColumns ==
    Binding(columnsOfPostgreSQL, columnsOfPostgreSQL, columnsOfPostgreSQL,
            {"collation", "comment", "compression", "generated", "identity",
             "stats_target", "storage"},
            bySchemaParentNameSystem, bySchemaParentNameSystem)
spannerIndexes ==
    Binding(indexesOfBigQuery, indexesOfBigQuery, indexesOfBigQuery,
            {"clustered", "comment", "constraint_definition", "constraint_period",
             "constraint_type", "deferrable", "definition", "initially_deferred",
             "options", "owner", "replica_identity", "size", "table_visible", "using",
             "valid"},
            bySchemaParentNameSystem, bySchemaParentNameSystem)
spannerCurrentSchema ==
    Emptying(
        Binding(currentSchemaOfDatabricks, currentSchemaOfDatabricks,
                currentSchemaOfDatabricks,
                {"access", "comment"}, {}, {}),
        {"owner"}, {})
spannerViews ==
    Binding(views, views, views, {"check_option", "comment", "insertable", "updatable"},
            bySchemaNameSystem, bySchemaNameSystem)
spannerSequences ==
    Binding(sequencesOfSQLServer, sequencesOfSQLServer, sequencesOfSQLServer,
            {"cache_size", "comment", "cycles", "increment", "maximum", "minimum"},
            bySchemaNameSystem, bySchemaNameSystem)
spannerIndexColumns ==
    Binding(indexColumnsOfSQLServer, indexColumnsOfSQLServer, indexColumnsOfSQLServer,
            {"descending"}, bySchemaParentNameIndexSystem, bySchemaParentNameIndexSystem)
spannerConstraints ==
    Binding(constraints, constraints, constraints, {"comment"}, bySchemaParentNameSystem,
            bySchemaParentNameSystem)
spannerConstraintColumns ==
    Binding(constraintColumns, constraintColumns, constraintColumns,
            {"foreign_catalog", "foreign_name", "foreign_schema", "foreign_table"},
            bySchemaParentNameSystem, bySchemaParentNameSystem)
spannerNotNulls ==
    Binding(notNulls, notNulls, notNulls, {}, bySchemaParentNameSystem,
            bySchemaParentNameSystem)
spannerRoles ==
    Binding(roles, roles, roles, {"comment", "valid_until"}, byNameSystem, byNameSystem)
spannerRoleGrants ==
    Binding(roleGrants, roleGrants, roleGrants, {"grantor"}, byName, byName)
spannerPrivileges ==
    Binding(privileges, privileges, privileges, {"policies"}, bySchemaNameSystem,
            bySchemaNameSystem)
spannerColumnPrivileges ==
    Binding(columnPrivileges, columnPrivileges, columnPrivileges, {"grantor"},
            bySchemaParentNameSystem, bySchemaParentNameSystem)
spannerCurrentUser == Binding(currentUser, currentUser, currentUser, {"session"}, {}, {})
spannerFunctions ==
    Emptying(
        Binding(functionsOfBigQuery, functionsOfBigQuery, functionsOfBigQuery,
                {"access", "comment", "definition", "owner", "prosrc"},
                bySchemaNameSystem,
                bySchemaNameSystem),
        {"language", "security"}, {})
spannerRoutineParameters ==
    Binding(routineParameters, routineParameters, routineParameters, {},
            bySchemaParentNameSystem, bySchemaParentNameSystem)
spannerSettings ==
    Binding(settings, settings, settings, {"access", "context", "display"}, byName,
            byName)
spannerPublications ==
    Binding(publications, publications, publications, {"comment", "generated_columns"},
            byName, byName)
spannerPublicationTables ==
    Binding(publicationTables, publicationTables, publicationTables, {"where"},
            byNameTable,
            byNameTable)
spannerTablespaces ==
    Binding(tablespaces, tablespaces, tablespaces,
            {"access", "comment", "location", "options", "owner", "size"}, byName, byName)
spanner ==
    [schemas |-> spannerSchemas, tables |-> spannerTables, columns |-> spannerColumns,
     indexes |-> spannerIndexes, current_schema |-> spannerCurrentSchema,
     views |-> spannerViews, sequences |-> spannerSequences,
     index_columns |-> spannerIndexColumns, constraints |-> spannerConstraints,
     constraint_columns |-> spannerConstraintColumns, not_nulls |-> spannerNotNulls,
     roles |-> spannerRoles, role_grants |-> spannerRoleGrants,
     privileges |-> spannerPrivileges, column_privileges |-> spannerColumnPrivileges,
     current_user |-> spannerCurrentUser, functions |-> spannerFunctions,
     routine_parameters |-> spannerRoutineParameters, settings |-> spannerSettings,
     publications |-> spannerPublications,
     publication_tables |-> spannerPublicationTables,
     tablespaces |-> spannerTablespaces]

(* YDB. *)
ydbDatabases ==
    Binding(databases, databases, databases, {"comment", "size", "tablespace"}, byName,
            byName)
ydbSchemas ==
    Binding(schemas, schemas, schemas, {"comment"}, bySchemaSystem, bySchemaSystem)
ydbTables ==
    Binding(tablesOfYDB, tablesOfYDB, tablesOfYDB, {"comment"}, bySchemaNameTypesSystem,
            bySchemaNameTypesSystem)
ydbTablespaces ==
    Binding(tablespaces, tablespaces, tablespaces,
            {"access", "comment", "location", "owner", "size"}, byName, byName)
ydbRoles == Binding(roles, roles, roles, {}, byName, byName)
ydbRoleGrants == Binding(roleGrants, roleGrants, roleGrants, {"grantor"}, byName, byName)
ydbPrivileges ==
    Binding(privileges, privileges, privileges, {"column_access", "policies"},
            bySchemaNameSystem, bySchemaNameSystem)
ydb ==
    [databases |-> ydbDatabases, schemas |-> ydbSchemas, tables |-> ydbTables,
     tablespaces |-> ydbTablespaces, roles |-> ydbRoles, role_grants |-> ydbRoleGrants,
     privileges |-> ydbPrivileges]

(* Athena. *)
athenaDatabases ==
    Binding(databases, databases, databases, {"access", "comment", "size", "tablespace"},
            byName, byName)
athenaSchemas ==
    Binding(schemas, schemas, schemas, {"comment"}, bySchemaSystem, bySchemaSystem)
athenaTables ==
    Binding(tables, tables, tables, {"comment"}, bySchemaNameTypesSystem,
            bySchemaNameTypesSystem)
athenaColumns ==
    Binding(columns, columns, columns, {"collation", "generated", "identity"},
            bySchemaParentNameSystem, bySchemaParentNameSystem)
athenaViews ==
    Binding(views, views, views, {"check_option", "comment"}, bySchemaNameSystem,
            bySchemaNameSystem)
athenaPartitionedTables ==
    Binding(partitionedTables, partitionedTables, partitionedTables, {},
            bySchemaNameSystem,
            bySchemaNameSystem)
athenaCurrentSchema ==
    Binding(currentSchema, currentSchema, currentSchema, {"comment"}, {}, {})
athenaCurrentUser == Binding(currentUser, currentUser, currentUser, {"session"}, {}, {})
athena ==
    [databases |-> athenaDatabases, schemas |-> athenaSchemas, tables |-> athenaTables,
     columns |-> athenaColumns, views |-> athenaViews,
     partitioned_tables |-> athenaPartitionedTables,
     current_schema |-> athenaCurrentSchema,
     current_user |-> athenaCurrentUser]
=============================================================================
