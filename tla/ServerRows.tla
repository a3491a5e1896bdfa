----------------------------- MODULE ServerRows -----------------------------
(***************************************************************************)
(* The rows of the models of SQL Server, Oracle, SAP HANA and Firebird:    *)
(* for each query that a model registers, what its statement returns, what *)
(* it declares and what its Scan reads. Module Binding says what the       *)
(* arguments are.                                                          *)
(***************************************************************************)
EXTENDS TLC, Bindings

(* SQL Server. *)
sqlserverSchemas ==
    Binding(schemas, schemas, schemas, {"comment"}, byNameSystem, byNameSystem)
sqlserverDatabases ==
    Binding(databases, databases, databases, {"access", "comment", "size", "tablespace"},
            byNameSystem, byNameSystem)
sqlserverTables ==
    Binding(tablesOfSQLServer, tablesOfSQLServer, tablesOfSQLServer,
            {"options", "row_security", "row_security_forced", "rows", "size"},
            bySchemaNameTypesSystem, bySchemaNameTypesSystem)
sqlserverColumns ==
    Binding(columns, columns, columns, {"generated", "identity"},
            bySchemaParentNameSystem,
            bySchemaParentNameSystem)
sqlserverIndexes ==
    Binding(indexesOfSQLServer, indexesOfSQLServer, indexesOfSQLServer,
            {"constraint_type", "deferrable", "initially_deferred", "options", "size"},
            bySchemaParentNameSystem, bySchemaParentNameSystem)
sqlserverIndexColumns ==
    Binding(indexColumnsOfSQLServer, indexColumnsOfSQLServer, indexColumnsOfSQLServer,
            {"expression"}, bySchemaParentNameSystem, bySchemaParentNameSystem)
sqlserverConstraints ==
    Binding(constraints, constraints, constraints, {"definition"},
            bySchemaParentNameSystem,
            bySchemaParentNameSystem)
sqlserverConstraintColumns ==
    Binding(constraintColumns, constraintColumns, constraintColumns,
            {"foreign_catalog", "foreign_name", "foreign_schema", "foreign_table"},
            bySchemaParentNameSystem, bySchemaParentNameSystem)
sqlserverSequences ==
    Binding(sequencesOfSQLServer, sequencesOfSQLServer, sequencesOfSQLServer, {},
            bySchemaNameSystem, bySchemaNameSystem)
sqlserverViews ==
    Binding(views, views, views, {"insertable", "updatable"}, bySchemaNameSystem,
            bySchemaNameSystem)
sqlserverTriggers ==
    Binding(triggers, triggers, triggers, {}, bySchemaParentNameSystem,
            bySchemaParentNameSystem)
sqlserverFunctions ==
    Binding(functions, functions, functions, {"access", "source"}, bySchemaNameSystem,
            bySchemaNameSystem)
sqlserverAggregates ==
    Binding(aggregates, aggregates, aggregates, {"access", "source"}, bySchemaNameSystem,
            bySchemaNameSystem)
sqlserverRoutineParameters ==
    Binding(routineParameters, routineParameters, routineParameters, {"default", "name"},
            bySchemaParentNameSystem, bySchemaParentNameSystem)
sqlserverEventTriggers ==
    Binding(eventTriggers, eventTriggers, eventTriggers, {}, byNameSystem, byNameSystem)
sqlserverTypes ==
    Binding(types, types, types, {"access", "comment", "size"}, bySchemaNameSystem,
            bySchemaNameSystem)
sqlserverDomains ==
    Binding(domains, domains, domains, {"access", "comment", "default"},
            bySchemaNameSystem,
            bySchemaNameSystem)
sqlserverCollations ==
    Binding(collations, collations, collations, {"locale", "provider", "rules"}, byName,
            byName)
sqlserverComments ==
    Binding(comments, comments, comments, {}, bySchemaNameSystem, bySchemaNameSystem)
sqlserverRoles ==
    Binding(roles, roles, roles, {"comment", "valid_until"}, byNameSystem, byNameSystem)
sqlserverRoleGrants ==
    Binding(roleGrants, roleGrants, roleGrants, {"grantor"}, byName, byName)
sqlserverPrivileges ==
    Binding(privileges, privileges, privileges, {"column_access", "policies"},
            bySchemaNameSystem, bySchemaNameSystem)
sqlserverTablespaces ==
    Binding(tablespacesOfSQLServer, tablespacesOfSQLServer, tablespacesOfSQLServer,
            {"comment", "options", "owner", "size"}, byName, byName)
sqlserverPartitionedTables ==
    Emptying(
        Binding(partitionedTablesOfSQLServer, partitionedTablesOfSQLServer,
                partitionedTablesOfSQLServer, {"direct_size", "total_size"},
                bySchemaNameSystem,
                bySchemaNameSystem),
        {"owner"}, {})
sqlserverSettings ==
    Binding(settings, settings, settings, {"access", "display"}, byName, byName)
sqlserverForeignServers ==
    Binding(foreignServers, foreignServers, foreignServers,
            {"access", "comment", "options", "type", "version"}, byName, byName)
sqlserverUserMappings ==
    Binding(userMappings, userMappings, userMappings, {"name", "options"}, byName, byName)
sqlserverForeignTables ==
    Binding(foreignTables, foreignTables, foreignTables, {"options"}, bySchemaNameSystem,
            bySchemaNameSystem)
sqlserverColumnStats ==
    Binding(columnStats, columnStats, columnStats,
            {"avg_width", "max", "mean", "min", "null_frac", "top_n", "top_n_freqs"},
            bySchemaParentNameSystem, bySchemaParentNameSystem)
sqlserverExtendedStats ==
    Binding(extendedStats, extendedStats, extendedStats, {}, bySchemaNameSystem,
            bySchemaNameSystem)
sqlserverCurrentUser == Binding(currentUser, currentUser, currentUser, {}, {}, {})
sqlserverCurrentDatabase ==
    Binding(currentDatabase, currentDatabase, currentDatabase, {}, {}, {})
sqlserverCurrentSchema ==
    Binding(currentSchema, currentSchema, currentSchema, {"comment"}, {}, {})
sqlserverPartitions ==
    Binding(partitionsOfSQLServer, partitionsOfSQLServer, partitionsOfSQLServer, {},
            bySchemaPartitionParentNameSystem, bySchemaPartitionParentNameSystem)
sqlserverPolicies ==
    Binding(policiesOfSQLServer, policiesOfSQLServer, policiesOfSQLServer,
            {"command", "using", "with_check"}, bySchemaParentNameSystem,
            bySchemaParentNameSystem)
sqlserver ==
    [schemas |-> sqlserverSchemas, databases |-> sqlserverDatabases,
     tables |-> sqlserverTables, columns |-> sqlserverColumns,
     indexes |-> sqlserverIndexes,
     index_columns |-> sqlserverIndexColumns, constraints |-> sqlserverConstraints,
     constraint_columns |-> sqlserverConstraintColumns, sequences |-> sqlserverSequences,
     views |-> sqlserverViews, triggers |-> sqlserverTriggers,
     functions |-> sqlserverFunctions, aggregates |-> sqlserverAggregates,
     routine_parameters |-> sqlserverRoutineParameters,
     event_triggers |-> sqlserverEventTriggers, types |-> sqlserverTypes,
     domains |-> sqlserverDomains, collations |-> sqlserverCollations,
     comments |-> sqlserverComments, roles |-> sqlserverRoles,
     role_grants |-> sqlserverRoleGrants, privileges |-> sqlserverPrivileges,
     tablespaces |-> sqlserverTablespaces,
     partitioned_tables |-> sqlserverPartitionedTables, settings |-> sqlserverSettings,
     foreign_servers |-> sqlserverForeignServers, user_mappings |-> sqlserverUserMappings,
     foreign_tables |-> sqlserverForeignTables, column_stats |-> sqlserverColumnStats,
     extended_stats |-> sqlserverExtendedStats, current_user |-> sqlserverCurrentUser,
     current_database |-> sqlserverCurrentDatabase,
     current_schema |-> sqlserverCurrentSchema, partitions |-> sqlserverPartitions,
     policies |-> sqlserverPolicies]

(* Oracle. *)
oracleSchemas ==
    Binding(schemas, schemas, schemas, {"comment"}, byNameSystem, byNameSystem)
oracleTables ==
    Binding(tablesOfSQLServer, tablesOfSQLServer, tablesOfSQLServer,
            {"access_method", "size"}, bySchemaNameTypesSystem, bySchemaNameTypesSystem)
oracleColumns ==
    Binding(columns, columns, columns, {"collation", "generated", "identity"},
            bySchemaParentNameSystem, bySchemaParentNameSystem)
oracleConstraints ==
    Binding(constraints, constraints, constraints, {"comment"}, bySchemaParentNameSystem,
            bySchemaParentNameSystem)
oracleConstraintColumns ==
    Binding(constraintColumns, constraintColumns, constraintColumns, {"foreign_catalog"},
            bySchemaParentNameSystem, bySchemaParentNameSystem)
oracleIndexes ==
    Binding(indexesOfOracle, indexesOfOracle, indexesOfOracle,
            {"comment", "deferrable", "initially_deferred", "size", "valid"},
            bySchemaParentNameSystem, bySchemaParentNameSystem)
oracleIndexColumns ==
    Binding(indexColumns, indexColumns, indexColumns, {}, bySchemaParentNameSystem,
            bySchemaParentNameSystem)
\* Mutant: the owner is read into its string without NullAsEmpty.
oracleSequencesPlain ==
    Emptying(
        Binding(sequencesOfSQLServer, sequencesOfSQLServer, sequencesOfSQLServer,
                {"comment"},
                bySchemaNameSystem, bySchemaNameSystem),
        {}, {"owned_by"})
oracleSequences ==
    Emptying(
        Binding(sequencesOfSQLServer, sequencesOfSQLServer, sequencesOfSQLServer,
                {"comment"},
                bySchemaNameSystem, bySchemaNameSystem),
        {"owned_by"}, {"owned_by"})
oracleViews ==
    Binding(views, views, views, {"check_option", "insertable", "updatable"},
            bySchemaNameSystem, bySchemaNameSystem)
oracleCurrentDatabase ==
    Binding(currentDatabase, currentDatabase, currentDatabase, {}, {}, {})
oracleCurrentSchema ==
    Binding(currentSchema, currentSchema, currentSchema, {"comment"}, {}, {})
oracleCurrentUser == Binding(currentUser, currentUser, currentUser, {}, {}, {})
oracleFunctions ==
    Emptying(
        Binding(functions, functions, functions, {"access", "comment", "definition",
                                                  "source"},
                bySchemaNameSystem, bySchemaNameSystem),
        {}, {"arg_types", "result_type"})
oracleAggregates ==
    Emptying(
        Binding(aggregates, aggregates, aggregates,
                {"access", "comment", "definition", "source"}, bySchemaNameSystem,
                bySchemaNameSystem),
        {}, {"arg_types", "result_type"})
oracleRoutineParameters ==
    Binding(routineParameters, routineParameters, routineParameters, {},
            bySchemaParentNameSystem, bySchemaParentNameSystem)
oracleTypes ==
    Emptying(
        Binding(types, types, types, {"access", "comment", "size"}, bySchemaNameSystem,
                bySchemaNameSystem),
        {"elements"}, {"elements"})
oracleDomains ==
    Emptying(
        Binding(domains, domains, domains, {"access", "comment"}, bySchemaNameSystem,
                bySchemaNameSystem),
        {"collation", "constraints", "data_type"}, {"collation", "constraints",
                                                    "data_type"})
oracleOperators ==
    Emptying(
        Binding(operatorsOfOracle, operatorsOfOracle, operatorsOfOracle, {"comment"},
                bySchemaNameSystem, bySchemaNameSystem),
        {"left_type", "result_type", "right_type"}, {"left_type", "result_type",
        "right_type"})
oracleComments ==
    Binding(comments, comments, comments, {}, bySchemaNameSystem, bySchemaNameSystem)
oracleTriggers ==
    Binding(triggers, triggers, triggers, {"comment"}, bySchemaParentNameSystem,
            bySchemaParentNameSystem)
oracleEventTriggers ==
    Emptying(
        Binding(eventTriggers, eventTriggers, eventTriggers, {"comment"}, byNameSystem,
                byNameSystem),
        {"function"}, {"function"})
oraclePartitionedTables ==
    Emptying(
        Binding(partitionedTables, partitionedTables, partitionedTables, {},
                bySchemaNameSystem,
                bySchemaNameSystem),
        {"expression", "parent"}, {"expression", "parent"})
oracleColumnStats ==
    Binding(columnStats, columnStats, columnStats, {"mean", "top_n", "top_n_freqs"},
            bySchemaParentNameSystem, bySchemaParentNameSystem)
oracleExtendedStats ==
    Binding(extendedStats, extendedStats, extendedStats, {"comment"}, bySchemaNameSystem,
            bySchemaNameSystem)
oraclePrivileges ==
    Emptying(
        Binding(privileges, privileges, privileges, {"column_access", "policies"},
                bySchemaNameSystem, bySchemaNameSystem),
        {"type"}, {"type"})
oracleForeignServers ==
    Binding(foreignServers, foreignServers, foreignServers,
            {"access", "comment", "type", "version"}, byNameSystem, byNameSystem)
oracleForeignTables ==
    Emptying(
        Binding(foreignTables, foreignTables, foreignTables, {}, bySchemaNameSystem,
                bySchemaNameSystem),
        {"server"}, {"server"})
oraclePartitions ==
    Binding(partitionsOfSQLServer, partitionsOfSQLServer, partitionsOfSQLServer, {},
            bySchemaPartitionParentNameSystem, bySchemaPartitionParentNameSystem)
oraclePolicies ==
    Binding(policiesOfSQLServer, policiesOfSQLServer, policiesOfSQLServer,
            {"comment", "enabled", "using", "with_check"}, bySchemaParentNameSystem,
            bySchemaParentNameSystem)
oracleNotNulls ==
    Binding(notNulls, notNulls, notNulls, {}, bySchemaParentNameSystem,
            bySchemaParentNameSystem)
oracle ==
    [schemas |-> oracleSchemas, tables |-> oracleTables, columns |-> oracleColumns,
     constraints |-> oracleConstraints, constraint_columns |-> oracleConstraintColumns,
     indexes |-> oracleIndexes, index_columns |-> oracleIndexColumns,
     sequences |-> oracleSequences, views |-> oracleViews,
     current_database |-> oracleCurrentDatabase, current_schema |-> oracleCurrentSchema,
     current_user |-> oracleCurrentUser, functions |-> oracleFunctions,
     aggregates |-> oracleAggregates, routine_parameters |-> oracleRoutineParameters,
     types |-> oracleTypes, domains |-> oracleDomains, operators |-> oracleOperators,
     comments |-> oracleComments, triggers |-> oracleTriggers,
     event_triggers |-> oracleEventTriggers,
     partitioned_tables |-> oraclePartitionedTables,
     column_stats |-> oracleColumnStats, extended_stats |-> oracleExtendedStats,
     privileges |-> oraclePrivileges, foreign_servers |-> oracleForeignServers,
     foreign_tables |-> oracleForeignTables, partitions |-> oraclePartitions,
     policies |-> oraclePolicies, not_nulls |-> oracleNotNulls]

(* SAP HANA. *)
hanaSchemas == Binding(schemas, schemas, schemas, {"comment"}, byNameSystem, byNameSystem)
hanaTables ==
    Binding(tablesOfHana, tablesOfHana, tablesOfHana, {"options", "rows", "size"},
            bySchemaNameTypesSystem, bySchemaNameTypesSystem)
hanaViews == Binding(views, views, views, {}, bySchemaNameSystem, bySchemaNameSystem)
hanaSequences ==
    Binding(sequences, sequences, sequences, {"comment"}, bySchemaNameSystem,
            bySchemaNameSystem)
hanaPartitionedTables ==
    Binding(partitionedTables, partitionedTables, partitionedTables, {"comment"},
            bySchemaNameSystem, bySchemaNameSystem)
hanaColumns ==
    Binding(columnsOfPostgreSQL, columnsOfPostgreSQL, columnsOfPostgreSQL,
            {"collation", "stats_target", "storage"}, bySchemaParentNameSystem,
            bySchemaParentNameSystem)
hanaIndexes ==
    Binding(indexes, indexes, indexes,
            {"clustered", "comment", "constraint_type", "deferrable", "definition",
             "initially_deferred", "options", "persistence", "predicate",
             "replica_identity", "size", "valid"},
            bySchemaParentNameSystem, bySchemaParentNameSystem)
hanaIndexColumns ==
    Binding(indexColumns, indexColumns, indexColumns, {"expression"},
            bySchemaParentNameSystem, bySchemaParentNameSystem)
hanaConstraints ==
    Binding(constraints, constraints, constraints, {"comment", "enforced"},
            bySchemaParentNameSystem, bySchemaParentNameSystem)
hanaConstraintColumns ==
    Binding(constraintColumns, constraintColumns, constraintColumns,
            {"foreign_catalog", "foreign_name", "foreign_schema", "foreign_table"},
            bySchemaParentNameSystem, bySchemaParentNameSystem)
hanaTriggers ==
    Binding(triggers, triggers, triggers, {"comment"}, bySchemaParentNameSystem,
            bySchemaParentNameSystem)
hanaPartitions ==
    Binding(partitionsOfMySQL, partitionsOfMySQL, partitionsOfMySQL, {"bound"},
            bySchemaParentNameSystem, bySchemaParentNameSystem)
hanaFunctions ==
    Binding(functions, functions, functions, {"access", "comment", "source"},
            bySchemaNameSystem, bySchemaNameSystem)
hanaRoutineParameters ==
    Binding(routineParameters, routineParameters, routineParameters, {"default"},
            bySchemaParentNameSystem, bySchemaParentNameSystem)
hanaTypes ==
    Binding(types, types, types, {"access", "comment", "owner", "size"}, byName, byName)
hanaRoles == Binding(roles, roles, roles, {}, byName, byName)
hanaRoleGrants == Binding(roleGrants, roleGrants, roleGrants, {}, byName, byName)
hanaPrivileges ==
    Binding(privileges, privileges, privileges, {"policies"}, bySchemaNameSystem,
            bySchemaNameSystem)
hanaDatabases ==
    Binding(databases, databases, databases, {"access", "size", "tablespace"}, byName,
            byName)
hanaAccessMethods ==
    Binding(accessMethods, accessMethods, accessMethods, {"handler"}, byNameSystem,
            byNameSystem)
hanaSettings ==
    Binding(settings, settings, settings, {"access", "display", "type"}, byName, byName)
hanaCollations ==
    Binding(collations, collations, collations, {"provider", "rules"}, byName, byName)
hanaComments == Binding(comments, comments, comments, {}, byNameSystem, byNameSystem)
hanaColumnStats ==
    Binding(columnStats, columnStats, columnStats,
            {"avg_width", "max", "mean", "min", "null_frac", "top_n", "top_n_freqs"},
            bySchemaParentNameSystem, bySchemaParentNameSystem)
hanaExtendedStats ==
    Binding(extendedStats, extendedStats, extendedStats, {"comment"}, bySchemaNameSystem,
            bySchemaNameSystem)
hanaCurrentSchema ==
    Binding(currentSchema, currentSchema, currentSchema, {"comment"}, {}, {})
hanaCurrentUser == Binding(currentUser, currentUser, currentUser, {}, {}, {})
hanaForeignDataWrappers ==
    Binding(foreignDataWrappersOfHana, foreignDataWrappersOfHana,
            foreignDataWrappersOfHana,
            {"access", "comment", "handler"}, byName, byName)
hanaForeignServers ==
    Binding(foreignServersOfHana, foreignServersOfHana, foreignServersOfHana,
            {"access", "comment"}, byName, byName)
hanaUserMappings == Binding(userMappings, userMappings, userMappings, {}, byName, byName)
hanaForeignTables ==
    Binding(foreignTables, foreignTables, foreignTables, {"comment"}, bySchemaNameSystem,
            bySchemaNameSystem)
hanaSubscriptions ==
    Binding(subscriptions, subscriptions, subscriptions, {"comment", "slot"}, byName,
            byName)
hanaTextSearchConfigs ==
    Binding(textSearchConfigs, textSearchConfigs, textSearchConfigs,
            {"comment", "parser_schema"}, bySchemaNameSystem, bySchemaNameSystem)
hana ==
    [schemas |-> hanaSchemas, tables |-> hanaTables, views |-> hanaViews,
     sequences |-> hanaSequences, partitioned_tables |-> hanaPartitionedTables,
     columns |-> hanaColumns, indexes |-> hanaIndexes, index_columns |-> hanaIndexColumns,
     constraints |-> hanaConstraints, constraint_columns |-> hanaConstraintColumns,
     triggers |-> hanaTriggers, partitions |-> hanaPartitions,
     functions |-> hanaFunctions,
     routine_parameters |-> hanaRoutineParameters, types |-> hanaTypes,
     roles |-> hanaRoles,
     role_grants |-> hanaRoleGrants, privileges |-> hanaPrivileges,
     databases |-> hanaDatabases, access_methods |-> hanaAccessMethods,
     settings |-> hanaSettings, collations |-> hanaCollations, comments |-> hanaComments,
     column_stats |-> hanaColumnStats, extended_stats |-> hanaExtendedStats,
     current_schema |-> hanaCurrentSchema, current_user |-> hanaCurrentUser,
     foreign_data_wrappers |-> hanaForeignDataWrappers,
     foreign_servers |-> hanaForeignServers, user_mappings |-> hanaUserMappings,
     foreign_tables |-> hanaForeignTables, subscriptions |-> hanaSubscriptions,
     text_search_configs |-> hanaTextSearchConfigs]

(* Firebird. *)
firebirdTables ==
    Binding(tablesOfHana, tablesOfHana, tablesOfHana,
            {"access_method", "options", "persistence", "rows", "size"},
            bySchemaNameTypes,
            bySchemaNameTypes)
firebirdViews ==
    Binding(views, views, views, {"check_option", "insertable", "updatable"},
            bySchemaName,
            bySchemaName)
firebirdSequences ==
    Binding(sequences, sequences, sequences, {"cycles", "maximum", "minimum"},
            bySchemaName,
            bySchemaName)
firebirdColumns ==
    Binding(columns, columns, columns, {}, bySchemaParentName, bySchemaParentName)
firebirdIndexes ==
    Binding(indexes, indexes, indexes,
            {"clustered", "constraint_type", "definition", "options", "owner",
             "persistence", "predicate", "replica_identity", "size", "using"},
            bySchemaParentName, bySchemaParentName)
firebirdIndexColumns ==
    Binding(indexColumns, indexColumns, indexColumns, {}, bySchemaParentName,
            bySchemaParentName)
firebirdConstraints ==
    Binding(constraints, constraints, constraints, {"comment"}, bySchemaParentName,
            bySchemaParentName)
firebirdConstraintColumns ==
    Binding(constraintColumns, constraintColumns, constraintColumns,
            {"foreign_catalog", "foreign_schema"}, bySchemaParentName, bySchemaParentName)
firebirdTriggers ==
    Binding(triggers, triggers, triggers, {}, bySchemaParentName, bySchemaParentName)
firebirdNotNulls ==
    Binding(notNulls, notNulls, notNulls, {}, bySchemaParentName, bySchemaParentName)
firebirdFunctions ==
    Binding(functionsOfRedshift, functionsOfRedshift, functionsOfRedshift,
            {"access", "definition"}, bySchemaName, bySchemaName)
firebirdRoutineParameters ==
    Binding(routineParameters, routineParameters, routineParameters, {},
            bySchemaParentName,
            bySchemaParentName)
firebirdDomains ==
    Binding(domains, domains, domains, {"access"}, bySchemaName, bySchemaName)
firebirdTypes ==
    Binding(types, types, types, {"access", "owner", "size"}, bySchemaName, bySchemaName)
firebirdRoles == Binding(roles, roles, roles, {"valid_until"}, byName, byName)
firebirdRoleGrants == Binding(roleGrants, roleGrants, roleGrants, {}, byName, byName)
firebirdPrivileges ==
    Binding(privileges, privileges, privileges, {"policies"}, bySchemaName, bySchemaName)
firebirdDatabases ==
    Binding(databases, databases, databases, {"access", "tablespace"}, byName, byName)
firebirdSettings ==
    Binding(settings, settings, settings, {"access", "display", "type"}, byName, byName)
firebirdCollations ==
    Binding(collations, collations, collations, {"provider", "rules"}, bySchemaName,
            bySchemaName)
firebirdEventTriggers ==
    Binding(eventTriggers, eventTriggers, eventTriggers, {"tags"}, byName, byName)
firebirdComments == Binding(comments, comments, comments, {}, byName, byName)
firebirdPublications ==
    Binding(publicationsOfCrateDB, publicationsOfCrateDB, publicationsOfCrateDB,
            {"comment"}, byName, byName)
firebirdPublicationTables ==
    Binding(publicationTablesOfCrateDB, publicationTablesOfCrateDB,
            publicationTablesOfCrateDB, {"where"}, byName, byName)
firebirdCurrentUser == Binding(currentUser, currentUser, currentUser, {}, {}, {})
firebird ==
    [tables |-> firebirdTables, views |-> firebirdViews, sequences |-> firebirdSequences,
     columns |-> firebirdColumns, indexes |-> firebirdIndexes,
     index_columns |-> firebirdIndexColumns, constraints |-> firebirdConstraints,
     constraint_columns |-> firebirdConstraintColumns, triggers |-> firebirdTriggers,
     not_nulls |-> firebirdNotNulls, functions |-> firebirdFunctions,
     routine_parameters |-> firebirdRoutineParameters, domains |-> firebirdDomains,
     types |-> firebirdTypes, roles |-> firebirdRoles, role_grants |-> firebirdRoleGrants,
     privileges |-> firebirdPrivileges, databases |-> firebirdDatabases,
     settings |-> firebirdSettings, collations |-> firebirdCollations,
     event_triggers |-> firebirdEventTriggers, comments |-> firebirdComments,
     publications |-> firebirdPublications,
     publication_tables |-> firebirdPublicationTables,
     current_user |-> firebirdCurrentUser]
=============================================================================
