---------------------------- MODULE PostgresRows ----------------------------
(***************************************************************************)
(* The rows of the models of PostgreSQL and of the four products that      *)
(* answer as it does: for each query that a model registers, what its      *)
(* statement returns, what it declares and what its Scan reads. Module     *)
(* Binding says what the arguments are.                                    *)
(***************************************************************************)
EXTENDS TLC, Bindings

(* PostgreSQL. *)
postgresDatabases ==
    Binding(databasesOfPostgreSQL, databasesOfPostgreSQL, databasesOfPostgreSQL,
            {"icu_rules", "locale", "locale_provider"}, byName, byName)
postgresTablespaces == Binding(tablespaces, tablespaces, tablespaces, {}, byName, byName)
postgresAccessMethods ==
    Binding(accessMethods, accessMethods, accessMethods, {}, byName, byName)
postgresLanguages ==
    Binding(languages, languages, languages, {}, byNameSystem, byNameSystem)
postgresConversions ==
    Binding(conversions, conversions, conversions, {}, bySchemaNameSystem,
            bySchemaNameSystem)
postgresCasts == Binding(casts, casts, casts, {}, byName, byName)
postgresCollations ==
    Binding(collations, collations, collations, {"provider", "rules"}, bySchemaNameSystem,
            bySchemaNameSystem)
postgresLargeObjects == Binding(largeObjects, largeObjects, largeObjects, {}, {}, {})
postgresEventTriggers ==
    Binding(eventTriggers, eventTriggers, eventTriggers, {}, byName, byName)
postgresSettings ==
    Binding(settingsOfPostgreSQL, settingsOfPostgreSQL, settingsOfPostgreSQL, {"access"},
            byName, byName)
postgresSchemas ==
    Binding(schemasOfPostgreSQL, schemasOfPostgreSQL, schemasOfPostgreSQL, {},
            byNameSystem,
            byNameSystem)
postgresTables ==
    Binding(tablesOfPostgreSQL, tablesOfPostgreSQL, tablesOfPostgreSQL,
            {"access_method", "options", "size"}, bySchemaNameTypesSystem,
            bySchemaNameTypesSystem)
postgresColumns ==
    Binding(columnsOfPostgreSQL, columnsOfPostgreSQL, columnsOfPostgreSQL,
            {"compression", "generated", "identity", "stats_target"}, bySchemaParentName,
            bySchemaParentName)
postgresConstraintColumns ==
    Binding(constraintColumns, constraintColumns, constraintColumns, {"foreign_catalog"},
            bySchemaParentNameSystem, bySchemaParentNameSystem)
postgresRoutineParameters ==
    Binding(routineParameters, routineParameters, routineParameters, {"default", "name"},
            bySchemaParentNameSystem, bySchemaParentNameSystem)
postgresEnumValues ==
    Binding(enumValues, enumValues, enumValues, {}, bySchemaNameSystem,
            bySchemaNameSystem)
postgresViews == Binding(views, views, views, {}, bySchemaNameSystem, bySchemaNameSystem)
postgresColumnStats ==
    Binding(columnStats, columnStats, columnStats, {"mean"}, bySchemaParentNameSystem,
            bySchemaParentNameSystem)
postgresCurrentUser == Binding(currentUser, currentUser, currentUser, {}, {}, {})
postgresCurrentDatabase ==
    Binding(currentDatabase, currentDatabase, currentDatabase, {}, {}, {})
postgresCurrentSchema == Binding(currentSchema, currentSchema, currentSchema, {}, {}, {})
postgresPublications ==
    Binding(publications, publications, publications, {}, byName, byName)
postgresPublicationTables ==
    Binding(publicationTables, publicationTables, publicationTables, {},
            bySchemaParentNameImplicit, bySchemaParentName)
postgresSubscriptions ==
    Binding(subscriptionsOfPostgreSQL, subscriptionsOfPostgreSQL,
            subscriptionsOfPostgreSQL,
            {"binary", "disable_on_error", "failover", "origin", "password_required",
             "run_as_owner", "skip_lsn", "streaming", "two_phase"},
            byName, byName)
postgresSubscriptionConnections ==
    Binding(subscriptionConnections, subscriptionConnections, subscriptionConnections, {},
            byName, byName)
postgresTextSearchParsers ==
    Binding(textSearchParsers, textSearchParsers, textSearchParsers, {},
            bySchemaNameSystem,
            bySchemaName)
postgresTextSearchParserFunctions ==
    Binding(textSearchParserFunctions, textSearchParserFunctions,
            textSearchParserFunctions,
            {}, bySchemaNameSystem, bySchemaNameSystem)
postgresTextSearchParserTokenTypes ==
    Binding(textSearchParserTokenTypes, textSearchParserTokenTypes,
            textSearchParserTokenTypes, {}, bySchemaNameSystem, bySchemaNameSystem)
postgresTextSearchDictionaries ==
    Binding(textSearchDictionaries, textSearchDictionaries, textSearchDictionaries, {},
            bySchemaNameSystem, bySchemaName)
postgresTextSearchTemplates ==
    Binding(textSearchTemplates, textSearchTemplates, textSearchTemplates, {},
            bySchemaNameSystem, bySchemaName)
postgresTextSearchConfigs ==
    Binding(textSearchConfigs, textSearchConfigs, textSearchConfigs, {},
            bySchemaNameSystem,
            bySchemaName)
postgresTextSearchConfigMaps ==
    Binding(textSearchConfigMaps, textSearchConfigMaps, textSearchConfigMaps, {},
            bySchemaName, bySchemaName)
postgresOperatorClasses ==
    Binding(operatorClasses, operatorClasses, operatorClasses,
            {"family_visible", "storage_type", "visible"}, byMethodNameType,
            byMethodNameType)
postgresOperatorFamilies ==
    Binding(operatorFamilies, operatorFamilies, operatorFamilies, {"visible"},
            byMethodNameType, byMethodNameType)
postgresOperatorFamilyOperators ==
    Binding(operatorFamilyOperators, operatorFamilyOperators, operatorFamilyOperators, {},
            byMethodName, byMethodName)
postgresOperatorFamilyFunctions ==
    Binding(operatorFamilyFunctions, operatorFamilyFunctions, operatorFamilyFunctions,
            {"visible"}, byMethodName, byMethodName)
postgresExtensions ==
    Binding(extensionsOfPostgreSQL, extensionsOfPostgreSQL, extensionsOfPostgreSQL,
            {"default_version"}, byName, byName)
postgresExtensionObjects ==
    Binding(extensionObjects, extensionObjects, extensionObjects, {}, byName, byName)
postgresExtendedStats ==
    Binding(extendedStatsOfPostgreSQL, extendedStatsOfPostgreSQL,
            extendedStatsOfPostgreSQL,
            {"stats_target"}, bySchemaParentNameSystem, bySchemaParentName)
postgresComments ==
    Binding(commentsOfPostgreSQL, commentsOfPostgreSQL, commentsOfPostgreSQL, {},
            bySchemaNameSystem, bySchemaNameSystem)
postgresRoles == Binding(roles, roles, roles, {}, byNameSystem, byNameSystem)
postgresRoleSettings ==
    Binding(roleSettings, roleSettings, roleSettings, {}, byNameDatabase, byNameDatabase)
postgresRoleGrants ==
    Binding(roleGrants, roleGrants, roleGrants, {"grantor"}, byNameSystem, byNameSystem)
postgresPrivileges ==
    Binding(privilegesOfPostgreSQL, privilegesOfPostgreSQL, privilegesOfPostgreSQL, {},
            bySchemaNameSystem, bySchemaNameSystem)
postgresDefaultACLs ==
    Binding(defaultACLs, defaultACLs, defaultACLs, {}, bySchema, bySchema)
postgresForeignDataWrappers ==
    Binding(foreignDataWrappers, foreignDataWrappers, foreignDataWrappers, {}, byName,
            byName)
postgresForeignServers ==
    Binding(foreignServers, foreignServers, foreignServers, {}, byName, byName)
postgresUserMappings ==
    Binding(userMappings, userMappings, userMappings, {}, byNameServer, byNameServer)
postgresForeignTables ==
    Binding(foreignTables, foreignTables, foreignTables, {}, bySchemaName, bySchemaName)
postgresForeignOptions ==
    Binding(foreignOptions, foreignOptions, foreignOptions, {"schema", "server"},
            bySchemaNameServerKind, bySchemaNameServerKind)
postgresColumnPrivileges ==
    Binding(columnPrivileges, columnPrivileges, columnPrivileges, {"grantee"},
            bySchemaParentNameSystem, bySchemaParentNameSystem)
postgresFunctions ==
    Binding(functionsOfPostgreSQL, functionsOfPostgreSQL, functionsOfPostgreSQL,
            {"definition", "source"}, bySchemaNameSystem, bySchemaNameSystem)
postgresAggregates ==
    Binding(aggregatesOfPostgreSQL, aggregatesOfPostgreSQL, aggregatesOfPostgreSQL,
            {"definition", "source"}, bySchemaNameSystem, bySchemaNameSystem)
postgresTypes ==
    Binding(typesOfPostgreSQL, typesOfPostgreSQL, typesOfPostgreSQL, {},
            bySchemaNameSystem,
            bySchemaNameSystem)
postgresDomains ==
    Binding(domainsOfPostgreSQL, domainsOfPostgreSQL, domainsOfPostgreSQL, {},
            bySchemaNameSystem, bySchemaNameSystem)
postgresOperators ==
    Binding(operators, operators, operators, {}, bySchemaNameSystem, bySchemaNameSystem)
postgresPartitions ==
    Binding(partitions, partitions, partitions, {},
            bySchemaPartitionParentNameIndexesSystem,
            bySchemaPartitionParentNameIndexesSystem)
postgresInherits ==
    Binding(inherits, inherits, inherits, {}, bySchemaParentSchemaParentNameIndexesSystem,
            bySchemaParentSchemaParentNameIndexesSystem)
postgresPolicies ==
    Binding(policies, policies, policies, {"enabled", "roles"}, bySchemaParentNameSystem,
            bySchemaParentNameSystem)
postgresRules ==
    Binding(rules, rules, rules, {}, bySchemaParentNameSystem, bySchemaParentNameSystem)
postgresNotNulls ==
    Binding(notNulls, notNulls, notNulls, {}, bySchemaParentNameSystem,
            bySchemaParentNameSystem)
postgresIndexes ==
    Binding(indexesOfPostgreSQL, indexesOfPostgreSQL, indexesOfPostgreSQL,
            {"constraint_period", "options", "size"}, bySchemaParentNameSystem,
            bySchemaParentNameSystem)
postgresIndexColumns ==
    Binding(indexColumnsOfPostgreSQL, indexColumnsOfPostgreSQL, indexColumnsOfPostgreSQL,
            {"stats_target"}, bySchemaParentNameSystem, bySchemaParentNameSystem)
postgresConstraints ==
    Binding(constraintsOfPostgreSQL, constraintsOfPostgreSQL, constraintsOfPostgreSQL, {},
            bySchemaParentNameSystem, bySchemaParentNameSystem)
postgresTriggers ==
    Binding(triggers, triggers, triggers, {}, bySchemaParentNameSystem,
            bySchemaParentNameSystem)
postgresSequences ==
    Binding(sequencesOfPostgreSQL, sequencesOfPostgreSQL, sequencesOfPostgreSQL,
            {"cache_size", "cycles", "data_type", "increment", "maximum", "minimum",
             "start"},
            bySchemaNameSystem, bySchemaNameSystem)
postgresPartitionedTables ==
    Emptying(
        Binding(partitionedTablesOfPostgreSQL, partitionedTablesOfPostgreSQL,
                partitionedTablesOfPostgreSQL, {"direct_size", "total_size"},
                bySchemaNameSystem, bySchemaNameSystem),
        {"expression", "strategy"}, {})
postgres ==
    [databases |-> postgresDatabases, tablespaces |-> postgresTablespaces,
     access_methods |-> postgresAccessMethods, languages |-> postgresLanguages,
     conversions |-> postgresConversions, casts |-> postgresCasts,
     collations |-> postgresCollations, large_objects |-> postgresLargeObjects,
     event_triggers |-> postgresEventTriggers, settings |-> postgresSettings,
     schemas |-> postgresSchemas, tables |-> postgresTables, columns |-> postgresColumns,
     constraint_columns |-> postgresConstraintColumns,
     routine_parameters |-> postgresRoutineParameters, enum_values |-> postgresEnumValues,
     views |-> postgresViews, column_stats |-> postgresColumnStats,
     current_user |-> postgresCurrentUser, current_database |-> postgresCurrentDatabase,
     current_schema |-> postgresCurrentSchema, publications |-> postgresPublications,
     publication_tables |-> postgresPublicationTables,
     subscriptions |-> postgresSubscriptions,
     subscription_connections |-> postgresSubscriptionConnections,
     text_search_parsers |-> postgresTextSearchParsers,
     text_search_parser_functions |-> postgresTextSearchParserFunctions,
     text_search_parser_token_types |-> postgresTextSearchParserTokenTypes,
     text_search_dictionaries |-> postgresTextSearchDictionaries,
     text_search_templates |-> postgresTextSearchTemplates,
     text_search_configs |-> postgresTextSearchConfigs,
     text_search_config_maps |-> postgresTextSearchConfigMaps,
     operator_classes |-> postgresOperatorClasses,
     operator_families |-> postgresOperatorFamilies,
     operator_family_operators |-> postgresOperatorFamilyOperators,
     operator_family_functions |-> postgresOperatorFamilyFunctions,
     extensions |-> postgresExtensions, extension_objects |-> postgresExtensionObjects,
     extended_stats |-> postgresExtendedStats, comments |-> postgresComments,
     roles |-> postgresRoles, role_settings |-> postgresRoleSettings,
     role_grants |-> postgresRoleGrants, privileges |-> postgresPrivileges,
     default_acls |-> postgresDefaultACLs,
     foreign_data_wrappers |-> postgresForeignDataWrappers,
     foreign_servers |-> postgresForeignServers, user_mappings |-> postgresUserMappings,
     foreign_tables |-> postgresForeignTables, foreign_options |-> postgresForeignOptions,
     column_privileges |-> postgresColumnPrivileges, functions |-> postgresFunctions,
     aggregates |-> postgresAggregates, types |-> postgresTypes,
     domains |-> postgresDomains, operators |-> postgresOperators,
     partitions |-> postgresPartitions, inherits |-> postgresInherits,
     policies |-> postgresPolicies, rules |-> postgresRules,
     not_nulls |-> postgresNotNulls,
     indexes |-> postgresIndexes, index_columns |-> postgresIndexColumns,
     constraints |-> postgresConstraints, triggers |-> postgresTriggers,
     sequences |-> postgresSequences, partitioned_tables |-> postgresPartitionedTables]

(* CockroachDB. *)
cockroachdbDatabases == Binding(databases, databases, databases, {"size"}, byName, byName)
cockroachdbTablespaces ==
    Binding(tablespaces, tablespaces, tablespaces, {"location", "size"}, byName, byName)
cockroachdbTriggers ==
    Binding(triggers, triggers, triggers, {"definition"}, bySchemaParentNameSystem,
            bySchemaParentNameSystem)
cockroachdbIndexColumns ==
    Binding(indexColumns, indexColumns, indexColumns, {}, bySchemaParentNameSystem,
            bySchemaParentNameSystem)
cockroachdbExtensionObjects ==
    Binding(extensionObjects, extensionObjects, extensionObjects, {"description"}, byName,
            byName)
cockroachdbOperatorFamilyOperators ==
    Binding(operatorFamilyOperatorsOfCockroachDB, operatorFamilyOperatorsOfCockroachDB,
            operatorFamilyOperatorsOfCockroachDB, {}, byMethodName, byMethodName)
cockroachdbExtendedStats ==
    Binding(extendedStats, extendedStats, extendedStats, {}, bySchemaNameSystem,
            bySchemaName)
cockroachdbShared ==
    {"tables", "schemas", "columns", "indexes", "access_methods", "languages",
     "conversions", "casts", "collations", "large_objects", "event_triggers", "settings",
     "functions", "aggregates", "types", "domains", "operators", "roles", "role_settings",
     "role_grants", "privileges", "default_acls", "foreign_data_wrappers",
     "foreign_servers", "user_mappings", "foreign_tables", "publications",
     "publication_tables", "subscriptions", "text_search_parsers",
     "text_search_dictionaries", "text_search_templates", "text_search_configs",
     "operator_classes", "operator_families", "operator_family_functions", "extensions",
     "comments", "constraints", "sequences", "partitioned_tables", "constraint_columns",
     "routine_parameters", "enum_values", "views", "current_database", "current_schema",
     "current_user"}
cockroachdb ==
    [databases |-> cockroachdbDatabases, tablespaces |-> cockroachdbTablespaces,
     triggers |-> cockroachdbTriggers, index_columns |-> cockroachdbIndexColumns,
     extension_objects |-> cockroachdbExtensionObjects,
     operator_family_operators |-> cockroachdbOperatorFamilyOperators,
     extended_stats |-> cockroachdbExtendedStats] @@
    Shared(postgres, cockroachdbShared)

(* CrateDB. *)
cratedbSchemas ==
    Binding(schemas, schemas, schemas, {"comment"}, byNameSystem, byNameSystem)
cratedbCurrentSchema ==
    Binding(currentSchema, currentSchema, currentSchema, {"comment"}, {}, {})
cratedbTables ==
    Binding(tablesOfCrateDB, tablesOfCrateDB, tablesOfCrateDB, {"comment", "options"},
            bySchemaNameTypesSystem, bySchemaNameTypesSystem)
cratedbColumns ==
    Binding(columns, columns, columns, {"collation", "comment"}, bySchemaParentName,
            bySchemaParentName)
cratedbViews ==
    Binding(views, views, views, {"comment", "insertable"}, bySchemaNameSystem,
            bySchemaNameSystem)
cratedbPartitionedTables ==
    Binding(partitionedTables, partitionedTables, partitionedTables, {"comment"},
            bySchemaNameSystem, bySchemaNameSystem)
cratedbPartitions ==
    Binding(partitions, partitions, partitions,
            {"constraint", "partition_visible", "table_visible"},
            bySchemaPartitionParentNameSystem, bySchemaPartitionParentNameSystem)
cratedbIndexes ==
    Binding(indexesOfCrateDB, indexesOfCrateDB, indexesOfCrateDB,
            {"comment", "constraint_type"}, bySchemaParentNameSystem,
            bySchemaParentNameSystem)
cratedbIndexColumns ==
    Binding(indexColumns, indexColumns, indexColumns, {}, bySchemaParentNameSystem,
            bySchemaParentNameSystem)
cratedbConstraints ==
    Binding(constraintsOfPostgreSQL, constraintsOfPostgreSQL, constraintsOfPostgreSQL,
            {"comment", "definition"}, bySchemaParentNameSystem, bySchemaParentNameSystem)
cratedbConstraintColumns ==
    Binding(constraintColumns, constraintColumns, constraintColumns,
            {"foreign_catalog", "foreign_name", "foreign_schema", "foreign_table"},
            bySchemaParentNameSystem, bySchemaParentNameSystem)
cratedbColumnStats ==
    Binding(columnStats, columnStats, columnStats, {"mean"}, bySchemaParentNameSystem,
            bySchemaParentNameSystem)
cratedbTypes ==
    Binding(types, types, types, {"access", "comment", "owner"}, bySchemaNameSystem,
            bySchemaNameSystem)
cratedbFunctions ==
    Binding(functions, functions, functions, {"access", "comment", "definition", "owner"},
            bySchemaNameSystem, bySchemaNameSystem)
cratedbRoles == Binding(roles, roles, roles, {"comment"}, byNameSystem, byName)
cratedbPrivileges ==
    Binding(privileges, privileges, privileges, {"column_access", "policies"},
            bySchemaNameSystem, bySchemaNameSystem)
cratedbDatabases ==
    Binding(databases, databases, databases, {"comment", "size", "tablespace"}, byName,
            byName)
cratedbCollations ==
    Binding(collations, collations, collations, {"comment", "locale", "provider",
                                                 "rules"},
            bySchemaNameSystem, bySchemaNameSystem)
cratedbForeignServers ==
    Binding(foreignServers, foreignServers, foreignServers, {"access", "comment"}, byName,
            byName)
cratedbForeignTables ==
    Binding(foreignTables, foreignTables, foreignTables, {"comment"}, bySchemaName,
            bySchemaName)
cratedbUserMappings ==
    Binding(userMappings, userMappings, userMappings, {}, byNameServer, byNameServer)
cratedbPublications ==
    Binding(publicationsOfCrateDB, publicationsOfCrateDB, publicationsOfCrateDB,
            {"comment"}, byName, byName)
cratedbPublicationTables ==
    Binding(publicationTablesOfCrateDB, publicationTablesOfCrateDB,
            publicationTablesOfCrateDB, {"where"}, byName, byName)
cratedbSubscriptions ==
    Binding(subscriptions, subscriptions, subscriptions, {"comment"}, byName, byName)
cratedbShared ==
    {"settings", "role_grants", "current_user"}
cratedb ==
    [schemas |-> cratedbSchemas, current_schema |-> cratedbCurrentSchema,
     tables |-> cratedbTables, columns |-> cratedbColumns, views |-> cratedbViews,
     partitioned_tables |-> cratedbPartitionedTables, partitions |-> cratedbPartitions,
     indexes |-> cratedbIndexes, index_columns |-> cratedbIndexColumns,
     constraints |-> cratedbConstraints, constraint_columns |-> cratedbConstraintColumns,
     column_stats |-> cratedbColumnStats, types |-> cratedbTypes,
     functions |-> cratedbFunctions, roles |-> cratedbRoles,
     privileges |-> cratedbPrivileges, databases |-> cratedbDatabases,
     collations |-> cratedbCollations, foreign_servers |-> cratedbForeignServers,
     foreign_tables |-> cratedbForeignTables, user_mappings |-> cratedbUserMappings,
     publications |-> cratedbPublications,
     publication_tables |-> cratedbPublicationTables,
     subscriptions |-> cratedbSubscriptions] @@
    Shared(postgres, cratedbShared)

(* QuestDB. *)
questdbSchemas ==
    Binding(schemas, schemas, schemas, {"comment"}, byNameSystem, byNameSystem)
questdbCurrentSchema ==
    Binding(currentSchema, currentSchema, currentSchema, {"comment"}, {}, {})
questdbTables ==
    Binding(tablesOfQuestDB, tablesOfQuestDB, tablesOfQuestDB, {"comment", "options"},
            bySchemaNameTypesSystem, bySchemaNameTypes)
questdbColumns ==
    Binding(columns, columns, columns, {"collation", "comment"}, bySchemaParentName,
            bySchemaParentName)
questdbViews == Binding(views, views, views, {}, bySchemaNameSystem, bySchemaName)
questdbPartitionedTables ==
    Binding(partitionedTables, partitionedTables, partitionedTables, {"comment"},
            bySchemaNameSystem, bySchemaName)
questdbDatabases ==
    Binding(databases, databases, databases, {"access", "comment", "size", "tablespace"},
            byName, byName)
questdbSettings ==
    Binding(settings, settings, settings, {"access", "display", "type"}, byName, byName)
questdbCurrentUser == Binding(currentUser, currentUser, currentUser, {}, {}, {})
questdbFunctions ==
    Binding(functions, functions, functions,
            {"access", "comment", "definition", "owner", "result_type", "source"},
            bySchemaNameSystem, bySchemaNameSystem)
questdbAggregates ==
    Binding(aggregates, aggregates, aggregates,
            {"access", "comment", "definition", "owner", "result_type", "source"},
            bySchemaNameSystem, bySchemaNameSystem)
questdb ==
    [schemas |-> questdbSchemas, current_schema |-> questdbCurrentSchema,
     tables |-> questdbTables, columns |-> questdbColumns, views |-> questdbViews,
     partitioned_tables |-> questdbPartitionedTables, databases |-> questdbDatabases,
     settings |-> questdbSettings, current_user |-> questdbCurrentUser,
     functions |-> questdbFunctions, aggregates |-> questdbAggregates]

(* Redshift. *)
redshiftPrivileges ==
    Binding(privileges, privileges, privileges, {"column_access", "policies"},
            bySchemaNameSystem, bySchemaNameSystem)
redshiftColumnPrivileges ==
    Binding(columnPrivileges, columnPrivileges, columnPrivileges, {"grantee", "grantor"},
            bySchemaParentNameSystem, bySchemaParentNameSystem)
redshiftRoleGrants ==
    Binding(roleGrants, roleGrants, roleGrants, {"grantor"}, byName, byName)
redshiftDefaultACLs ==
    Binding(defaultACLs, defaultACLs, defaultACLs, {}, bySchema, bySchema)
redshiftLanguages ==
    Emptying(
        Binding(languages, languages, languages, {"inline", "owner"}, byName, byName),
        {"handler", "inline", "owner", "validator"}, {})
redshiftSettings == Binding(settings, settings, settings, {"access"}, byName, byName)
redshiftConstraintColumns ==
    Binding(constraintColumns, constraintColumns, constraintColumns, {"foreign_catalog"},
            bySchemaParentNameSystem, bySchemaParentNameSystem)
redshiftSchemas ==
    Emptying(
        Binding(schemasOfPostgreSQL, schemasOfPostgreSQL, schemasOfPostgreSQL, {},
                byNameSystem,
                byNameSystem),
        {"owner"}, {})
redshiftDatabases ==
    Emptying(
        Binding(databases, databases, databases, {"access", "comment", "size",
                                                  "tablespace"},
                byName, byName),
        {"owner"}, {})
redshiftTables ==
    Binding(tablesOfRedshift, tablesOfRedshift, tablesOfRedshift,
            {"options", "rows", "size"}, bySchemaNameTypesSystemInfo,
            bySchemaNameTypesSystemInfo)
redshiftColumns ==
    Binding(columnsOfRedshift, columnsOfRedshift, columnsOfRedshift,
            {"compression", "generated"}, bySchemaParentNameSystem,
            bySchemaParentNameSystem)
redshiftViews ==
    Binding(views, views, views, {"check_option", "comment", "insertable", "updatable"},
            bySchemaNameSystem, bySchemaNameSystem)
redshiftConstraints ==
    Binding(constraintsOfPostgreSQL, constraintsOfPostgreSQL, constraintsOfPostgreSQL, {},
            bySchemaParentNameSystem, bySchemaParentNameSystem)
redshiftFunctions ==
    Binding(functionsOfRedshift, functionsOfRedshift, functionsOfRedshift,
            {"access", "definition"}, bySchemaNameSystem, bySchemaNameSystem)
redshiftRoles == Binding(roles, roles, roles, {}, byName, byName)
redshiftComments ==
    Binding(comments, comments, comments, {}, bySchemaNameSystem, bySchemaNameSystem)
redshiftCurrentSchema ==
    Emptying(
        Binding(currentSchema, currentSchema, currentSchema, {}, {}, {}),
        {"owner"}, {})
redshiftCurrentUser == Binding(currentUser, currentUser, currentUser, {}, {}, {})
redshift ==
    [privileges |-> redshiftPrivileges, column_privileges |-> redshiftColumnPrivileges,
     role_grants |-> redshiftRoleGrants, default_acls |-> redshiftDefaultACLs,
     languages |-> redshiftLanguages, settings |-> redshiftSettings,
     constraint_columns |-> redshiftConstraintColumns, schemas |-> redshiftSchemas,
     databases |-> redshiftDatabases, tables |-> redshiftTables,
     columns |-> redshiftColumns, views |-> redshiftViews,
     constraints |-> redshiftConstraints, functions |-> redshiftFunctions,
     roles |-> redshiftRoles, comments |-> redshiftComments,
     current_schema |-> redshiftCurrentSchema, current_user |-> redshiftCurrentUser]
=============================================================================
