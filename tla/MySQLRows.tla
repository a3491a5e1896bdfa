----------------------------- MODULE MySQLRows ------------------------------
(***************************************************************************)
(* The rows of the models of MySQL and of the three products that speak    *)
(* its protocol: for each query that a model registers, what its statement *)
(* returns, what it declares and what its Scan reads. Module Binding says  *)
(* what the arguments are.                                                 *)
(***************************************************************************)
EXTENDS TLC, Bindings

(* MySQL and MariaDB. *)
mysqlSchemas ==
    Binding(schemas, schemas, schemas, {"comment"}, byNameSystem, byNameSystem)
mysqlDatabases ==
    Binding(databases, databases, databases, {"access", "comment", "size", "tablespace"},
            byNameSystem, byNameSystem)
mysqlTables ==
    Binding(tablesOfMySQL, tablesOfMySQL, tablesOfMySQL,
            {"access_method", "comment", "options", "persistence", "rows", "size"},
            bySchemaNameTypesSystem, bySchemaNameTypesSystem)
mysqlColumns ==
    Binding(columnsOfRedshift, columnsOfRedshift, columnsOfRedshift,
            {"comment", "compression", "generated", "identity"}, bySchemaParentNameSystem,
            bySchemaParentNameSystem)
mysqlIndexes ==
    Binding(indexesOfMySQL, indexesOfMySQL, indexesOfMySQL, {"comment"},
            bySchemaParentNameSystem, bySchemaParentNameSystem)
mysqlIndexColumns ==
    Binding(indexColumns, indexColumns, indexColumns, {"expression"},
            bySchemaParentNameSystem, bySchemaParentNameSystem)
mysqlConstraints ==
    Binding(constraints, constraints, constraints, {"comment", "definition", "enforced"},
            bySchemaParentNameSystem, bySchemaParentNameSystem)
\* Mutant: Scan takes the name and the table in the other order.
mysqlTriggersSwapped ==
    Binding(triggers, triggers, <<"schema", "name", "table", "enabled", "definition",
            "comment">>,
            {"comment"}, bySchemaParentNameSystem, bySchemaParentNameSystem)
mysqlTriggers ==
    Binding(triggers, triggers, triggers, {"comment"}, bySchemaParentNameSystem,
            bySchemaParentNameSystem)
mysqlSequences ==
    Binding(sequences, sequences, sequences, {"comment"}, bySchemaNameSystem,
            bySchemaNameSystem)
mysqlPartitionedTables ==
    Binding(partitionedTablesOfMySQL, partitionedTablesOfMySQL, partitionedTablesOfMySQL,
            {"comment"}, bySchemaNameSystem, bySchemaNameSystem)
mysqlPartitions ==
    Binding(partitionsOfMySQL, partitionsOfMySQL, partitionsOfMySQL, {},
            bySchemaParentNameSystem, bySchemaParentNameSystem)
mysqlComments ==
    Binding(comments, comments, comments, {}, bySchemaNameSystem, bySchemaNameSystem)
mysqlFunctions ==
    Binding(functionsOfRedshift, functionsOfRedshift, functionsOfRedshift,
            {"access", "arg_types", "comment", "definition"}, bySchemaNameSystem,
            bySchemaNameSystem)
mysqlAccessMethods ==
    Binding(accessMethods, accessMethods, accessMethods, {}, byName, byName)
mysqlExtensions ==
    Binding(extensions, extensions, extensions, {"comment"}, byName, byName)
mysqlCollations ==
    Binding(collations, collations, collations, {"comment", "locale", "provider",
                                                 "rules"},
            byNameSystem, byName)
mysqlSettings ==
    Binding(settings, settings, settings, {"access", "context", "display", "type"},
            byName,
            byName)
mysqlRoles ==
    Binding(roles, roles, roles, {"comment", "valid_until"}, byNameSystem, byName)
mysqlRoleGrants ==
    Binding(roleGrants, roleGrants, roleGrants, {"grantor"}, byName, byName)
mysqlPrivileges ==
    Binding(privileges, privileges, privileges, {"column_access", "policies"},
            bySchemaNameSystem, bySchemaNameSystem)
mysqlAggregates ==
    Binding(aggregates, aggregates, aggregates, {"access", "comment", "definition"},
            bySchemaNameSystem, bySchemaNameSystem)
mysqlForeignServers ==
    Binding(foreignServers, foreignServers, foreignServers,
            {"access", "comment", "type", "version"}, byName, byName)
mysqlUserMappings ==
    Binding(userMappings, userMappings, userMappings, {"name", "options"}, byName, byName)
mysqlForeignTables ==
    Binding(foreignTables, foreignTables, foreignTables, {"comment", "options"},
            bySchemaNameSystem, bySchemaNameSystem)
mysqlConstraintColumns ==
    Binding(constraintColumns, constraintColumns, constraintColumns, {"foreign_catalog"},
            bySchemaParentNameSystem, bySchemaParentNameSystem)
mysqlRoutineParameters ==
    Binding(routineParameters, routineParameters, routineParameters, {"default"},
            bySchemaParentNameSystem, bySchemaParentNameSystem)
mysqlViews ==
    Binding(views, views, views, {"comment", "insertable"}, bySchemaNameSystem,
            bySchemaNameSystem)
mysqlColumnStats ==
    Binding(columnStats, columnStats, columnStats,
            {"distinct", "mean", "top_n", "top_n_freqs"}, bySchemaParentNameSystem,
            bySchemaParentNameSystem)
mysqlCurrentUser == Binding(currentUser, currentUser, currentUser, {}, {}, {})
mysqlCurrentDatabase ==
    Binding(currentDatabase, currentDatabase, currentDatabase, {}, {}, {})
mysqlCurrentSchema ==
    Binding(currentSchema, currentSchema, currentSchema, {"comment"}, {}, {})
mysql ==
    [schemas |-> mysqlSchemas, databases |-> mysqlDatabases, tables |-> mysqlTables,
     columns |-> mysqlColumns, indexes |-> mysqlIndexes,
     index_columns |-> mysqlIndexColumns, constraints |-> mysqlConstraints,
     triggers |-> mysqlTriggers, sequences |-> mysqlSequences,
     partitioned_tables |-> mysqlPartitionedTables, partitions |-> mysqlPartitions,
     comments |-> mysqlComments, functions |-> mysqlFunctions,
     access_methods |-> mysqlAccessMethods, extensions |-> mysqlExtensions,
     collations |-> mysqlCollations, settings |-> mysqlSettings, roles |-> mysqlRoles,
     role_grants |-> mysqlRoleGrants, privileges |-> mysqlPrivileges,
     aggregates |-> mysqlAggregates, foreign_servers |-> mysqlForeignServers,
     user_mappings |-> mysqlUserMappings, foreign_tables |-> mysqlForeignTables,
     constraint_columns |-> mysqlConstraintColumns,
     routine_parameters |-> mysqlRoutineParameters, views |-> mysqlViews,
     column_stats |-> mysqlColumnStats, current_user |-> mysqlCurrentUser,
     current_database |-> mysqlCurrentDatabase, current_schema |-> mysqlCurrentSchema]

(* TiDB. *)
tidbSettings ==
    Binding(settings, settings, settings, {"access", "display", "type"}, byName, byName)
tidbPrivileges ==
    Binding(privileges, privileges, privileges, {"column_access", "policies"},
            bySchemaNameSystem, bySchemaNameSystem)
tidbSequences ==
    Binding(sequences, sequences, sequences, {"comment"}, bySchemaNameSystem,
            bySchemaNameSystem)
tidbShared ==
    {"tables", "schemas", "columns", "indexes", "index_columns", "constraints",
     "constraint_columns", "partitioned_tables", "partitions", "views", "comments",
     "databases", "collations", "roles", "role_grants", "current_database",
     "current_schema", "current_user"}
tidb ==
    [settings |-> tidbSettings, privileges |-> tidbPrivileges,
     sequences |-> tidbSequences] @@
    Shared(mysql, tidbShared)

(* Vitess. *)
vitessSequences ==
    Binding(sequences, sequences, sequences, {"cycles", "maximum", "minimum", "start"},
            bySchemaNameSystem, bySchemaNameSystem)
vitessShared ==
    {"tables", "schemas", "columns", "indexes", "index_columns", "constraints",
     "constraint_columns", "partitioned_tables", "partitions", "views", "comments",
     "databases", "collations", "settings", "access_methods", "extensions", "functions",
     "routine_parameters", "current_database", "current_schema", "current_user"}
vitess ==
    [sequences |-> vitessSequences] @@
    Shared(mysql, vitessShared)

(* SingleStore. *)
singlestoreSettings ==
    Binding(settings, settings, settings, {"access", "display", "type"}, byName, byName)
singlestoreRoles == Binding(roles, roles, roles, {"comment"}, byName, byName)
singlestoreRoleGrants ==
    Binding(roleGrants, roleGrants, roleGrants, {"grantor"}, byName, byName)
singlestorePrivileges ==
    Binding(privileges, privileges, privileges, {"column_access", "policies", "schema"},
            bySchemaNameSystem, bySchemaNameSystem)
singlestoreAggregates ==
    Binding(aggregates, aggregates, aggregates,
            {"access", "arg_types", "comment", "definition", "id"}, bySchemaNameSystem,
            bySchemaNameSystem)
singlestoreColumnStats ==
    Binding(columnStats, columnStats, columnStats,
            {"max", "mean", "min", "null_frac", "top_n", "top_n_freqs"},
            bySchemaParentNameSystem, bySchemaParentNameSystem)
singlestoreExtendedStats ==
    Binding(extendedStats, extendedStats, extendedStats, {"comment", "name", "owner"},
            bySchemaNameSystem, bySchemaNameSystem)
singlestoreShared ==
    {"tables", "schemas", "columns", "indexes", "index_columns", "constraints",
     "constraint_columns", "views", "comments", "databases", "collations", "functions",
     "routine_parameters", "access_methods", "current_database", "current_schema",
     "current_user"}
singlestore ==
    [settings |-> singlestoreSettings, roles |-> singlestoreRoles,
     role_grants |-> singlestoreRoleGrants, privileges |-> singlestorePrivileges,
     aggregates |-> singlestoreAggregates, column_stats |-> singlestoreColumnStats,
     extended_stats |-> singlestoreExtendedStats] @@
    Shared(mysql, singlestoreShared)
=============================================================================
