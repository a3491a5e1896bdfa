---------------------------- MODULE GatewayRows -----------------------------
(***************************************************************************)
(* The rows of the models of the query engines over other stores: for each *)
(* query that a model registers, what its statement returns, what it       *)
(* declares and what its Scan reads. Module Binding says what the          *)
(* arguments are.                                                          *)
(***************************************************************************)
EXTENDS TLC, Bindings

(* Avatica. *)
avaticaSchemas ==
    Emptying(
        Binding(schemas, schemas, schemas, {"comment"}, byNameSystem, byNameSystem),
        {"owner"}, {})
avaticaCurrentSchema ==
    Emptying(
        Binding(currentSchema, currentSchema, currentSchema, {"comment"}, {}, {}),
        {"owner"}, {})
avaticaTables ==
    Binding(tablesOfAvatica, tablesOfAvatica, tablesOfAvatica, {"persistence"},
            bySchemaNameTypesSystem, bySchemaNameTypesSystem)
avaticaViews == Binding(views, views, views, {}, bySchemaNameSystem, bySchemaNameSystem)
avaticaSequences ==
    Binding(sequences, sequences, sequences, {"comment"}, bySchemaNameSystem,
            bySchemaNameSystem)
avaticaColumns ==
    Binding(columns, columns, columns, {}, bySchemaParentNameSystem,
            bySchemaParentNameSystem)
avaticaIndexes ==
    Binding(indexesOfDatabend, indexesOfDatabend, indexesOfDatabend, {"comment"},
            bySchemaParentNameSystem, bySchemaParentNameSystem)
avaticaIndexColumns ==
    Binding(indexColumns, indexColumns, indexColumns, {"expression"},
            bySchemaParentNameSystem, bySchemaParentNameSystem)
avaticaConstraints ==
    Binding(constraintsOfPostgreSQL, constraintsOfPostgreSQL, constraintsOfPostgreSQL,
            {"comment"}, bySchemaParentNameSystem, bySchemaParentNameSystem)
avaticaConstraintColumns ==
    Binding(constraintColumns, constraintColumns, constraintColumns, {},
            bySchemaParentNameSystem, bySchemaParentNameSystem)
avaticaTriggers ==
    Binding(triggers, triggers, triggers, {"comment"}, bySchemaParentNameSystem,
            bySchemaParentNameSystem)
avaticaFunctions ==
    Binding(functions, functions, functions,
            {"access", "comment", "owner", "result_type", "source"}, bySchemaNameSystem,
            bySchemaNameSystem)
avaticaAggregates ==
    Binding(aggregates, aggregates, aggregates,
            {"access", "comment", "owner", "result_type", "source"}, bySchemaNameSystem,
            bySchemaNameSystem)
avaticaRoutineParameters ==
    Binding(routineParameters, routineParameters, routineParameters, {"default"},
            bySchemaParentNameSystem, bySchemaParentNameSystem)
avaticaTypes ==
    Binding(types, types, types, {"access", "comment", "owner", "size"},
            bySchemaNameSystem,
            bySchemaNameSystem)
avaticaDomains ==
    Emptying(
        Binding(domains, domains, domains, {"access", "comment"}, bySchemaNameSystem,
                bySchemaNameSystem),
        {"collation"}, {})
avaticaRoles == Binding(roles, roles, roles, {"comment", "valid_until"}, byName, byName)
avaticaRoleGrants == Binding(roleGrants, roleGrants, roleGrants, {}, byName, byName)
avaticaPrivileges ==
    Binding(privileges, privileges, privileges, {"policies"}, bySchemaNameSystem,
            bySchemaNameSystem)
avaticaDatabases ==
    Emptying(
        Binding(databases, databases, databases,
                {"access", "comment", "owner", "size", "tablespace"}, byName, byName),
        {"owner"}, {})
avaticaSettings ==
    Binding(settings, settings, settings, {"access", "display"}, byName, byName)
avaticaCollations ==
    Binding(collations, collations, collations,
            {"collate", "ctype", "locale", "provider", "rules"}, byName, byName)
avaticaComments == Binding(comments, comments, comments, {}, byNameSystem, byNameSystem)
avaticaCurrentUser == Binding(currentUser, currentUser, currentUser, {}, {}, {})
avatica ==
    [schemas |-> avaticaSchemas, current_schema |-> avaticaCurrentSchema,
     tables |-> avaticaTables, views |-> avaticaViews, sequences |-> avaticaSequences,
     columns |-> avaticaColumns, indexes |-> avaticaIndexes,
     index_columns |-> avaticaIndexColumns, constraints |-> avaticaConstraints,
     constraint_columns |-> avaticaConstraintColumns, triggers |-> avaticaTriggers,
     functions |-> avaticaFunctions, aggregates |-> avaticaAggregates,
     routine_parameters |-> avaticaRoutineParameters, types |-> avaticaTypes,
     domains |-> avaticaDomains, roles |-> avaticaRoles,
     role_grants |-> avaticaRoleGrants,
     privileges |-> avaticaPrivileges, databases |-> avaticaDatabases,
     settings |-> avaticaSettings, collations |-> avaticaCollations,
     comments |-> avaticaComments, current_user |-> avaticaCurrentUser]

(* Hive. *)
hiveSchemas == Binding(schemas, schemas, schemas, {}, byNameSystem, byNameSystem)
hiveTables ==
    Binding(tablesOfHana, tablesOfHana, tablesOfHana,
            {"access_method", "options", "persistence", "rows", "size"},
            bySchemaNameTypesSystem, bySchemaNameTypesSystem)
hiveViews ==
    Binding(views, views, views, {"check_option"}, bySchemaNameSystem, bySchemaNameSystem)
hivePartitionedTables ==
    Binding(partitionedTables, partitionedTables, partitionedTables, {},
            bySchemaNameSystem,
            bySchemaNameSystem)
hiveColumns ==
    Binding(columns, columns, columns, {"collation"}, bySchemaParentNameSystem,
            bySchemaParentNameSystem)
hiveColumnStats ==
    Binding(columnStats, columnStats, columnStats,
            {"mean", "null_frac", "top_n", "top_n_freqs"}, bySchemaParentNameSystem,
            bySchemaParentNameSystem)
hiveConstraints ==
    Binding(constraints, constraints, constraints, {"comment", "definition"},
            bySchemaParentNameSystem, bySchemaParentNameSystem)
hiveConstraintColumns ==
    Binding(constraintColumns, constraintColumns, constraintColumns, {"foreign_catalog"},
            bySchemaParentNameSystem, bySchemaParentNameSystem)
hivePartitions ==
    Binding(partitionsOfMySQL, partitionsOfMySQL, partitionsOfMySQL, {},
            bySchemaParentNameSystem, bySchemaParentNameSystem)
hiveNotNulls ==
    Binding(notNulls, notNulls, notNulls, {}, bySchemaParentNameSystem,
            bySchemaParentNameSystem)
hiveFunctions ==
    Binding(functions, functions, functions,
            {"access", "arg_types", "comment", "definition", "result_type"},
            bySchemaNameSystem, bySchemaNameSystem)
hiveAccessMethods ==
    Binding(accessMethods, accessMethods, accessMethods, {"handler"}, byName, byName)
hiveRoles == Binding(roles, roles, roles, {"comment", "valid_until"}, byName, byName)
hiveRoleGrants == Binding(roleGrants, roleGrants, roleGrants, {}, byName, byName)
hivePrivileges ==
    Binding(privileges, privileges, privileges, {"column_access", "policies"},
            bySchemaNameSystem, bySchemaNameSystem)
hiveComments == Binding(comments, comments, comments, {}, byNameSystem, byNameSystem)
hiveCurrentSchema ==
    Binding(currentSchema, currentSchema, currentSchema, {"comment"}, {}, {})
hiveCurrentUser == Binding(currentUser, currentUser, currentUser, {}, {}, {})
hive ==
    [schemas |-> hiveSchemas, tables |-> hiveTables, views |-> hiveViews,
     partitioned_tables |-> hivePartitionedTables, columns |-> hiveColumns,
     column_stats |-> hiveColumnStats, constraints |-> hiveConstraints,
     constraint_columns |-> hiveConstraintColumns, partitions |-> hivePartitions,
     not_nulls |-> hiveNotNulls, functions |-> hiveFunctions,
     access_methods |-> hiveAccessMethods, roles |-> hiveRoles,
     role_grants |-> hiveRoleGrants, privileges |-> hivePrivileges,
     comments |-> hiveComments, current_schema |-> hiveCurrentSchema,
     current_user |-> hiveCurrentUser]

(* Impala. *)
impalaCurrentSchema ==
    Binding(currentSchema, currentSchema, currentSchema, {"comment"}, {}, {})
impalaCurrentUser == Binding(currentUser, currentUser, currentUser, {}, {}, {})
impala ==
    [current_schema |-> impalaCurrentSchema, current_user |-> impalaCurrentUser]

(* Trino. *)
trinoDatabases ==
    Binding(databases, databases, databases, {"access", "size", "tablespace"},
            byNameSystem,
            byNameSystem)
trinoSchemas ==
    Binding(schemas, schemas, schemas, {"comment"}, byCatalogSchemaSystem,
            byCatalogSchemaSystem)
trinoTables ==
    Binding(tables, tables, tables, {}, byCatalogSchemaNameTypesSystem,
            byCatalogSchemaNameTypesSystem)
trinoColumns ==
    Binding(columns, columns, columns, {"collation", "generated", "identity"},
            byCatalogSchemaParentNameSystem, byCatalogSchemaParentNameSystem)
trinoViews ==
    Binding(views, views, views, {"check_option"}, bySchemaNameSystem, bySchemaNameSystem)
trinoComments ==
    Binding(comments, comments, comments, {}, byCatalogSchemaNameSystem,
            byCatalogSchemaNameSystem)
trinoTypes ==
    Binding(types, types, types, {"access", "comment", "owner", "size"}, byName, byName)
trinoAccessMethods ==
    Binding(accessMethods, accessMethods, accessMethods, {"handler"}, byName, byName)
trinoRoles == Binding(roles, roles, roles, {"comment", "valid_until"}, byName, byName)
trinoRoleGrants ==
    Binding(roleGrants, roleGrants, roleGrants, {"grantor"}, byName, byName)
trinoPrivileges ==
    Binding(privileges, privileges, privileges, {"column_access", "policies"},
            bySchemaNameSystem, bySchemaNameSystem)
trinoCurrentSchema ==
    Binding(currentSchema, currentSchema, currentSchema, {"comment"}, {}, {})
trinoCurrentUser == Binding(currentUser, currentUser, currentUser, {}, {}, {})
trino ==
    [databases |-> trinoDatabases, schemas |-> trinoSchemas, tables |-> trinoTables,
     columns |-> trinoColumns, views |-> trinoViews, comments |-> trinoComments,
     types |-> trinoTypes, access_methods |-> trinoAccessMethods, roles |-> trinoRoles,
     role_grants |-> trinoRoleGrants, privileges |-> trinoPrivileges,
     current_schema |-> trinoCurrentSchema, current_user |-> trinoCurrentUser]

(* Presto. *)
prestoDatabases ==
    Binding(databases, databases, databases, {"access", "size", "tablespace"},
            byNameSystem,
            byNameSystem)
prestoSchemas ==
    Binding(schemas, schemas, schemas, {"comment"}, byCatalogSchemaSystem,
            byCatalogSchemaSystem)
prestoTables ==
    Binding(tables, tables, tables, {"comment"}, byCatalogSchemaNameTypesSystem,
            byCatalogSchemaNameTypesSystem)
prestoColumns ==
    Binding(columns, columns, columns, {"collation", "generated", "identity"},
            byCatalogSchemaParentNameSystem, byCatalogSchemaParentNameSystem)
prestoViews ==
    Binding(views, views, views, {"check_option", "comment"}, bySchemaNameSystem,
            bySchemaNameSystem)
prestoTypes ==
    Binding(types, types, types, {"access", "comment", "owner", "size"}, byName, byName)
prestoAccessMethods ==
    Binding(accessMethods, accessMethods, accessMethods, {"handler"}, byName, byName)
prestoPrivileges ==
    Binding(privileges, privileges, privileges, {"column_access", "policies"},
            bySchemaNameSystem, bySchemaNameSystem)
prestoCurrentUser == Binding(currentUser, currentUser, currentUser, {}, {}, {})
presto ==
    [databases |-> prestoDatabases, schemas |-> prestoSchemas, tables |-> prestoTables,
     columns |-> prestoColumns, views |-> prestoViews, types |-> prestoTypes,
     access_methods |-> prestoAccessMethods, privileges |-> prestoPrivileges,
     current_user |-> prestoCurrentUser]

(* Drill. *)
drillSchemas ==
    Emptying(
        Binding(schemas, schemas, schemas, {"comment", "owner"}, byNameSystem,
                byNameSystem),
        {"owner"}, {})
drillCurrentSchema ==
    Emptying(
        Binding(currentSchema, currentSchema, currentSchema, {"comment", "owner"}, {},
                {}),
        {"owner"}, {})
drillTables ==
    Binding(tablesOfDrill, tablesOfDrill, tablesOfDrill, {"comment"},
            bySchemaNameTypesSystem, bySchemaNameTypesSystem)
drillColumns ==
    Binding(columns, columns, columns, {"collation", "comment", "generated", "identity"},
            bySchemaParentNameSystem, bySchemaParentNameSystem)
drillViews ==
    Binding(views, views, views, {"check_option", "comment"}, bySchemaNameSystem,
            bySchemaNameSystem)
drillColumnStats ==
    Binding(columnStats, columnStats, columnStats,
            {"avg_width", "mean", "null_frac", "top_n", "top_n_freqs"},
            bySchemaParentNameSystem, bySchemaParentNameSystem)
drillDatabases ==
    Binding(databases, databases, databases, {"access", "size", "tablespace"}, byName,
            byName)
drillFunctions ==
    Binding(functions, functions, functions,
            {"access", "comment", "definition", "id", "owner"}, bySchemaNameSystem,
            bySchemaNameSystem)
drillSettings == Binding(settings, settings, settings, {"display"}, byName, byName)
drillCurrentUser == Binding(currentUser, currentUser, currentUser, {}, {}, {})
drill ==
    [schemas |-> drillSchemas, current_schema |-> drillCurrentSchema,
     tables |-> drillTables, columns |-> drillColumns, views |-> drillViews,
     column_stats |-> drillColumnStats, databases |-> drillDatabases,
     functions |-> drillFunctions, settings |-> drillSettings,
     current_user |-> drillCurrentUser]

(* Druid. *)
druidSchemas ==
    Emptying(
        Binding(schemas, schemas, schemas, {"comment"}, byNameSystem, byNameSystem),
        {"owner"}, {})
druidCurrentSchema ==
    Emptying(
        Binding(currentSchema, currentSchema, currentSchema, {"comment"}, {}, {}),
        {"owner"}, {})
druidTables ==
    Binding(tablesOfCrateDB, tablesOfCrateDB, tablesOfCrateDB, {"comment", "options"},
            bySchemaNameTypesSystem, bySchemaNameTypesSystem)
druidColumns ==
    Binding(columns, columns, columns, {"comment", "default"}, bySchemaParentNameSystem,
            bySchemaParentNameSystem)
druidFunctions ==
    Binding(functions, functions, functions,
            {"access", "comment", "definition", "id", "owner", "result_type", "source"},
            bySchemaNameSystem, bySchemaNameSystem)
druidAggregates ==
    Binding(aggregates, aggregates, aggregates,
            {"access", "comment", "definition", "id", "owner", "result_type", "source"},
            bySchemaNameSystem, bySchemaNameSystem)
druidSettings ==
    Binding(settings, settings, <<"name", "_", "type", "context", "access", "display">>,
            {"access", "display", "type"}, byName, byName)
druid ==
    [schemas |-> druidSchemas, current_schema |-> druidCurrentSchema,
     tables |-> druidTables, columns |-> druidColumns, functions |-> druidFunctions,
     aggregates |-> druidAggregates, settings |-> druidSettings]

(* Solr. *)
solrSchemas ==
    Emptying(
        Binding(schemas, schemas, schemas, {"comment", "owner"}, byNameSystem,
                byNameSystem),
        {"owner"}, {})
solrCurrentSchema ==
    Emptying(
        Binding(currentSchema, currentSchema, currentSchema, {"comment", "owner"}, {},
                {}),
        {"owner"}, {})
solrTables ==
    Binding(tables, tables, tables, {}, bySchemaNameTypesSystem, bySchemaNameTypesSystem)
solrColumns ==
    Binding(columns, columns, columns, {"collation"}, bySchemaParentNameSystem,
            bySchemaParentNameSystem)
solr ==
    [schemas |-> solrSchemas, current_schema |-> solrCurrentSchema, tables |-> solrTables,
     columns |-> solrColumns]
=============================================================================
