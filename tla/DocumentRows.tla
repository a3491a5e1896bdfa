---------------------------- MODULE DocumentRows ----------------------------
(***************************************************************************)
(* The rows of the models of the document, graph, wide column and series   *)
(* databases: for each query that a model registers, what its statement    *)
(* returns, what it declares and what its Scan reads. Module Binding says  *)
(* what the arguments are.                                                 *)
(***************************************************************************)
EXTENDS TLC, Bindings

(* ArangoDB. *)
arangodbSchemas == Binding(schemas, schemas, schemas, {"comment"}, bySchema, bySchema)
arangodbCurrentSchema ==
    Binding(currentSchema, currentSchema, currentSchema, {"comment"}, {}, {})
arangodbTables ==
    Binding(tablesOfDrill, tablesOfDrill, tablesOfDrill, {"comment"},
            bySchemaNameTypesSystem, bySchemaNameTypesSystem)
arangodbColumns ==
    Binding(columns, columns, columns,
            {"collation", "comment", "default", "generated", "identity"},
            bySchemaParentName, bySchemaParentName)
arangodbConstraints ==
    Binding(constraintsOfPostgreSQL, constraintsOfPostgreSQL, constraintsOfPostgreSQL,
            {"comment"}, bySchemaParentName, bySchemaParentName)
arangodbFunctions ==
    Binding(functions, functions, functions,
            {"access", "arg_types", "comment", "definition", "id", "owner",
             "result_type"},
            bySchemaName, bySchemaName)
arangodbCurrentUser ==
    Emptying(
        Binding(currentUser, currentUser, currentUser, {"session"}, {}, {}),
        {"name"}, {})
arangodb ==
    [schemas |-> arangodbSchemas, current_schema |-> arangodbCurrentSchema,
     tables |-> arangodbTables, columns |-> arangodbColumns,
     constraints |-> arangodbConstraints, functions |-> arangodbFunctions,
     current_user |-> arangodbCurrentUser]

(* Cassandra and ScyllaDB. *)
cassandraSchemas ==
    Keeping(
        Binding(schemas, schemas, <<"_", "name", "_", "_">>, {"comment"},
                bySchemaNameSystem,
                {}),
        bySchemaNameSystem)
cassandraTables ==
    Keeping(
        Binding(tablesOfCassandra, tablesOfCassandra,
                <<"_", "schema", "name", "_", "comment", "_", "_", "_", "_">>, {},
                bySchemaNameTypesSystem, {}),
        bySchemaNameTypesSystem)
cassandraColumns ==
    Keeping(
        Binding(columns, columns,
                <<"_", "schema", "table", "name", "ordinal", "data_type", "_", "_", "_",
                "_", "_", "_", "_">>,
                {"collation", "comment", "default", "generated", "identity"},
                bySchemaParentNameSystem, {}),
        bySchemaParentNameSystem)
cassandraViews ==
    Keeping(
        Binding(views, views, <<"_", "schema", "name", "definition", "_", "_", "_",
                "comment">>,
                {"check_option"}, bySchemaNameSystem, {}),
        bySchemaNameSystem)
cassandraIndexes ==
    Keeping(
        Binding(indexesOfCassandra, indexesOfCassandra,
                <<"_", "schema", "table", "name", "type", "_", "_", "_", "_">>,
                {"comment"},
                bySchemaParentNameSystem, {}),
        bySchemaParentNameSystem)
cassandraIndexColumns ==
    Keeping(
        Binding(indexColumns, indexColumns, <<"schema", "table", "index", "_", "_", "_",
                "_">>,
                {}, bySchemaParentNameSystem, {}),
        bySchemaParentNameSystem)
cassandraConstraints ==
    Keeping(
        Binding(constraintsOfPostgreSQL, constraintsOfPostgreSQL,
                <<"schema", "table", "name", "_", "definition", "_", "_", "_">>,
                {"comment"},
                bySchemaParentNameSystem, {}),
        bySchemaParentNameSystem)
cassandraConstraintColumns ==
    Keeping(
        Binding(constraintColumns, constraintColumns,
                <<"_", "schema", "table", "constraint", "name", "ordinal", "_", "_", "_",
                "_">>,
                {"foreign_catalog", "foreign_name", "foreign_schema", "foreign_table"},
                bySchemaParentNameSystem, {}),
        bySchemaParentNameSystem)
cassandraTriggers ==
    Keeping(
        Binding(triggers, triggers, <<"schema", "table", "name", "_", "_", "_">>,
                {"comment"},
                bySchemaParentNameSystem, {}),
        bySchemaParentNameSystem)
cassandraComments ==
    Keeping(
        Binding(comments, comments, <<"schema", "name", "_", "comment">>, {},
                bySchemaNameSystem, {}),
        bySchemaNameSystem)
cassandraTypes ==
    Keeping(
        Binding(types, types,
                <<"_", "schema", "name", "internal", "_", "_", "_", "_", "_", "_">>,
                {"access", "comment", "owner"}, bySchemaNameSystem, {}),
        bySchemaNameSystem)
cassandraRoles ==
    Keeping(
        Binding(roles, roles,
                <<"name", "superuser", "_", "_", "can_login", "_", "_", "_", "_", "_",
                "_", "_">>,
                {"comment", "valid_until"}, bySchemaNameSystem, {}),
        bySchemaNameSystem)
cassandraRoleSettings ==
    Keeping(
        Binding(roleSettings, roleSettings, <<"role", "_", "_">>, {}, bySchemaNameSystem,
                {}),
        bySchemaNameSystem)
cassandraRoleGrants ==
    Keeping(
        Binding(roleGrants, roleGrants, <<"role", "member_of", "_", "_", "_", "_">>,
                {"grantor"}, bySchemaNameSystem, {}),
        bySchemaNameSystem)
cassandraPrivileges ==
    Keeping(
        Binding(privileges, privileges, <<"_", "_", "_", "_", "_", "_">>,
                {"column_access", "policies"}, bySchemaNameSystem, {}),
        bySchemaNameSystem)
cassandraSettings ==
    Keeping(
        Binding(settings, settings, <<"name", "value", "type", "_", "_", "_">>,
                {"access", "context", "display", "type"}, bySchemaNameSystem, {}),
        bySchemaNameSystem)
cassandraFunctions ==
    Keeping(
        Binding(functionsOfRedshift, functionsOfRedshift,
                <<"_", "schema", "name", "_", "_", "result_type", "_", "_", "_", "_", "_",
                "_", "language", "source", "_", "_", "_">>,
                {"access", "comment", "definition", "id", "owner"}, bySchemaNameSystem,
                {}),
        bySchemaNameSystem)
cassandraAggregates ==
    Keeping(
        Binding(aggregatesOfVertica, aggregatesOfVertica,
                <<"_", "schema", "name", "_", "_", "result_type", "_", "_", "_", "_", "_",
                "_", "language", "source", "_", "_", "_">>,
                {"access", "comment", "definition", "id", "owner", "prosrc"},
                bySchemaNameSystem, {}),
        bySchemaNameSystem)
cassandra ==
    [schemas |-> cassandraSchemas, tables |-> cassandraTables,
     columns |-> cassandraColumns,
     views |-> cassandraViews, indexes |-> cassandraIndexes,
     index_columns |-> cassandraIndexColumns, constraints |-> cassandraConstraints,
     constraint_columns |-> cassandraConstraintColumns, triggers |-> cassandraTriggers,
     comments |-> cassandraComments, types |-> cassandraTypes, roles |-> cassandraRoles,
     role_settings |-> cassandraRoleSettings, role_grants |-> cassandraRoleGrants,
     privileges |-> cassandraPrivileges, settings |-> cassandraSettings,
     functions |-> cassandraFunctions, aggregates |-> cassandraAggregates]

(* Couchbase. *)
couchbaseDatabases ==
    Binding(databases, databases, databases, {"access", "comment", "size", "tablespace"},
            byName, byName)
couchbaseSchemas ==
    Binding(schemas, schemas, schemas, {"comment"}, byNameSystem, byNameSystem)
couchbaseTables ==
    Binding(tables, tables, tables, {"comment"}, bySchemaNameTypesSystem,
            bySchemaNameTypesSystem)
couchbaseIndexes ==
    Binding(indexesOfCouchbase, indexesOfCouchbase, indexesOfCouchbase,
            {"comment", "options"}, bySchemaParentName, bySchemaParentName)
couchbaseIndexColumns ==
    Binding(indexColumns, indexColumns, indexColumns, {"expression", "name"},
            bySchemaParentName, bySchemaParentName)
couchbaseSequences ==
    Binding(sequences, sequences, sequences, {"comment", "data_type", "start"},
            bySchemaName, bySchemaName)
couchbaseFunctions ==
    Binding(functionsOfRedshift, functionsOfRedshift, functionsOfRedshift,
            {"access", "comment", "definition", "id", "owner", "result_type"},
            bySchemaName,
            bySchemaName)
couchbaseRoutineParameters ==
    Binding(routineParameters, routineParameters, routineParameters,
            {"default", "routine_id"}, bySchemaParentName, bySchemaParentName)
couchbaseRoles == Binding(roles, roles, roles, {"valid_until"}, byName, byName)
couchbaseRoleGrants ==
    Binding(roleGrants, roleGrants, roleGrants, {"grantor"}, byName, byName)
couchbasePrivileges ==
    Binding(privileges, privileges, privileges, {"column_access", "policies"},
            bySchemaName,
            bySchemaName)
couchbaseCurrentUser ==
    Binding(currentUser, currentUser, currentUser, {"session"}, {}, {})
couchbase ==
    [databases |-> couchbaseDatabases, schemas |-> couchbaseSchemas,
     tables |-> couchbaseTables, indexes |-> couchbaseIndexes,
     index_columns |-> couchbaseIndexColumns, sequences |-> couchbaseSequences,
     functions |-> couchbaseFunctions, routine_parameters |-> couchbaseRoutineParameters,
     roles |-> couchbaseRoles, role_grants |-> couchbaseRoleGrants,
     privileges |-> couchbasePrivileges, current_user |-> couchbaseCurrentUser]

(* Elasticsearch. *)
elasticsearchCurrentUser ==
    Binding(currentUser, currentUser, currentUser, {"session"}, {}, {})
elasticsearch ==
    [current_user |-> elasticsearchCurrentUser]

(* InfluxDB. *)
influxdbSchemas ==
    Binding(schemas, schemas, schemas, {"comment"}, byNameSystem, byNameSystem)
influxdbCurrentSchema ==
    Binding(currentSchema, currentSchema, currentSchema, {"comment"}, {}, {})
influxdbTables ==
    Binding(tables, tables, tables, {"comment"}, bySchemaNameTypesSystem,
            bySchemaNameTypesSystem)
influxdbColumns ==
    Binding(columns, columns, columns, {"collation", "comment"}, bySchemaParentNameSystem,
            bySchemaParentNameSystem)
influxdbFunctions ==
    Binding(functions, functions, functions, {"access", "definition", "owner", "source"},
            bySchemaNameSystem, bySchemaNameSystem)
influxdbAggregates ==
    Binding(aggregates, aggregates, aggregates, {"access", "definition", "owner",
                                                 "source"},
            bySchemaNameSystem, bySchemaNameSystem)
influxdbRoutineParameters ==
    Binding(routineParameters, routineParameters, routineParameters, {"default"},
            bySchemaParentName, bySchemaParentName)
influxdbSettings ==
    Binding(settings, settings, settings, {"access", "context", "display", "type"},
            byName,
            byName)
influxdbTriggers ==
    Binding(triggers, triggers, triggers, {"comment"}, bySchemaParentName,
            bySchemaParentName)
influxdb ==
    [schemas |-> influxdbSchemas, current_schema |-> influxdbCurrentSchema,
     tables |-> influxdbTables, columns |-> influxdbColumns,
     functions |-> influxdbFunctions, aggregates |-> influxdbAggregates,
     routine_parameters |-> influxdbRoutineParameters, settings |-> influxdbSettings,
     triggers |-> influxdbTriggers]

(* Neo4j. *)
neo4jDatabases ==
    Binding(databases, databases, databases, {"access", "comment", "size", "tablespace"},
            byName, byName)
neo4jSchemas == Binding(schemas, schemas, schemas, {"comment"}, byName, byName)
neo4jCurrentSchema ==
    Binding(currentSchema, currentSchema, currentSchema, {"comment"}, {}, {})
neo4jTables ==
    Binding(tables, tables, tables, {"comment"}, bySchemaNameTypes, bySchemaNameTypes)
neo4jIndexes ==
    Binding(indexesOfNeo4j, indexesOfNeo4j,
            <<"catalog", "schema", "table", "name", "type", "unique", "primary",
            "comment", "valid", "definition", "using", "_">>,
            {"comment"}, bySchemaParentName, bySchemaParentName)
neo4jIndexColumns ==
    Binding(indexColumns, indexColumns, indexColumns, {"expression"}, bySchemaParentName,
            bySchemaParentName)
neo4jConstraints ==
    Binding(constraintsOfPostgreSQL, constraintsOfPostgreSQL, constraintsOfPostgreSQL,
            {"comment"}, bySchemaParentName, bySchemaParentName)
neo4jConstraintColumns ==
    Binding(constraintColumns, constraintColumns, constraintColumns,
            {"foreign_catalog", "foreign_name", "foreign_schema", "foreign_table"},
            bySchemaParentName, bySchemaParentName)
neo4jFunctions ==
    Binding(functions, functions, functions,
            {"access", "definition", "id", "owner", "source"}, bySchemaNameSystem,
            bySchemaNameSystem)
neo4jAggregates ==
    Binding(aggregates, aggregates, aggregates,
            {"access", "definition", "id", "owner", "source"}, bySchemaNameSystem,
            bySchemaNameSystem)
neo4jRoutineParameters ==
    Binding(routineParameters, routineParameters, routineParameters, {"routine_id"},
            bySchemaParentNameSystem, bySchemaParentNameSystem)
neo4jRoles == Binding(roles, roles, roles, {"comment", "valid_until"}, byName, byName)
neo4jRoleGrants ==
    Binding(roleGrants, roleGrants, roleGrants, {"grantor"}, byName, byName)
neo4jRoleSettings == Binding(roleSettings, roleSettings, roleSettings, {}, byName, byName)
neo4jPrivileges ==
    Binding(privileges, privileges, privileges, {"column_access", "policies"},
            bySchemaName,
            bySchemaName)
neo4jCurrentUser == Binding(currentUser, currentUser, currentUser, {"session"}, {}, {})
neo4jSettings ==
    Binding(settings, settings, settings, {"access", "display"}, byName, byName)
neo4j ==
    [databases |-> neo4jDatabases, schemas |-> neo4jSchemas,
     current_schema |-> neo4jCurrentSchema, tables |-> neo4jTables,
     indexes |-> neo4jIndexes, index_columns |-> neo4jIndexColumns,
     constraints |-> neo4jConstraints, constraint_columns |-> neo4jConstraintColumns,
     functions |-> neo4jFunctions, aggregates |-> neo4jAggregates,
     routine_parameters |-> neo4jRoutineParameters, roles |-> neo4jRoles,
     role_grants |-> neo4jRoleGrants, role_settings |-> neo4jRoleSettings,
     privileges |-> neo4jPrivileges, current_user |-> neo4jCurrentUser,
     settings |-> neo4jSettings]

(* SurrealDB. *)
surrealdbDatabases ==
    Binding(databasesOfSurrealDB, databasesOfSurrealDB, databasesOfSurrealDB,
            {"access", "size", "tablespace"}, byName, byName)
surrealdbSchemas ==
    Binding(schemasOfSurrealDB, schemasOfSurrealDB, schemasOfSurrealDB, {}, byName,
            byName)
surrealdbCurrentSchema ==
    Binding(currentSchemaOfSurrealDB, currentSchemaOfSurrealDB, currentSchemaOfSurrealDB,
            {"comment"}, {}, {})
surrealdbTables ==
    Binding(tablesOfSurrealDB, tablesOfSurrealDB, tablesOfSurrealDB, {},
            bySchemaNameTypes,
            bySchemaNameTypes)
surrealdbViews ==
    Binding(viewsOfSurrealDB, viewsOfSurrealDB, viewsOfSurrealDB, {"check_option"},
            bySchemaName, bySchemaName)
surrealdbColumns ==
    Binding(columnsOfSurrealDB, columnsOfSurrealDB, columnsOfSurrealDB, {"collation"},
            bySchemaParentName, bySchemaParentName)
surrealdbIndexes ==
    Binding(indexesOfSurrealDB, indexesOfSurrealDB, indexesOfSurrealDB, {},
            bySchemaParentName, bySchemaParentName)
surrealdbIndexColumns ==
    Binding(indexColumnsOfSurrealDB, indexColumnsOfSurrealDB, indexColumnsOfSurrealDB,
            {"expression"}, bySchemaParentName, bySchemaParentName)
surrealdbConstraints ==
    Binding(constraintsOfSurrealDB, constraintsOfSurrealDB, constraintsOfSurrealDB, {},
            bySchemaParentName, bySchemaParentName)
surrealdbConstraintColumns ==
    Binding(constraintColumnsOfSurrealDB, constraintColumnsOfSurrealDB,
            constraintColumnsOfSurrealDB,
            {"foreign_catalog", "foreign_name", "foreign_schema", "foreign_table"},
            bySchemaParentName, bySchemaParentName)
surrealdbTriggers ==
    Binding(triggersOfSurrealDB, triggersOfSurrealDB, triggersOfSurrealDB, {},
            bySchemaParentName, bySchemaParentName)
surrealdbSequences ==
    Binding(sequencesOfSurrealDB, sequencesOfSurrealDB, sequencesOfSurrealDB,
            {"comment", "cycles", "maximum", "minimum"}, bySchemaName, bySchemaName)
surrealdbComments ==
    Binding(commentsOfSurrealDB, commentsOfSurrealDB, commentsOfSurrealDB, {},
            bySchemaName,
            bySchemaName)
surrealdbFunctions ==
    Binding(functionsOfSurrealDB, functionsOfSurrealDB, functionsOfSurrealDB,
            {"id", "owner"}, bySchemaName, bySchemaName)
surrealdbRoutineParameters ==
    Binding(routineParametersOfSurrealDB, routineParametersOfSurrealDB,
            routineParametersOfSurrealDB, {"default", "routine_id"}, bySchemaParentName,
            bySchemaParentName)
surrealdbRoles ==
    Binding(rolesOfSurrealDB, rolesOfSurrealDB, rolesOfSurrealDB, {"valid_until"}, byName,
            byName)
surrealdbRoleGrants ==
    Binding(roleGrantsOfSurrealDB, roleGrantsOfSurrealDB, roleGrantsOfSurrealDB,
            {"grantor"}, byName, byName)
surrealdbPrivileges ==
    Binding(privilegesOfSurrealDB, privilegesOfSurrealDB, privilegesOfSurrealDB,
            {"policies"}, bySchemaName, bySchemaName)
surrealdb ==
    [databases |-> surrealdbDatabases, schemas |-> surrealdbSchemas,
     current_schema |-> surrealdbCurrentSchema, tables |-> surrealdbTables,
     views |-> surrealdbViews, columns |-> surrealdbColumns, indexes |-> surrealdbIndexes,
     index_columns |-> surrealdbIndexColumns, constraints |-> surrealdbConstraints,
     constraint_columns |-> surrealdbConstraintColumns, triggers |-> surrealdbTriggers,
     sequences |-> surrealdbSequences, comments |-> surrealdbComments,
     functions |-> surrealdbFunctions, routine_parameters |-> surrealdbRoutineParameters,
     roles |-> surrealdbRoles, role_grants |-> surrealdbRoleGrants,
     privileges |-> surrealdbPrivileges]
=============================================================================
