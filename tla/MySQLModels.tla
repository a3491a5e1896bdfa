---------------------------- MODULE MySQLModels ----------------------------
(***************************************************************************)
(* The bindings of models/mysql that a release or a product decides, and   *)
(* what TiDB, Vitess and SingleStore share of them (models/mysql,          *)
(* models/tidb, models/vitess, models/singlestore).                        *)
(*                                                                         *)
(* MariaDB and MySQL have one model and release numbers with no relation,  *)
(* so each is asked for by its key and never by the main version alone.    *)
(***************************************************************************)
EXTENDS Fragments, Sequences

mariaCheck   == Gate("mariadb", V(10, 2, 0))
mariaSeq     == Gate("mariadb", V(11, 5, 0))
mariaAgg     == Gate("mariadb", V(10, 3, 0))
mysqlCheck   == Gate("mysql", V(8, 0, 16))
mysqlVarMeta == Gate("mysql", V(9, 0, 0))
onMaria      == Gate("mariadb", 0)
onMySQL      == Gate("mysql", 0)

frag(gate, text) == On(gate.key, gate.min, text)

\* notSystem, schemaAs and schemaLike: a clause of its own for each product.
Filters ==
    <<Clause(<<Base(Source), On("tidb", 0, Source), On("vitess", 0, Source), On("memsql", 0, Source)>>),
      Clause(<<Base(Source), On("vitess", 0, Source)>>)>>

\* The bindings in which only the filters differ.
FilteredQueries ==
    {"ConstraintColumns", "RoutineParameters", "Views", "ForeignTables", "Schemas", "Databases",
     "Indexes", "Triggers", "PartitionedTables", "Partitions", "Comments", "Functions", "Privileges",
     "CurrentSchema"}

myFiltered == { Binding(q, Filters) : q \in FilteredQueries }

\* On SingleStore the column has a source of its own.
OnMemSQLToo(name) == Column(name, Always, <<Base(Source), On("memsql", 0, Source)>>)

\* Every piece is for one gate alone.
Only(gate) == Clause(<<frag(gate, Source)>>)

---------------------------------------------------------------------------
(* models/mysql/relation.go. *)

myTables == Binding("Tables", Filters \o <<
    Column("persistence", Always, <<Base(Source), On("tidb", 0, Padding)>>),
    OnMemSQLToo("access_method")>>)

myColumns == Binding("Columns", Filters \o <<
    Column("compression", {mariaAgg}, <<Base(Padding), frag(mariaAgg, Source)>>)>>)

myIndexColumns == Binding("IndexColumns", Filters \o <<
    Clause(<<Base(Empty), On("memsql", 0, Source)>>)>>)

myConstraints == Binding("Constraints", Filters \o <<
    OnMemSQLToo("type"),
    Column("definition", {mariaCheck, mysqlCheck},
           <<Base(Padding), frag(mariaCheck, Reads("k")), frag(mysqlCheck, Reads("k"))>>),
    Column("enforced", {onMaria, mysqlCheck},
           <<Base(Padding), frag(onMaria, Source), frag(mysqlCheck, Source)>>),
    Clause(<<Base(Empty), frag(mariaCheck, Joins("k")), frag(mysqlCheck, Joins("k"))>>)>>)

mySequences == Binding("Sequences", <<
    Columns({"schema", "name", "data_type", "start", "minimum", "maximum", "increment", "cycles",
             "owned_by"}, {mariaSeq}, <<frag(mariaSeq, Source)>>)>>)

---------------------------------------------------------------------------
(* models/mysql/server.go, extra.go and foreign.go. *)

myExtensions == Binding("Extensions", <<Clause(<<frag(onMaria, Source), frag(onMySQL, Source)>>)>>)

mySettings == Binding("Settings", <<
    Column("value", Always, <<
        frag(onMaria, Reads("SYSTEM_VARIABLES")),
        frag(onMySQL, Reads("global_variables v")),
        frag(mysqlVarMeta, Reads("global_variables g"))>>),
    Columns({"type", "context"}, Always \cup {onMaria, mysqlVarMeta}, <<
        frag(onMaria, Reads("SYSTEM_VARIABLES")),
        frag(onMySQL, Padding),
        frag(mysqlVarMeta, Reads("variables_metadata"))>>),
    Clause(<<
        frag(onMaria, Joins("SYSTEM_VARIABLES")),
        frag(onMySQL, Joins("global_variables v")),
        frag(mysqlVarMeta, Text(FALSE, {}, {"variables_metadata", "global_variables g"}))>>)>>)

myRoles == Binding("Roles", <<
    Column("can_login", Always, <<frag(onMaria, Source), frag(onMySQL, Source)>>),
    Column("conn_limit", Always,
           <<Base(Source), On("tidb", V(8, 5, 0), Source), On("tidb", 0, Source)>>)>>)

\* Two tables, and their columns read the other way round.
EitherTable ==
    <<frag(onMaria, Reads("roles_mapping")), frag(onMySQL, Reads("role_edges"))>>

myRoleGrants == Binding("RoleGrants", <<
    Columns({"role", "member_of", "admin"}, Always, EitherTable),
    Clause(<<frag(onMaria, Joins("roles_mapping")), frag(onMySQL, Joins("role_edges"))>>),
    Clause(EitherTable)>>)

myColumnStats == Binding("ColumnStats", <<Only(onMaria)>>)

myAggregates == Binding("Aggregates", <<Only(mariaAgg)>>)

MySQL ==
    myFiltered \cup
    {myTables, myColumns, myIndexColumns, myConstraints, mySequences, myExtensions, mySettings,
     myRoles, myRoleGrants, myColumnStats, myAggregates}

---------------------------------------------------------------------------
(* models/tidb, models/vitess and models/singlestore. *)

\* Query.Share: the same binding answers on another product.
Share(bindings, queries) == { b \in bindings : b.query \in queries }

\* from85.
tiPrivileges == Binding("Privileges", <<Only(Gate("tidb", V(8, 5, 0)))>>)

SharedByAll ==
    {"Tables", "Schemas", "Columns", "Indexes", "IndexColumns", "Constraints", "ConstraintColumns",
     "Views", "Comments", "Databases", "CurrentSchema"}

TiDB ==
    {tiPrivileges} \cup
    Share(MySQL, SharedByAll \cup {"PartitionedTables", "Partitions", "Roles", "RoleGrants"})

Vitess ==
    Share(MySQL, SharedByAll \cup {"PartitionedTables", "Partitions", "Settings", "Extensions",
                                   "Functions", "RoutineParameters"})

SingleStore == Share(MySQL, SharedByAll \cup {"Functions", "RoutineParameters"})

=============================================================================
