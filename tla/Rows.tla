-------------------------------- MODULE Rows --------------------------------
(***************************************************************************)
(* The reading of one row, for every query of every model that answers     *)
(* with one statement and a Scan by position.                              *)
(*                                                                         *)
(* A caller asks a query of a product, with a filter or with none.  The    *)
(* statement runs, and Scan takes its columns one after the other into the *)
(* fields of a Go type that all products share.  Nothing in the program    *)
(* compares the select list with Binding.Fields or with Scan: the three    *)
(* are written by hand, some of the columns are decided per release, and   *)
(* what database/sql cannot store it refuses with the whole row.           *)
(***************************************************************************)
EXTENDS Naturals, Sequences, Objects, PostgresRows, MySQLRows, ServerRows,
        AnalyticRows, CloudRows, GatewayRows, DocumentRows

CONSTANTS
    Asked,         \* the models that are asked
    NoEmptyText    \* those of products that store the empty text as NULL

(* The models, each with the queries that it registers. *)
Bound ==
    [postgres |-> postgres, cockroachdb |-> cockroachdb, cratedb |-> cratedb,
     questdb |-> questdb, redshift |-> redshift, mysql |-> mysql, tidb |-> tidb,
     vitess |-> vitess, singlestore |-> singlestore, sqlserver |-> sqlserver,
     oracle |-> oracle, hana |-> hana, firebird |-> firebird, vertica |-> vertica,
     exasol |-> exasol, clickhouse |-> clickhouse, duckdb |-> duckdb,
     sqlite3 |-> sqlite3, libsql |-> libsql, rqlite |-> rqlite, bigquery |-> bigquery,
     databend |-> databend, databricks |-> databricks, maxcompute |-> maxcompute,
     snowflake |-> snowflake, spanner |-> spanner, ydb |-> ydb, athena |-> athena,
     avatica |-> avatica, hive |-> hive, impala |-> impala, trino |-> trino,
     presto |-> presto, drill |-> drill, druid |-> druid, solr |-> solr,
     arangodb |-> arangodb, cassandra |-> cassandra, couchbase |-> couchbase,
     elasticsearch |-> elasticsearch, influxdb |-> influxdb, neo4j |-> neo4j,
     surrealdb |-> surrealdb]

ASSUME RowsAssumption == Asked \cup NoEmptyText \subseteq DOMAIN Bound

VARIABLES
    model, query,  \* what is asked
    filter,        \* the parameter that the caller gives, or ""
    bare,          \* the server has nothing for what may be NULL or empty
    answer,        \* the columns of the answer
    at,            \* how many of them Scan has taken
    row,           \* per filled field, its column, what that held and what it holds
    outcome        \* what came of the row

vars == <<model, query, filter, bare, answer, at, row, outcome>>

---------------------------------------------------------------------------
(* database/sql. *)

B       == Bound[model][query]
Reading == outcome = "reading"

\* What the server has in column c.
Wrote(c) ==
    LET bits == (IF c \in B.null  THEN {"null"}  ELSE {}) \cup
                (IF c \in B.blank THEN {"blank"} ELSE {})
    IN  IF bare /\ bits # {} THEN bits ELSE {"value"}

\* What of it arrives: '' is NULL on a product that cannot store it.
Arrives(w) == IF w = "blank" /\ model \in NoEmptyText THEN "null" ELSE w

\* A field of a type sql.Null takes a NULL, and so does the scanner NullAsEmpty,
\* which reads it as the empty text.  A plain field does not.
Takes(field, a) ==
    a = "null" => field \in {"_"} \cup B.emptied \cup RowType[query].nullable

Holds(field, a) == IF a = "null" /\ field \in B.emptied THEN "blank" ELSE a

---------------------------------------------------------------------------
(* Query.All, for one row. *)

Init ==
    /\ model = "" /\ query = "" /\ filter = "" /\ bare = FALSE
    /\ answer = <<>> /\ at = 0 /\ row = <<>> /\ outcome = "none"

\* The statement is built and sent.  A column more or less than Scan has targets
\* fails every row.
Ask(m, q, f) ==
    /\ outcome = "none"
    /\ f \in Bound[m][q].params \cup {""}
    /\ model' = m /\ query' = q /\ filter' = f
    /\ bare' \in BOOLEAN
    /\ answer' \in Bound[m][q].selects
    /\ outcome' = IF Len(answer') = Len(Bound[m][q].scan) THEN "reading" ELSE "refused"
    /\ UNCHANGED <<at, row>>

\* Rows.Scan converts the columns in order and stops at the first it cannot.
ScanColumn ==
    /\ Reading /\ at < Len(answer)
    /\ at' = at + 1
    /\ \E w \in Wrote(answer[at']) :
         LET field == B.scan[at']
             a     == Arrives(w)
         IN  IF Takes(field, a)
             THEN /\ row' = IF field = "_" THEN row
                            ELSE (field :> [column |-> answer[at'], wrote |-> w,
                                            holds |-> Holds(field, a)]) @@ row
                  /\ UNCHANGED outcome
             ELSE outcome' = "refused" /\ UNCHANGED row
    /\ UNCHANGED <<model, query, filter, bare, answer>>

\* Keep is asked for a row that Scan has read, and a binding without one keeps all.
Deliver ==
    /\ Reading /\ at = Len(answer)
    /\ outcome' \in {"yielded"} \cup (IF B.keeps = {} THEN {} ELSE {"dropped"})
    /\ UNCHANGED <<model, query, filter, bare, answer, at, row>>

\* The caller goes on to another query.
Close ==
    /\ outcome \in {"yielded", "dropped", "refused"}
    /\ model' = "" /\ query' = "" /\ filter' = "" /\ bare' = FALSE
    /\ answer' = <<>> /\ at' = 0 /\ row' = <<>> /\ outcome' = "none"

Next ==
    \/ \E m \in Asked : \E q \in DOMAIN Bound[m] : \E f \in Bound[m][q].params \cup {""} :
         Ask(m, q, f)
    \/ ScanColumn
    \/ Deliver
    \/ Close

Spec == Init /\ [][Next]_vars

---------------------------------------------------------------------------
(* Properties. *)

\* The columns that a server has been seen, or may be, to leave NULL where the
\* field takes none (README, "Where the code and its promises part").
Refused ==
    {<<"cockroachdb", "triggers">>, <<"cockroachdb", "extension_objects">>,
     <<"sqlserver", "policies">>}

\* No statement writes a NULL for a field that cannot take one, which would fail
\* every such row, and none has a column that Scan has no target for.
NoRowIsRefused == outcome = "refused" => <<model, query>> \in Refused

\* docs/NULLS.md says of a release that lacks a column: "Pad with NULL, make the
\* field nullable, and set Field.Min."  So no row is lost to a pad.  The objects of
\* an extension are not counted: CockroachDB answers none, on any release measured.
PadsAreTaken == outcome = "refused" => query = "extension_objects"

\* A field of the type that the query answers with holds what the column of its own
\* name held, and Binding.Fields declares the columns in the order the statement
\* returns them.
ColumnsFillTheirFields ==
    /\ outcome # "none" =>
         DOMAIN row \subseteq RowType[query].plain \cup RowType[query].nullable
    /\ \A field \in DOMAIN row : row[field].column = field
    /\ outcome # "none" => answer = B.fields

\* The three that lose the empty text (README, as above).
EmptyIsAbsent ==
    {<<"oracle", "functions">>, <<"oracle", "aggregates">>, <<"exasol",
     "constraint_columns">>}

\* A NULL that the statement writes is absent to the caller wherever the type can
\* say so, and the empty text that it writes is not absent, whatever the product
\* makes of it on the way.
EmptinessSurvives ==
    \A field \in DOMAIN row :
      /\ row[field].wrote = "null" /\ field \in RowType[query].nullable =>
           row[field].holds = "null"
      /\ row[field].wrote = "blank" /\ <<model, query>> \notin EmptyIsAbsent =>
           row[field].holds = "blank"

\* The parameters that widen an answer instead of narrowing it.
Switches == {"with_system", "with_implicit", "with_table_info"}

\* A filter that the caller gives decides what it gets: the statement names it, in
\* every alternative, or Keep reads it.
FiltersDecide ==
    outcome = "yielded" /\ filter # "" => filter \in B.reads \cup B.keeps \cup Switches

=============================================================================
