------------------------------- MODULE Walks --------------------------------
(***************************************************************************)
(* The walks: the queries of the products that list one thing at a time.   *)
(*                                                                         *)
(* A walk asks for the databases, then for what each of them holds, then   *)
(* for each of those, and matches the names in Go.  Other sessions create, *)
(* drop and replace tables and views meanwhile, the service may fail, and  *)
(* the context may end, between any two of its statements.  The products   *)
(* differ in the statements they have, in whether a walk reads a statement *)
(* to its end before it yields, and in what it makes of a statement that   *)
(* fails.                                                                  *)
(***************************************************************************)
EXTENDS Naturals, FiniteSets

CONSTANTS
    Objects,      \* pairs of a database and a name
    Asking,       \* the sets of names a caller may ask for
    Faults,       \* what may fail: "service", "garbled", "cancel"
    MaxChanges    \* bound: how many changes other sessions make

ASSUME WalksAssumption == MaxChanges \in Nat

VARIABLES
    walk,       \* the walk
    names,      \* the names the caller asks for
    dbs,        \* the databases there are
    catalog,    \* per object, "table", "view" or "absent"
    canceled,   \* the context has ended
    pc,         \* where the walk is
    cur,        \* the database <<d>>, or the relation <<d, name>>, it is asking about
    todo,       \* the databases it still has to ask
    views,      \* the views of the database it is asking
    rels,       \* what it has listed and not asked about
    buf,        \* what a statement has answered and the caller not been given
    told,       \* what the caller was given
    seen,       \* what was there at some moment since the walk began
    stayed,     \* what was there all the time
    remade,     \* the objects created since the walk began
    refused,    \* the objects whose failed statement a walk went past
    faulted,    \* the service has failed
    changes     \* how often the catalog has changed

walked == <<pc, cur, todo, views, rels, buf, told, refused, faulted>>
world  == <<dbs, catalog, seen, stayed, remade, changes>>
vars   == <<walk, names, dbs, catalog, canceled, pc, cur, todo, views, rels, buf, told,
            seen, stayed, remade, refused, faulted, changes>>

---------------------------------------------------------------------------
(* The walks. *)

\* Those of services without databases, which list their tables or indices.
Flat == {"tablestore", "opensearch", "elasticsearch"}

\* The kinds that they tell of, and the parts that each statement answers: the
\* columns of one table, or the fields and then the tags of a measurement.
Kinds == {"table", "view"}
Parts == {1, 2}

Walks == Flat \cup {"impala.Tables", "impala.Views", "impala.ColumnStats",
                    "impala.Functions", "influxql.Tables", "influxql.Columns"}

Telling == CASE walk = "impala.Views"       -> {"view"}
             [] walk = "impala.ColumnStats" -> {"table"}
             [] OTHER                       -> Kinds

\* Those that list relations and then ask about each of them.
Describing == {"tablestore", "opensearch", "impala.Tables", "impala.Views",
               "impala.ColumnStats"}

\* Those that yield rows as they read them.
Streaming == {"opensearch", "elasticsearch"}

---------------------------------------------------------------------------
(* The service. *)

There         == {o \in Objects : catalog[o] # "absent"}
Named(o)      == o[2] \in names
Rows(os, of)  == {<<<<o, catalog[o]>>, part>> : o \in os, part \in of}
In(d)         == {o \in There : o[1] = d /\ Named(o)}
Present(c)    == {<<o, c[o]>> : o \in {x \in Objects : c[x] # "absent"}}

\* A statement about one object answers if there is one, and of its kind.
None       == <<>>
Answers(r) == catalog[r.object] \in Telling

\* A statement is one step: it is answered, unless the context has ended, or it
\* fails because of that or because the service fails it.
Statement(Answered, Failed) ==
    \/ /\ ~canceled
       /\ Answered /\ UNCHANGED faulted
    \/ /\ canceled \/ "service" \in Faults
       /\ Failed /\ faulted' = (faulted \/ ~canceled)

Goes(to)  == pc' = to /\ UNCHANGED <<cur, todo, views, rels, buf, told, refused>>
Ends(how) == pc' = how /\ cur' = None /\ UNCHANGED <<todo, views, rels, buf, told, refused>>

---------------------------------------------------------------------------
(* Other sessions. *)

Changed ==
    /\ pc \notin {"done", "failed", "stopped"}
    /\ changes < MaxChanges
    /\ changes' = changes + 1
    /\ seen' = seen \cup Present(catalog')
    /\ stayed' = stayed \cap Present(catalog')
    /\ UNCHANGED <<walk, names, canceled, walked>>

Create(o, k) ==
    /\ o[1] \in dbs /\ catalog[o] = "absent"
    /\ catalog' = [catalog EXCEPT ![o] = k]
    /\ remade' = remade \cup {o}
    /\ Changed /\ UNCHANGED dbs

Drop(o) ==
    /\ catalog[o] # "absent"
    /\ catalog' = [catalog EXCEPT ![o] = "absent"]
    /\ Changed /\ UNCHANGED <<dbs, remade>>

DropDatabase(d) ==
    /\ walk \notin Flat /\ d \in dbs
    /\ dbs' = dbs \ {d}
    /\ catalog' = [o \in Objects |-> IF o[1] = d THEN "absent" ELSE catalog[o]]
    /\ Changed /\ UNCHANGED remade

Cancel ==
    /\ "cancel" \in Faults /\ ~canceled /\ pc \notin {"done", "failed", "stopped"}
    /\ canceled' = TRUE
    /\ UNCHANGED <<walk, names, world, walked>>

---------------------------------------------------------------------------
(* The walk. *)

\* tablestore asks nothing when the schema that the caller names is not the one
\* without a name.
Init ==
    /\ walk \in Walks /\ names \in Asking
    /\ catalog \in [Objects -> Kinds \cup {"absent"}]
    /\ dbs = {o[1] : o \in Objects}
    /\ pc = IF walk = "tablestore" /\ names = {} THEN "done"
            ELSE IF walk \in Flat THEN "list" ELSE "databases"
    /\ canceled = FALSE /\ faulted = FALSE /\ changes = 0
    /\ todo = {} /\ views = {} /\ rels = {} /\ buf = {} /\ told = {}
    /\ seen = Present(catalog) /\ stayed = Present(catalog)
    /\ remade = {} /\ refused = {} /\ cur = None

\* SHOW DATABASES.
Databases ==
    /\ pc = "databases"
    /\ Statement(/\ todo' = dbs /\ pc' = "database"
                 /\ UNCHANGED <<cur, views, rels, buf, told, refused>>,
                 Ends("failed"))
    /\ UNCHANGED <<walk, names, world, canceled>>

\* A statement about a database fails if the database is gone, except that
\* InfluxDB may answer that there is nothing in it.
OfDatabase(d, Answered) ==
    /\ Statement(\/ d \in dbs /\ Answered
                 \/ walk \in {"influxql.Tables", "influxql.Columns"} /\ Answered
                 \/ d \notin dbs /\ Ends("failed"),
                 Ends("failed"))
    /\ UNCHANGED <<walk, names, world, canceled>>

\* SHOW VIEWS IN.
ListViews ==
    /\ pc = "database" /\ walk \in Describing
    /\ \E d \in todo :
         OfDatabase(d, /\ views' = {o \in In(d) : catalog[o] = "view"}
                       /\ todo' = todo \ {d} /\ pc' = "tables" /\ cur' = <<d>>
                       /\ UNCHANGED <<rels, buf, told, refused>>)

Relations(os) ==
    {[object |-> o, as |-> IF o \in views THEN "view" ELSE "table"] : o \in os}

\* SHOW TABLES IN, which lists the views too.
ListTables ==
    /\ pc = "tables"
    /\ OfDatabase(cur[1], /\ rels' = rels \cup Relations(In(cur[1]))
                          /\ pc' = "database" /\ cur' = None /\ views' = {}
                          /\ UNCHANGED <<todo, buf, told, refused>>)

\* One statement tells of all that a database holds, and what it says is yielded
\* before the next database is asked, or kept until the last one has been.  That
\* of the columns of InfluxQL, SHOW FIELD KEYS ON, has another to follow it.
AskDatabase ==
    /\ pc = "database" /\ walk \notin Describing
    /\ \E d \in todo :
         OfDatabase(d, /\ buf' = buf \cup Rows(In(d), IF walk = "influxql.Columns"
                                                      THEN {1} ELSE Parts)
                       /\ todo' = todo \ {d}
                       /\ pc' = CASE walk = "influxql.Columns" -> "tags"
                                  [] walk = "influxql.Tables"  -> "database"
                                  [] OTHER                     -> "yield"
                       /\ cur' = IF walk = "influxql.Columns" THEN <<d>> ELSE None
                       /\ UNCHANGED <<views, rels, told, refused>>)

\* SHOW TAG KEYS ON.
AskTags ==
    /\ pc = "tags"
    /\ OfDatabase(cur[1], /\ buf' = buf \cup Rows(In(cur[1]), {2})
                          /\ pc' = "yield" /\ cur' = None
                          /\ UNCHANGED <<todo, views, rels, told, refused>>)

\* SHOW FULL TABLES or SHOW TABLES LIKE %.
List ==
    /\ pc = "list"
    /\ Statement(IF walk = "elasticsearch"
                 THEN /\ buf' = Rows({o \in There : Named(o)}, Parts) /\ pc' = "yield"
                      /\ UNCHANGED <<cur, todo, views, rels, told, refused>>
                 ELSE /\ rels' = Relations({o \in There : Named(o)})
                      /\ pc' = "describe"
                      /\ UNCHANGED <<cur, todo, views, buf, told, refused>>,
                 Ends("failed"))
    /\ UNCHANGED <<walk, names, world, canceled>>

\* The relations are listed.
Listed ==
    /\ pc = "database" /\ todo = {}
    /\ Goes(IF walk \in Describing THEN "describe" ELSE "yield")
    /\ UNCHANGED <<walk, names, world, canceled, faulted>>

\* The walk of the views passes over what is none, and that of the statistics over
\* what is one.
PassOver ==
    /\ pc = "describe"
    /\ \E r \in rels :
         /\ \/ walk = "impala.Views" /\ r.as = "table"
            \/ walk = "impala.ColumnStats" /\ r.as = "view"
         /\ rels' = rels \ {r}
    /\ UNCHANGED <<walk, names, world, canceled, pc, cur, todo, views, buf, told>>
    /\ UNCHANGED <<refused, faulted>>

Asked(r) == walk \in {"impala.Views", "impala.ColumnStats"} => r.as \in Telling

\* Mutant: a relation that cannot be read is passed over, whatever the walk.
RefusedSkips(r) ==
    /\ rels' = rels \ {r}
    /\ UNCHANGED <<pc, cur, todo, views, buf, told, refused>>

\* Mutant: the tables are not listed again.
RefusedEnds(r) == Ends("failed")

\* What a walk makes of a statement about r that failed.
Refused(r) ==
    CASE walk = "tablestore" ->
           /\ pc' = "relist" /\ cur' = r.object
           /\ UNCHANGED <<todo, views, rels, buf, told, refused>>
      [] walk = "opensearch" /\ ~canceled ->
           /\ rels' = rels \ {r} /\ refused' = refused \cup {r.object}
           /\ UNCHANGED <<pc, cur, todo, views, buf, told>>
      [] OTHER -> Ends("failed")

\* DESCRIBE, SHOW INDEX, SHOW CREATE VIEW or SHOW COLUMN STATS, of one relation.
Describe ==
    /\ pc = "describe"
    /\ \E r \in rels :
         /\ Asked(r)
         /\ Statement(IF ~Answers(r) THEN Refused(r)
                      ELSE /\ buf' = Rows({r.object}, Parts)
                           /\ rels' = rels \ {r} /\ pc' = "yield"
                           /\ UNCHANGED <<cur, todo, views, told, refused>>,
                      Refused(r))
    /\ UNCHANGED <<walk, names, world, canceled>>

\* What tablestore answered is not what the walk can read.
Garbled ==
    /\ pc = "describe" /\ walk = "tablestore" /\ "garbled" \in Faults /\ rels # {}
    /\ Ends("failed") /\ faulted' = TRUE
    /\ UNCHANGED <<walk, names, world, canceled>>

\* Mutant: a table that is still listed is asked about again.
RelistAgain ==
    /\ pc = "relist"
    /\ Statement(/\ rels' = IF catalog[cur] # "absent" THEN rels
                            ELSE {r \in rels : r.object # cur}
                 /\ pc' = "describe" /\ cur' = None
                 /\ UNCHANGED <<todo, views, buf, told, refused>>,
                 Ends("failed"))
    /\ UNCHANGED <<walk, names, world, canceled>>

\* vanished: the tables are listed again, and one that is gone is passed over.
Relist ==
    /\ pc = "relist"
    /\ Statement(IF catalog[cur] # "absent" THEN Ends("failed")
                 ELSE /\ rels' = {r \in rels : r.object # cur}
                      /\ pc' = "describe" /\ cur' = None
                      /\ UNCHANGED <<todo, views, buf, told, refused>>,
                 Ends("failed"))
    /\ UNCHANGED <<walk, names, world, canceled>>

\* The caller is given a row, and may stop.
Yield ==
    /\ pc = "yield"
    /\ \E row \in buf : told' = told \cup {row} /\ buf' = buf \ {row}
    /\ pc' \in {"yield", "stopped"}
    /\ UNCHANGED <<walk, names, world, canceled, cur, todo, views, rels>>
    /\ UNCHANGED <<refused, faulted>>

\* Mutant: every walk yields rows as it reads them.
RowsFailAnywhere ==
    /\ pc = "yield"
    /\ canceled \/ "service" \in Faults
    /\ Ends("failed") /\ faulted' = (faulted \/ ~canceled)
    /\ UNCHANGED <<walk, names, world, canceled>>

\* The rows of a statement that is still running may end with an error.
RowsFail ==
    /\ pc = "yield" /\ walk \in Streaming
    /\ canceled \/ "service" \in Faults
    /\ Ends("failed") /\ faulted' = (faulted \/ ~canceled)
    /\ UNCHANGED <<walk, names, world, canceled>>

\* What a statement answered is yielded.
Yielded ==
    /\ pc = "yield" /\ buf = {}
    /\ Goes(IF walk \in Describing THEN "describe"
            ELSE IF walk \in {"impala.Functions", "influxql.Columns"} /\ todo # {}
                 THEN "database" ELSE "done")
    /\ UNCHANGED <<walk, names, world, canceled, faulted>>

Finish ==
    /\ pc = "describe" /\ rels = {}
    /\ Ends("done")
    /\ UNCHANGED <<walk, names, world, canceled, faulted>>

Step ==
    \/ Databases \/ ListViews \/ ListTables \/ AskDatabase \/ AskTags \/ List
    \/ Listed \/ PassOver \/ Describe \/ Garbled \/ Relist
    \/ Yield \/ RowsFail \/ Yielded \/ Finish

Next ==
    \/ Step
    \/ \E o \in Objects, k \in Kinds : Create(o, k)
    \/ \E o \in Objects : Drop(o)
    \/ \E d \in dbs : DropDatabase(d)
    \/ Cancel

Spec == Init /\ [][Next]_vars /\ WF_vars(Step)

---------------------------------------------------------------------------
(* Properties. *)

\* What each variable holds: databases, objects, items and their parts.
TypeOK ==
    /\ walk \in Walks /\ names \in Asking
    /\ pc \in {"databases", "database", "tables", "tags", "list", "describe", "relist",
              "yield", "done", "failed", "stopped"}
    /\ canceled \in BOOLEAN /\ faulted \in BOOLEAN /\ changes \in 0..MaxChanges
    /\ catalog \in [Objects -> Kinds \cup {"absent"}]
    /\ dbs \cup todo \subseteq {o[1] : o \in Objects}
    /\ cur \in {None} \cup {<<o[1]>> : o \in Objects} \cup Objects
    /\ views \cup remade \cup refused \subseteq Objects
    /\ rels \subseteq [object : Objects, as : Kinds]
    /\ seen \cup stayed \subseteq Objects \X Kinds
    /\ buf \cup told \subseteq (Objects \X Kinds) \X Parts

Over == {"done", "failed", "stopped"}

\* What the caller asks for.
AskedFor == {it \in Objects \X Telling : Named(it[1])}

Promise == INSTANCE Listing WITH
    asked   <- AskedFor,
    lenient <- walk = "opensearch",
    trouble <- canceled \/ faulted \/ changes > 0,
    outcome <- IF pc \in Over THEN pc ELSE "going"

\* Every walk is a listing: it tells nothing that was not there, and one that ends
\* without an error has told all of what was there all along, except of an index
\* that OpenSearch refused to describe.
WalksList == Promise!Spec

\* "If the table is gone, the walk skips it."  Tables that are dropped, without the
\* service failing, the context ending or a table of the same name coming back, do
\* not end a walk of tablestore.
DropsAreForgiven ==
    walk = "tablestore" /\ pc = "failed" => faulted \/ canceled \/ remade # {}

\* A walk that reads a statement to its end before it yields tells all that there
\* is of an object or, if it fails, nothing: a caller that got an error has no half
\* of a table.  The two statements of influxql.Columns are of two moments.
WholeOrNotAtAll ==
    pc \in {"done", "failed"} /\ walk \notin Streaming \cup {"influxql.Columns"} =>
      \A row \in told : \A part \in Parts : <<row[1], part>> \in told

\* A walk comes to its end, if its caller goes on and its statements return.
WalkEnds == <>(pc \in Over)
=============================================================================
