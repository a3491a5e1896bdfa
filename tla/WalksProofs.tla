----------------------------- MODULE WalksProofs -----------------------------
(***************************************************************************)
(* What the walks promise, for every catalog, every set of names asked     *)
(* for, every choice of faults and any number of changes that other        *)
(* sessions make: a walk is a listing.                                     *)
(***************************************************************************)
EXTENDS Walks, TLAPS

AllDbs  == {o[1] : o \in Objects}
Trouble == canceled \/ faulted \/ changes > 0

Places == {"databases", "database", "tables", "tags", "list", "describe", "relist", "yield",
           "done", "failed", "stopped"}

---------------------------------------------------------------------------
(* The invariant. *)

TypesOK ==
    /\ walk \in Walks /\ catalog \in [Objects -> Kinds \cup {"absent"}]
    /\ canceled \in BOOLEAN /\ faulted \in BOOLEAN /\ changes \in Nat /\ pc \in Places
    /\ \A r \in rels : r.object \in Objects /\ Named(r.object) /\ r.as \in Kinds
    /\ pc = "relist" => walk = "tablestore" /\ cur \in Objects

\* What was seen and what stayed, and that an object is in a database.
WorldOK ==
    /\ Present(catalog) \subseteq seen /\ stayed \subseteq Present(catalog)
    /\ \A o \in Objects : catalog[o] # "absent" => o[1] \in dbs
    /\ dbs \subseteq AllDbs
    /\ changes = 0 => AllDbs \subseteq dbs /\ Present(catalog) \subseteq stayed

\* Where a walk may be, and what it may have in hand there.
PlaceOK ==
    /\ todo \subseteq AllDbs
    /\ pc \in {"tables", "tags"} => cur[1] \in AllDbs
    /\ pc \in {"tables", "describe", "relist"} => walk \in Describing
    /\ pc = "tags" => walk = "influxql.Columns"
    /\ pc = "list" => walk \in Flat
    /\ pc \in {"databases", "database", "tables"} => walk \notin Flat
    /\ walk \in Flat \/ pc \in {"describe", "relist"} => todo = {}
    /\ pc = "yield" /\ walk \notin {"impala.Functions", "influxql.Columns"} => todo = {}
    /\ walk \notin Describing => rels = {}
    /\ walk \in Describing /\ pc \notin {"yield", "stopped", "failed"} => buf = {}

\* What is about to be told was there, and asked for.
TruthOK ==
    \A x \in buf : \E o \in Objects : \E k \in Telling : \E p \in Parts :
        x = <<<<o, k>>, p>> /\ <<o, k>> \in seen /\ Named(o)

\* Nothing that the walk has listed is gone unless something has changed.
RelsOK ==
    /\ changes = 0 =>
         \A r \in rels : /\ catalog[r.object] # "absent"
                         /\ walk \notin Flat => catalog[r.object] = r.as
    /\ pc = "relist" => Trouble

\* The views are those of the database whose tables are asked for.
ListedOK ==
    pc = "tables" =>
      \A o \in Objects : \A k \in Kinds :
        <<o, k>> \in stayed /\ Named(o) /\ o[1] = cur[1] => (o \in views <=> k = "view")

\* What the walk will still ask about.
Pending(o, p) ==
    \/ pc \in {"databases", "list"}
    \/ o[1] \in todo
    \/ pc = "tables" /\ o[1] = cur[1]
    \/ pc = "tags" /\ o[1] = cur[1] /\ p = 2
    \/ \E r \in rels : r.object = o /\ Asked(r)

\* Everything that stayed is told, refused, about to be told, or still asked about.
DebtOK ==
    pc \notin Over =>
      \A o \in Objects : \A k \in Telling : \A p \in Parts :
        <<o, k>> \in stayed /\ Named(o) =>
          o \in refused \/ <<<<o, k>>, p>> \in told \cup buf \/ Pending(o, p)

\* All parts of an object are answered at once, and told before the next question.
WholeOK ==
    walk \notin Streaming \cup {"influxql.Columns"} =>
      /\ \A x \in told \cup buf : \A p \in Parts : <<x[1], p>> \in told \cup buf
      /\ pc \notin {"yield", "stopped"} => buf = {} \/ told = {}
      /\ walk = "influxql.Tables" /\ pc \in {"databases", "database"} => told = {}

\* A table that was found to be gone is gone until one is made again.
DropsOK ==
    walk = "tablestore" /\ pc \in {"relist", "failed"} =>
      faulted \/ canceled \/ remade # {} \/ (pc = "relist" /\ catalog[cur] = "absent")

IInv == /\ TypesOK /\ WorldOK /\ PlaceOK /\ TruthOK /\ RelsOK /\ ListedOK /\ DebtOK
        /\ WholeOK /\ DropsOK

---------------------------------------------------------------------------
(* Catalogs and rows. *)

LEMMA PresentIs ==
    ASSUME NEW c, NEW o, NEW k
    PROVE  <<o, k>> \in Present(c) <=> o \in Objects /\ c[o] = k /\ k # "absent"
BY DEF Present

LEMMA StayedIs ==
    ASSUME TypesOK, WorldOK, NEW o, NEW k, <<o, k>> \in stayed
    PROVE  o \in Objects /\ catalog[o] = k /\ k \in Kinds /\ o[1] \in dbs
<1>1. <<o, k>> \in Present(catalog)
  BY DEF WorldOK
<1>2. o \in Objects /\ catalog[o] = k /\ k # "absent"
  BY <1>1, PresentIs
<1> QED BY <1>2 DEF TypesOK, WorldOK

LEMMA RowsIs ==
    ASSUME NEW os, NEW of, NEW x
    PROVE  x \in Rows(os, of) <=> \E o \in os : \E p \in of : x = <<<<o, catalog[o]>>, p>>
BY DEF Rows

LEMMA Tells ==
    ASSUME walk \in Walks
    PROVE  /\ Telling \subseteq Kinds
           /\ walk \notin {"impala.Views", "impala.ColumnStats"} => Telling = Kinds
           /\ walk \in Flat => walk \notin {"impala.Views", "impala.ColumnStats"}
           /\ walk \notin Describing => walk \notin {"impala.Views", "impala.ColumnStats"}
BY DEF Walks, Telling, Kinds, Flat, Describing

\* A question that is asked, and cannot be answered.
LEMMA NotAnswered ==
    ASSUME IInv, NEW r \in rels, Asked(r), ~Answers(r)
    PROVE  changes > 0 /\ \A k \in Telling : <<r.object, k>> \notin stayed
<1>1. r.object \in Objects /\ r.as \in Kinds /\ walk \in Walks /\ changes \in Nat
      /\ catalog \in [Objects -> Kinds \cup {"absent"}] /\ TypesOK /\ WorldOK
  BY DEF IInv, TypesOK
<1>2. catalog[r.object] \notin Telling
  BY DEF Answers
<1>3. ASSUME NEW k \in Telling, <<r.object, k>> \in stayed PROVE FALSE
  BY <1>1, <1>2, <1>3, StayedIs
<1>4. ASSUME changes = 0 PROVE FALSE
  <2>1. catalog[r.object] \in Kinds /\ (walk \notin Flat => catalog[r.object] = r.as)
    BY <1>1, <1>4 DEF IInv, RelsOK
  <2>2. CASE walk \in {"impala.Views", "impala.ColumnStats"}
    <3>1. walk \notin Flat
      BY <2>2 DEF Flat
    <3> QED BY <1>2, <2>1, <2>2, <3>1 DEF Asked
  <2>3. CASE walk \notin {"impala.Views", "impala.ColumnStats"}
    BY <1>1, <1>2, <2>1, <2>3, Tells
  <2> QED BY <2>2, <2>3
<1> QED BY <1>1, <1>3, <1>4

---------------------------------------------------------------------------
(* Other sessions. *)

LEMMA ChangedKeeps ==
    ASSUME IInv, Changed, catalog' \in [Objects -> Kinds \cup {"absent"}],
           \A o \in Objects : catalog'[o] # "absent" => o[1] \in dbs',
           dbs' \subseteq dbs,
           pc = "relist" => catalog[cur] = catalog'[cur] \/ catalog'[cur] = "absent"
                            \/ remade' # {},
           remade # {} => remade' # {}
    PROVE  IInv'
<1>1. /\ changes' = changes + 1 /\ changes \in Nat
      /\ seen' = seen \cup Present(catalog') /\ stayed' = stayed \cap Present(catalog')
      /\ UNCHANGED <<walk, names, canceled, pc, cur, todo, views, rels, buf, told, refused, faulted>>
  BY DEF Changed, walked, IInv, TypesOK
<1>2. Telling' = Telling
  BY <1>1 DEF Telling
<1>3. TypesOK'
  BY <1>1 DEF IInv, TypesOK, Named
<1>4. WorldOK'
  <2>1. changes' # 0 /\ dbs' \subseteq AllDbs
    BY <1>1 DEF IInv, WorldOK
  <2>2. Present(catalog)' = Present(catalog')
    BY DEF Present
  <2> QED BY <1>1, <2>1, <2>2 DEF WorldOK, AllDbs
<1>5. PlaceOK'
  BY <1>1 DEF IInv, PlaceOK
<1>6. TruthOK'
  BY <1>1, <1>2 DEF IInv, TruthOK, Named
<1>7. RelsOK' /\ ListedOK'
  BY <1>1 DEF IInv, RelsOK, Trouble, ListedOK, Named
<1>8. DebtOK'
  <2>1. ASSUME NEW o, NEW p PROVE Pending(o, p)' <=> Pending(o, p)
    BY <1>1, <1>2 DEF Pending, Asked
  <2> QED BY <1>1, <1>2, <2>1 DEF IInv, DebtOK, Named
<1>9. WholeOK'
  BY <1>1 DEF IInv, WholeOK
<1>10. DropsOK'
  BY <1>1 DEF IInv, DropsOK
<1> QED BY <1>3, <1>4, <1>5, <1>6, <1>7, <1>8, <1>9, <1>10 DEF IInv

LEMMA OthersKeep ==
    ASSUME IInv,
           \/ \E o \in Objects, k \in Kinds : Create(o, k)
           \/ \E o \in Objects : Drop(o)
           \/ \E d \in dbs : DropDatabase(d)
           \/ Cancel
    PROVE  IInv'
<1>0. /\ catalog \in [Objects -> Kinds \cup {"absent"}]
      /\ pc = "relist" => cur \in Objects
      /\ \A o \in Objects : catalog[o] # "absent" => o[1] \in dbs
  BY DEF IInv, TypesOK, WorldOK
<1>1. ASSUME NEW o \in Objects, NEW k \in Kinds, Create(o, k) PROVE IInv'
  <2>1. /\ o[1] \in dbs /\ dbs' = dbs /\ catalog' = [catalog EXCEPT ![o] = k]
        /\ remade' = remade \cup {o} /\ Changed
    BY <1>1 DEF Create
  <2>2. catalog' \in [Objects -> Kinds \cup {"absent"}]
    BY <1>0, <2>1
  <2>3. \A x \in Objects : catalog'[x] # "absent" => x[1] \in dbs'
    BY <1>0, <2>1
  <2>4. pc = "relist" => catalog[cur] = catalog'[cur] \/ catalog'[cur] = "absent"
                         \/ remade' # {}
    BY <1>0, <2>1
  <2> QED BY <2>1, <2>2, <2>3, <2>4, ChangedKeeps
<1>2. ASSUME NEW o \in Objects, Drop(o) PROVE IInv'
  <2>1. /\ dbs' = dbs /\ catalog' = [catalog EXCEPT ![o] = "absent"]
        /\ remade' = remade /\ Changed
    BY <1>2 DEF Drop
  <2>2. catalog' \in [Objects -> Kinds \cup {"absent"}]
    BY <1>0, <2>1
  <2>3. \A x \in Objects : catalog'[x] # "absent" => x[1] \in dbs'
    BY <1>0, <2>1
  <2>4. pc = "relist" => catalog[cur] = catalog'[cur] \/ catalog'[cur] = "absent"
                         \/ remade' # {}
    BY <1>0, <2>1
  <2> QED BY <2>1, <2>2, <2>3, <2>4, ChangedKeeps
<1>3. ASSUME NEW d \in dbs, DropDatabase(d) PROVE IInv'
  <2>1. /\ dbs' = dbs \ {d} /\ remade' = remade /\ Changed
        /\ catalog' = [o \in Objects |-> IF o[1] = d THEN "absent" ELSE catalog[o]]
    BY <1>3 DEF DropDatabase
  <2>2. catalog' \in [Objects -> Kinds \cup {"absent"}]
    BY <1>0, <2>1
  <2>3. \A x \in Objects : catalog'[x] # "absent" => x[1] \in dbs'
    BY <1>0, <2>1
  <2>4. pc = "relist" => catalog[cur] = catalog'[cur] \/ catalog'[cur] = "absent"
                         \/ remade' # {}
    BY <1>0, <2>1
  <2> QED BY <2>1, <2>2, <2>3, <2>4, ChangedKeeps
<1>4. CASE Cancel
  <2>1. /\ canceled' = TRUE
        /\ UNCHANGED <<walk, names, dbs, catalog, seen, stayed, remade, changes, pc, cur, todo,
                       views, rels, buf, told, refused, faulted>>
    BY <1>4 DEF Cancel, world, walked
  <2>2. Telling' = Telling
    BY <2>1 DEF Telling
  <2>3. TypesOK' /\ WorldOK' /\ PlaceOK' /\ TruthOK'
    BY <2>1, <2>2 DEF IInv, TypesOK, WorldOK, PlaceOK, TruthOK, Named, Present, AllDbs
  <2>4. RelsOK' /\ ListedOK' /\ WholeOK' /\ DropsOK'
    BY <2>1 DEF IInv, RelsOK, Trouble, ListedOK, WholeOK, DropsOK, Named
  <2>5. DebtOK'
    <3>1. ASSUME NEW o, NEW p PROVE Pending(o, p)' <=> Pending(o, p)
      BY <2>1, <2>2 DEF Pending, Asked
    <3> QED BY <2>1, <2>2, <3>1 DEF IInv, DebtOK, Named
  <2> QED BY <2>3, <2>4, <2>5 DEF IInv
<1> QED BY <1>1, <1>2, <1>3, <1>4

---------------------------------------------------------------------------
(* The walk. *)

Same == UNCHANGED <<walk, names, world, canceled>>

LEMMA SameIs ==
    ASSUME Same
    PROVE  /\ UNCHANGED <<walk, names, dbs, catalog, seen, stayed, remade, changes, canceled>>
           /\ Telling' = Telling
           /\ \A o \in Objects : Named(o)' <=> Named(o)
BY DEF Same, world, Telling, Named

\* What no step of a walk touches.
LEMMA WorldStays ==
    ASSUME IInv, Same
    PROVE  WorldOK'
BY SameIs DEF IInv, WorldOK, Present, AllDbs

\* A walk that fails, but not while it yields what it has read to the end.
LEMMA FailKeeps ==
    ASSUME IInv, Same, Ends("failed"), faulted' \in BOOLEAN,
           pc \notin {"yield", "stopped"} \/ walk \in Streaming,
           walk = "tablestore" => faulted' \/ canceled \/ remade # {}
    PROVE  IInv'
<1>1. pc' = "failed" /\ UNCHANGED <<todo, views, rels, buf, told, refused>>
  BY DEF Ends
<1>2. TypesOK'
  BY <1>1, SameIs DEF IInv, TypesOK, Named, Places
<1>3. PlaceOK' /\ RelsOK' /\ ListedOK' /\ DebtOK' /\ DropsOK'
  BY <1>1, SameIs DEF IInv, PlaceOK, RelsOK, ListedOK, DebtOK, DropsOK, Over
<1>4. TruthOK'
  BY <1>1, SameIs DEF IInv, TruthOK, Named
<1>5. WholeOK'
  BY <1>1, SameIs DEF IInv, WholeOK
<1> QED BY <1>2, <1>3, <1>4, <1>5, WorldStays DEF IInv

\* A statement that fails.
LEMMA FailedIs ==
    ASSUME IInv, canceled \/ "service" \in Faults, faulted' = (faulted \/ ~canceled)
    PROVE  faulted' \in BOOLEAN /\ (faulted' \/ canceled) /\ (faulted => faulted')
<1>1. canceled \in BOOLEAN /\ faulted \in BOOLEAN
  BY DEF IInv, TypesOK
<1> QED BY <1>1, Zenon

LEMMA DatabasesKeeps == ASSUME IInv, Databases PROVE IInv'
<1>1. Same /\ pc = "databases"
  BY DEF Databases, Same
<1>2. CASE /\ todo' = dbs /\ pc' = "database"
           /\ UNCHANGED <<cur, views, rels, buf, told, refused>> /\ UNCHANGED faulted
  <2>1. TypesOK'
    BY <1>1, <1>2, SameIs DEF IInv, TypesOK, Named, Places
  <2>2. PlaceOK'
    BY <1>1, <1>2, SameIs DEF IInv, PlaceOK, WorldOK
  <2>3. RelsOK' /\ ListedOK' /\ DropsOK'
    BY <1>1, <1>2, SameIs DEF IInv, RelsOK, ListedOK, DropsOK
  <2>4. TruthOK'
    BY <1>1, <1>2, SameIs DEF IInv, TruthOK, Named
  <2>5. WholeOK'
    BY <1>1, <1>2, SameIs DEF IInv, WholeOK
  <2>6. DebtOK'
    <3>1. ASSUME NEW o \in Objects, NEW k \in Telling, <<o, k>> \in stayed, NEW p
          PROVE  Pending(o, p)'
      BY <1>2, <3>1, StayedIs DEF IInv, Pending
    <3> QED BY <1>1, <3>1, SameIs DEF DebtOK
  <2> QED BY <1>1, <2>1, <2>2, <2>3, <2>4, <2>5, <2>6, WorldStays DEF IInv
<1>3. CASE /\ canceled \/ "service" \in Faults
           /\ Ends("failed") /\ faulted' = (faulted \/ ~canceled)
  BY <1>1, <1>3, FailedIs, FailKeeps
<1> QED BY <1>2, <1>3 DEF Databases, Statement

\* Of a database: what fails.
LEMMA OfDatabaseFails ==
    ASSUME IInv, Same, pc \in {"database", "tables", "tags"}, Ends("failed"),
           \/ UNCHANGED faulted
           \/ (canceled \/ "service" \in Faults) /\ faulted' = (faulted \/ ~canceled)
    PROVE  IInv'
<1>1. walk # "tablestore" /\ faulted' \in BOOLEAN
  BY FailedIs DEF IInv, PlaceOK, Flat, TypesOK
<1> QED BY <1>1, FailKeeps

LEMMA ListViewsKeeps == ASSUME IInv, ListViews PROVE IInv'
<1>1. Same /\ pc = "database" /\ walk \in Describing
  BY DEF ListViews, OfDatabase, Same
<1>2. ASSUME NEW d \in todo, UNCHANGED faulted,
             /\ views' = {o \in In(d) : catalog[o] = "view"}
             /\ todo' = todo \ {d} /\ pc' = "tables" /\ cur' = <<d>>
             /\ UNCHANGED <<rels, buf, told, refused>>
      PROVE  IInv'
  <2>0. cur'[1] = d /\ d \in AllDbs
    BY <1>2 DEF IInv, PlaceOK
  <2>1. TypesOK'
    BY <1>1, <1>2, SameIs DEF IInv, TypesOK, Named, Places
  <2>2. PlaceOK'
    BY <1>1, <1>2, <2>0, SameIs DEF IInv, PlaceOK, WorldOK
  <2>3. RelsOK' /\ DropsOK'
    BY <1>1, <1>2, SameIs DEF IInv, RelsOK, DropsOK
  <2>4. TruthOK'
    BY <1>1, <1>2, SameIs DEF IInv, TruthOK, Named
  <2>5. WholeOK'
    BY <1>1, <1>2, SameIs DEF IInv, WholeOK
  <2>6. ListedOK'
    <3>1. ASSUME NEW o \in Objects, NEW k \in Kinds, <<o, k>> \in stayed, Named(o), o[1] = d
          PROVE  o \in views' <=> k = "view"
      <4>1. catalog[o] = k /\ k # "absent"
        BY <3>1, StayedIs DEF IInv, Kinds
      <4> QED BY <1>2, <3>1, <4>1 DEF In, There
    <3> QED BY <1>1, <2>0, <3>1, SameIs DEF ListedOK
  <2>7. DebtOK'
    <3>1. ASSUME NEW o, NEW p, Pending(o, p) PROVE Pending(o, p)'
      BY <1>1, <1>2, <2>0, <3>1, SameIs DEF Pending, Asked
    <3> QED BY <1>1, <1>2, <3>1, SameIs DEF IInv, DebtOK, Over
  <2> QED BY <1>1, <2>1, <2>2, <2>3, <2>4, <2>5, <2>6, <2>7, WorldStays DEF IInv
<1>3. CASE /\ Ends("failed")
           /\ \/ UNCHANGED faulted
              \/ (canceled \/ "service" \in Faults) /\ faulted' = (faulted \/ ~canceled)
  BY <1>1, <1>3, OfDatabaseFails
<1> QED BY <1>2, <1>3 DEF ListViews, OfDatabase, Statement

\* What a listing makes of the objects it names.
LEMMA RelationsAre ==
    ASSUME NEW os
    PROVE  /\ \A r \in Relations(os) :
                r.object \in os /\ r.as = IF r.object \in views THEN "view" ELSE "table"
           /\ \A o \in os : \E r \in Relations(os) :
                r.object = o /\ r.as = IF o \in views THEN "view" ELSE "table"
<1>1. ASSUME NEW r \in Relations(os)
      PROVE  r.object \in os /\ r.as = IF r.object \in views THEN "view" ELSE "table"
  BY DEF Relations
<1>2. ASSUME NEW o \in os
      PROVE  \E r \in Relations(os) :
                r.object = o /\ r.as = IF o \in views THEN "view" ELSE "table"
  <2> DEFINE s == [object |-> o, as |-> IF o \in views THEN "view" ELSE "table"]
  <2>1. s \in Relations(os)
    BY DEF Relations
  <2>2. s.object = o /\ s.as = IF o \in views THEN "view" ELSE "table"
    OBVIOUS
  <2> HIDE DEF s
  <2> QED BY <2>1, <2>2
<1> QED BY <1>1, <1>2

LEMMA ListTablesKeeps == ASSUME IInv, ListTables PROVE IInv'
<1>1. Same /\ pc = "tables" /\ walk \in Describing /\ walk \notin Flat /\ buf = {}
  BY DEF ListTables, OfDatabase, Same, IInv, PlaceOK
<1>2. ASSUME UNCHANGED faulted,
             /\ rels' = rels \cup Relations(In(cur[1]))
             /\ pc' = "database" /\ cur' = None /\ views' = {}
             /\ UNCHANGED <<todo, buf, told, refused>>
      PROVE  IInv'
  <2> DEFINE new == Relations(In(cur[1]))
  <2>1. /\ \A r \in new : r.object \in Objects /\ catalog[r.object] # "absent" /\ Named(r.object)
                          /\ r.object[1] = cur[1]
                          /\ r.as = IF r.object \in views THEN "view" ELSE "table"
        /\ \A o \in In(cur[1]) : \E r \in new :
              r.object = o /\ r.as = IF o \in views THEN "view" ELSE "table"
    <3>1. /\ \A r \in new :
                r.object \in In(cur[1]) /\ r.as = IF r.object \in views THEN "view" ELSE "table"
          /\ \A o \in In(cur[1]) : \E r \in new :
                r.object = o /\ r.as = IF o \in views THEN "view" ELSE "table"
      BY RelationsAre
    <3>2. \A o \in In(cur[1]) :
             o \in Objects /\ catalog[o] # "absent" /\ Named(o) /\ o[1] = cur[1]
      BY DEF In, There
    <3> HIDE DEF new
    <3> QED BY <3>1, <3>2
  <2> HIDE DEF new
  <2>2. rels' = rels \cup new
    BY <1>2 DEF new
  <2>3. TypesOK'
    <3>1. \A r \in rels' : r.object \in Objects /\ Named(r.object)' /\ r.as \in Kinds
      BY <2>1, <2>2, SameIs, <1>1 DEF IInv, TypesOK, Kinds
    <3> QED BY <1>1, <1>2, <3>1, SameIs DEF IInv, TypesOK, Places
  <2>4. PlaceOK'
    BY <1>1, <1>2, SameIs DEF IInv, PlaceOK
  <2>5. RelsOK' /\ DropsOK'
    <3>1. ASSUME changes = 0, NEW r \in new PROVE catalog[r.object] = r.as
      <4>1. <<r.object, catalog[r.object]>> \in stayed
        BY <2>1, <3>1, PresentIs DEF IInv, WorldOK
      <4>2. catalog[r.object] \in Kinds
        BY <2>1 DEF IInv, TypesOK
      <4>3. r.object \in views <=> catalog[r.object] = "view"
        BY <1>1, <2>1, <4>1, <4>2 DEF IInv, ListedOK
      <4> QED BY <2>1, <4>2, <4>3 DEF Kinds
    <3> QED BY <1>1, <1>2, <2>1, <2>2, <3>1, SameIs DEF IInv, RelsOK, DropsOK
  <2>6. TruthOK' /\ WholeOK' /\ ListedOK'
    <3>1. TruthOK'
      BY <1>1, <1>2 DEF TruthOK
    <3>2. WholeOK'
      BY <1>1, <1>2, SameIs DEF IInv, WholeOK, Describing
    <3>3. ListedOK'
      BY <1>2 DEF ListedOK
    <3> QED BY <3>1, <3>2, <3>3
  <2>7. DebtOK'
    <3>1. ASSUME NEW o \in Objects, NEW k \in Telling, <<o, k>> \in stayed, Named(o), NEW p,
                 Pending(o, p)
          PROVE  Pending(o, p)'
      <4>1. CASE o[1] = cur[1]
        <5>1. k \in Kinds /\ catalog[o] = k /\ k # "absent"
          BY <3>1, StayedIs DEF IInv, Kinds
        <5>2. o \in In(cur[1])
          BY <3>1, <4>1, <5>1 DEF In, There
        <5>3. o \in views <=> k = "view"
          BY <1>1, <3>1, <4>1, <5>1 DEF IInv, ListedOK
        <5>4. PICK r \in new : r.object = o /\ r.as = k
          BY <2>1, <5>1, <5>2, <5>3 DEF Kinds
        <5>5. Asked(r)' /\ r \in rels'
          BY <1>1, <2>2, <5>4, SameIs DEF Asked
        <5> QED BY <5>4, <5>5 DEF Pending
      <4>2. CASE o[1] # cur[1]
        BY <1>1, <1>2, <2>2, <3>1, <4>2, SameIs DEF Pending, Asked
      <4> QED BY <4>1, <4>2
    <3> QED BY <1>1, <1>2, <3>1, SameIs DEF IInv, DebtOK, Over
  <2> QED BY <1>1, <2>3, <2>4, <2>5, <2>6, <2>7, WorldStays DEF IInv
<1>3. CASE /\ Ends("failed")
           /\ \/ UNCHANGED faulted
              \/ (canceled \/ "service" \in Faults) /\ faulted' = (faulted \/ ~canceled)
  BY <1>1, <1>3, OfDatabaseFails
<1> QED BY <1>2, <1>3 DEF ListTables, OfDatabase, Statement

\* What a statement answers is there, and asked for.
LEMMA RowsTrue ==
    ASSUME IInv, NEW os, NEW of \in SUBSET Parts,
           \A o \in os : o \in Objects /\ Named(o) /\ catalog[o] \in Telling
    PROVE  \A x \in Rows(os, of) : \E o \in Objects : \E k \in Telling : \E p \in Parts :
              x = <<<<o, k>>, p>> /\ <<o, k>> \in seen /\ Named(o)
<1> SUFFICES ASSUME NEW x \in Rows(os, of)
             PROVE  \E o \in Objects : \E k \in Telling : \E p \in Parts :
                       x = <<<<o, k>>, p>> /\ <<o, k>> \in seen /\ Named(o)
  OBVIOUS
<1>1. PICK o \in os : \E p \in of : x = <<<<o, catalog[o]>>, p>>
  BY RowsIs
<1>2. PICK p \in of : x = <<<<o, catalog[o]>>, p>>
  BY <1>1
<1>3. catalog[o] \in Kinds
  BY Tells DEF IInv, TypesOK
<1>4. <<o, catalog[o]>> \in seen
  BY <1>3, PresentIs DEF IInv, WorldOK, Kinds
<1> QED BY <1>2, <1>4

\* And all of it.
LEMMA RowsWhole ==
    ASSUME NEW os
    PROVE  \A x \in Rows(os, Parts) : \A p \in Parts : <<x[1], p>> \in Rows(os, Parts)
<1> SUFFICES ASSUME NEW x \in Rows(os, Parts), NEW p \in Parts
             PROVE  <<x[1], p>> \in Rows(os, Parts)
  OBVIOUS
<1>1. PICK o \in os : \E q \in Parts : x = <<<<o, catalog[o]>>, q>>
  BY RowsIs
<1>2. x[1] = <<o, catalog[o]>>
  BY <1>1
<1> QED BY <1>2, RowsIs

\* The objects of a database, and all objects, are asked for by such a walk.
LEMMA AllTold ==
    ASSUME IInv, walk \notin {"impala.Views", "impala.ColumnStats"},
           NEW o \in There
    PROVE  o \in Objects /\ catalog[o] \in Telling
BY Tells DEF There, IInv, TypesOK

LEMMA AskDatabaseKeeps == ASSUME IInv, AskDatabase PROVE IInv'
<1>1. Same /\ pc = "database" /\ walk \notin Describing /\ walk \notin Flat /\ walk \in Walks
      /\ rels = {} /\ walk \notin Streaming
  BY DEF AskDatabase, OfDatabase, Same, IInv, PlaceOK, TypesOK, Streaming, Describing, Flat
<1>2. ASSUME NEW d \in todo, UNCHANGED faulted,
             /\ buf' = buf \cup Rows(In(d), IF walk = "influxql.Columns" THEN {1} ELSE Parts)
             /\ todo' = todo \ {d}
             /\ pc' = CASE walk = "influxql.Columns" -> "tags"
                        [] walk = "influxql.Tables"  -> "database"
                        [] OTHER                     -> "yield"
             /\ cur' = IF walk = "influxql.Columns" THEN <<d>> ELSE None
             /\ UNCHANGED <<views, rels, told, refused>>
      PROVE  IInv'
  <2> DEFINE of == IF walk = "influxql.Columns" THEN {1} ELSE Parts
             new == Rows(In(d), of)
  <2>1. walk \in {"impala.Functions", "influxql.Tables", "influxql.Columns"}
    BY <1>1 DEF Walks, Describing, Flat
  <2>2. /\ walk = "influxql.Columns" => pc' = "tags" /\ cur'[1] = d
        /\ walk = "influxql.Tables" => pc' = "database"
        /\ walk = "impala.Functions" => pc' = "yield"
        /\ d \in AllDbs
    BY <1>2, <2>1 DEF IInv, PlaceOK
  <2>3. of \in SUBSET Parts /\ Parts = {1, 2}
    BY DEF Parts
  <2>4. \A o \in In(d) : o \in Objects /\ Named(o) /\ catalog[o] \in Telling
    BY <2>1, AllTold DEF In
  <2> HIDE DEF of
  <2>5. \A x \in new : \E o \in Objects : \E k \in Telling : \E p \in Parts :
              x = <<<<o, k>>, p>> /\ <<o, k>> \in seen /\ Named(o)
    BY <2>3, <2>4, RowsTrue
  <2>6. walk # "influxql.Columns" =>
          \A x \in new : \A p \in Parts : <<x[1], p>> \in new
    BY RowsWhole DEF of
  <2>7. \A o \in Objects, k \in Telling, p \in of :
          <<o, k>> \in stayed /\ Named(o) /\ o[1] = d => <<<<o, k>>, p>> \in new
    <3> SUFFICES ASSUME NEW o \in Objects, NEW k \in Telling, NEW p \in of,
                        <<o, k>> \in stayed, Named(o), o[1] = d
                 PROVE  <<<<o, k>>, p>> \in new
      OBVIOUS
    <3>1. catalog[o] = k /\ k # "absent"
      BY StayedIs DEF IInv, Kinds
    <3> QED BY <3>1, RowsIs DEF In, There
  <2> HIDE DEF new
  <2>8. buf' = buf \cup new
    BY <1>2 DEF new, of
  <2>9. TypesOK'
    BY <1>1, <1>2, <2>1, <2>2, SameIs DEF IInv, TypesOK, Places
  <2>10. PlaceOK'
    BY <1>1, <1>2, <2>1, <2>2, SameIs DEF IInv, PlaceOK
  <2>11. RelsOK' /\ DropsOK' /\ ListedOK'
    BY <1>1, <1>2, <2>1, <2>2, SameIs DEF IInv, RelsOK, DropsOK, ListedOK
  <2>12. TruthOK'
    BY <1>1, <2>5, <2>8, SameIs DEF IInv, TruthOK
  <2>13. WholeOK'
    BY <1>1, <1>2, <2>1, <2>2, <2>6, <2>8, SameIs DEF IInv, WholeOK
  <2>14. DebtOK'
    <3>1. ASSUME NEW o \in Objects, NEW k \in Telling, <<o, k>> \in stayed, Named(o),
                 NEW p \in Parts, Pending(o, p)
          PROVE  <<<<o, k>>, p>> \in new \/ Pending(o, p)'
      <4>1. o[1] \in todo
        BY <1>1, <3>1 DEF Pending
      <4>2. CASE o[1] = d
        BY <2>1, <2>2, <2>3, <2>7, <3>1, <4>2 DEF Pending, of
      <4>3. CASE o[1] # d
        BY <1>2, <4>1, <4>3 DEF Pending
      <4> QED BY <4>2, <4>3
    <3> QED BY <1>1, <1>2, <2>8, <3>1, SameIs DEF IInv, DebtOK, Over
  <2> QED BY <1>1, <2>9, <2>10, <2>11, <2>12, <2>13, <2>14, WorldStays DEF IInv
<1>3. CASE /\ Ends("failed")
           /\ \/ UNCHANGED faulted
              \/ (canceled \/ "service" \in Faults) /\ faulted' = (faulted \/ ~canceled)
  BY <1>1, <1>3, OfDatabaseFails
<1> QED BY <1>2, <1>3 DEF AskDatabase, OfDatabase, Statement

LEMMA AskTagsKeeps == ASSUME IInv, AskTags PROVE IInv'
<1>1. Same /\ pc = "tags" /\ walk = "influxql.Columns" /\ rels = {}
  BY DEF AskTags, OfDatabase, Same, IInv, PlaceOK, Describing
<1>2. ASSUME UNCHANGED faulted,
             /\ buf' = buf \cup Rows(In(cur[1]), {2})
             /\ pc' = "yield" /\ cur' = None
             /\ UNCHANGED <<todo, views, rels, told, refused>>
      PROVE  IInv'
  <2> DEFINE new == Rows(In(cur[1]), {2})
  <2>1. \A o \in In(cur[1]) : o \in Objects /\ Named(o) /\ catalog[o] \in Telling
    BY <1>1, AllTold DEF In
  <2>2. {2} \in SUBSET Parts
    BY DEF Parts
  <2>3. \A x \in new : \E o \in Objects : \E k \in Telling : \E p \in Parts :
              x = <<<<o, k>>, p>> /\ <<o, k>> \in seen /\ Named(o)
    BY <2>1, <2>2, RowsTrue
  <2>4. \A o \in Objects, k \in Telling :
          <<o, k>> \in stayed /\ Named(o) /\ o[1] = cur[1] => <<<<o, k>>, 2>> \in new
    <3> SUFFICES ASSUME NEW o \in Objects, NEW k \in Telling,
                        <<o, k>> \in stayed, Named(o), o[1] = cur[1]
                 PROVE  <<<<o, k>>, 2>> \in new
      OBVIOUS
    <3>1. catalog[o] = k /\ k # "absent"
      BY StayedIs DEF IInv, Kinds
    <3> QED BY <3>1, RowsIs DEF In, There
  <2> HIDE DEF new
  <2>5. buf' = buf \cup new
    BY <1>2 DEF new
  <2>6. TypesOK'
    BY <1>1, <1>2, SameIs DEF IInv, TypesOK, Places
  <2>7. PlaceOK'
    BY <1>1, <1>2, SameIs DEF IInv, PlaceOK, Describing
  <2>8. RelsOK' /\ DropsOK' /\ ListedOK' /\ WholeOK'
    BY <1>1, <1>2, SameIs DEF IInv, RelsOK, DropsOK, ListedOK, WholeOK
  <2>9. TruthOK'
    BY <1>1, <2>3, <2>5, SameIs DEF IInv, TruthOK
  <2>10. DebtOK'
    <3>1. ASSUME NEW o \in Objects, NEW k \in Telling, <<o, k>> \in stayed, Named(o),
                 NEW p \in Parts, Pending(o, p)
          PROVE  <<<<o, k>>, p>> \in new \/ Pending(o, p)'
      <4>1. o[1] \in todo \/ (o[1] = cur[1] /\ p = 2)
        BY <1>1, <3>1 DEF Pending
      <4> QED BY <1>2, <2>4, <3>1, <4>1 DEF Pending
    <3> QED BY <1>1, <1>2, <2>5, <3>1, SameIs DEF IInv, DebtOK, Over
  <2> QED BY <1>1, <2>6, <2>7, <2>8, <2>9, <2>10, WorldStays DEF IInv
<1>3. CASE /\ Ends("failed")
           /\ \/ UNCHANGED faulted
              \/ (canceled \/ "service" \in Faults) /\ faulted' = (faulted \/ ~canceled)
  BY <1>1, <1>3, OfDatabaseFails
<1> QED BY <1>2, <1>3 DEF AskTags, OfDatabase, Statement

LEMMA ListKeeps == ASSUME IInv, List PROVE IInv'
<1>0. DEFINE all == {o \in There : Named(o)}
<1>1. Same /\ pc = "list" /\ walk \in Flat /\ walk \in Walks /\ todo = {}
      /\ walk \notin {"impala.Views", "impala.ColumnStats"}
  BY Tells DEF List, Same, IInv, PlaceOK, TypesOK
<1>2. \A o \in all : o \in Objects /\ Named(o) /\ catalog[o] \in Telling
                      /\ catalog[o] # "absent"
  BY <1>1, AllTold DEF There
<1>3. \A o \in Objects, k \in Telling :
         <<o, k>> \in stayed /\ Named(o) => o \in all /\ catalog[o] = k
  BY StayedIs DEF IInv, There, Kinds
<1> HIDE DEF all
<1>4. ASSUME walk = "elasticsearch", UNCHANGED faulted,
             buf' = Rows(all, Parts) /\ pc' = "yield"
             /\ UNCHANGED <<cur, todo, views, rels, told, refused>>
      PROVE  IInv'
  <2>1. TypesOK' /\ PlaceOK'
    BY <1>1, <1>4, SameIs DEF IInv, TypesOK, PlaceOK, Places, Describing
  <2>2. RelsOK' /\ DropsOK' /\ ListedOK' /\ WholeOK'
    BY <1>1, <1>4, SameIs DEF IInv, RelsOK, DropsOK, ListedOK, WholeOK, Streaming
  <2>3. TruthOK'
    <3>1. Parts \in SUBSET Parts
      OBVIOUS
    <3>2. \A x \in buf' : \E o \in Objects : \E k \in Telling : \E p \in Parts :
             x = <<<<o, k>>, p>> /\ <<o, k>> \in seen /\ Named(o)
      BY <1>2, <1>4, <3>1, RowsTrue
    <3> QED BY <1>1, <3>2, SameIs DEF TruthOK
  <2>4. DebtOK'
    <3>1. ASSUME NEW o \in Objects, NEW k \in Telling, <<o, k>> \in stayed, Named(o),
                 NEW p \in Parts
          PROVE  <<<<o, k>>, p>> \in buf'
      BY <1>3, <1>4, <3>1, RowsIs
    <3> QED BY <1>1, <3>1, SameIs DEF DebtOK
  <2> QED BY <1>1, <2>1, <2>2, <2>3, <2>4, WorldStays DEF IInv
<1>5. ASSUME walk # "elasticsearch", UNCHANGED faulted,
             rels' = Relations(all) /\ pc' = "describe"
             /\ UNCHANGED <<cur, todo, views, buf, told, refused>>
      PROVE  IInv'
  <2>1. /\ walk \in Describing /\ buf = {}
        /\ \A r \in rels' : r.object \in all /\ r.as \in Kinds
        /\ \A o \in all : \E r \in rels' : r.object = o
    <3>1. walk \in Describing
      BY <1>1, <1>5 DEF Flat, Describing
    <3> QED BY <1>1, <1>5, <3>1, RelationsAre DEF IInv, PlaceOK, Kinds
  <2>2. TypesOK' /\ PlaceOK'
    BY <1>1, <1>2, <1>5, <2>1, SameIs DEF IInv, TypesOK, PlaceOK, Places
  <2>3. RelsOK' /\ DropsOK' /\ ListedOK' /\ TruthOK'
    BY <1>1, <1>2, <1>5, <2>1, SameIs DEF IInv, RelsOK, DropsOK, ListedOK, TruthOK
  <2>4. WholeOK'
    BY <1>1, <1>5, SameIs DEF IInv, WholeOK
  <2>5. DebtOK'
    <3>1. ASSUME NEW o \in Objects, NEW k \in Telling, <<o, k>> \in stayed, Named(o),
                 NEW p \in Parts
          PROVE  Pending(o, p)'
      BY <1>1, <1>3, <2>1, <3>1, SameIs DEF Pending, Asked
    <3> QED BY <1>1, <3>1, SameIs DEF DebtOK
  <2> QED BY <1>1, <2>2, <2>3, <2>4, <2>5, WorldStays DEF IInv
<1>6. CASE /\ Ends("failed")
           /\ (canceled \/ "service" \in Faults) /\ faulted' = (faulted \/ ~canceled)
  BY <1>1, <1>6, FailedIs, FailKeeps
<1> QED BY <1>1, <1>4, <1>5, <1>6 DEF List, Statement, all

LEMMA ListedKeeps == ASSUME IInv, Listed PROVE IInv'
<1>1. /\ Same /\ pc = "database" /\ todo = {} /\ walk \notin Flat
      /\ UNCHANGED <<cur, todo, views, rels, buf, told, refused, faulted>>
      /\ pc' = IF walk \in Describing THEN "describe" ELSE "yield"
  BY DEF Listed, Goes, Same, IInv, PlaceOK
<1>2. TypesOK' /\ PlaceOK'
  BY <1>1, SameIs DEF IInv, TypesOK, PlaceOK, Places
<1>3. RelsOK' /\ DropsOK' /\ ListedOK' /\ TruthOK'
  BY <1>1, SameIs DEF IInv, RelsOK, DropsOK, ListedOK, TruthOK
<1>4. WholeOK'
  BY <1>1, SameIs DEF IInv, WholeOK
<1>5. DebtOK'
  <2>1. ASSUME NEW o, NEW p, Pending(o, p) PROVE Pending(o, p)'
    BY <1>1, <2>1, SameIs DEF Pending, Asked
  <2> QED BY <1>1, <2>1, SameIs DEF IInv, DebtOK, Over
<1> QED BY <1>1, <1>2, <1>3, <1>4, <1>5, WorldStays DEF IInv

LEMMA PassOverKeeps == ASSUME IInv, PassOver PROVE IInv'
<1>1. /\ Same /\ pc = "describe" /\ walk \in Walks
      /\ UNCHANGED <<pc, cur, todo, views, buf, told, refused, faulted>>
  BY DEF PassOver, Same, IInv, TypesOK
<1>2. PICK r \in rels : rels' = rels \ {r} /\ ~Asked(r)
  BY DEF PassOver, Asked, Telling
<1>4. TypesOK' /\ PlaceOK'
  BY <1>1, <1>2, SameIs DEF IInv, TypesOK, PlaceOK, Places
<1>5. RelsOK' /\ DropsOK' /\ ListedOK' /\ TruthOK'
  BY <1>1, <1>2, SameIs DEF IInv, RelsOK, DropsOK, ListedOK, TruthOK
<1>6. WholeOK'
  BY <1>1, SameIs DEF IInv, WholeOK
<1>7. DebtOK'
  <2>1. ASSUME NEW o, NEW p, Pending(o, p) PROVE Pending(o, p)'
    BY <1>1, <1>2, <2>1, SameIs DEF Pending, Asked
  <2> QED BY <1>1, <2>1, SameIs DEF IInv, DebtOK, Over
<1> QED BY <1>1, <1>4, <1>5, <1>6, <1>7, WorldStays DEF IInv

\* A statement about a relation that failed.
LEMMA RefusedIs ==
    ASSUME NEW r, Refused(r)
    PROVE  \/ /\ walk = "tablestore" /\ pc' = "relist" /\ cur' = r.object
              /\ UNCHANGED <<todo, views, rels, buf, told, refused>>
           \/ /\ walk = "opensearch" /\ ~canceled
              /\ rels' = rels \ {r} /\ refused' = refused \cup {r.object}
              /\ UNCHANGED <<pc, cur, todo, views, buf, told>>
           \/ walk # "tablestore" /\ Ends("failed")
BY DEF Refused

LEMMA RefusedKeeps ==
    ASSUME IInv, Same, pc = "describe", NEW r \in rels, Asked(r), Refused(r),
           faulted' \in BOOLEAN,
           ~Answers(r) \/ faulted' \/ canceled
    PROVE  IInv'
<1>1. /\ walk \in Walks /\ changes \in Nat /\ r.object \in Objects /\ walk \in Describing
      /\ buf = {} /\ Kinds = {"table", "view"}
      /\ catalog \in [Objects -> Kinds \cup {"absent"}]
  BY DEF IInv, TypesOK, PlaceOK, Kinds
<1>2. CASE /\ walk = "tablestore" /\ pc' = "relist" /\ cur' = r.object
           /\ UNCHANGED <<todo, views, rels, buf, told, refused>>
  <2>1. TypesOK' /\ PlaceOK'
    BY <1>1, <1>2, SameIs DEF IInv, TypesOK, PlaceOK, Places
  <2>2. RelsOK'
    <3>1. Trouble'
      BY <1>1, NotAnswered, SameIs DEF Trouble
    <3> QED BY <1>2, <3>1, SameIs DEF IInv, RelsOK
  <2>3. DropsOK'
    <3>1. ~Answers(r) => catalog[r.object] = "absent"
      BY <1>1, <1>2, Tells DEF Answers
    <3> QED BY <1>2, <3>1, SameIs DEF DropsOK
  <2>4. ListedOK' /\ TruthOK' /\ WholeOK'
    BY <1>1, <1>2, SameIs DEF IInv, ListedOK, TruthOK, WholeOK
  <2>5. DebtOK'
    <3>1. ASSUME NEW o, NEW p, Pending(o, p) PROVE Pending(o, p)'
      BY <1>2, <3>1, SameIs DEF Pending, Asked
    <3> QED BY <1>2, <3>1, SameIs DEF IInv, DebtOK, Over
  <2> QED BY <2>1, <2>2, <2>3, <2>4, <2>5, WorldStays DEF IInv
<1>3. CASE /\ walk = "opensearch" /\ ~canceled
           /\ rels' = rels \ {r} /\ refused' = refused \cup {r.object}
           /\ UNCHANGED <<pc, cur, todo, views, buf, told>>
  <2>1. TypesOK' /\ PlaceOK'
    BY <1>1, <1>3, SameIs DEF IInv, TypesOK, PlaceOK, Places
  <2>2. RelsOK' /\ DropsOK' /\ ListedOK' /\ TruthOK' /\ WholeOK'
    BY <1>1, <1>3, SameIs DEF IInv, RelsOK, DropsOK, ListedOK, TruthOK, WholeOK
  <2>3. DebtOK'
    <3>1. ASSUME NEW o, NEW p, Pending(o, p) PROVE o \in refused' \/ Pending(o, p)'
      BY <1>3, <3>1, SameIs DEF Pending, Asked
    <3> QED BY <1>3, <3>1, SameIs DEF IInv, DebtOK, Over
  <2> QED BY <2>1, <2>2, <2>3, WorldStays DEF IInv
<1>4. CASE walk # "tablestore" /\ Ends("failed")
  BY <1>4, FailKeeps
<1> QED BY <1>2, <1>3, <1>4, RefusedIs

LEMMA DescribeKeeps == ASSUME IInv, Describe PROVE IInv'
<1>1. Same /\ pc = "describe" /\ walk \in Walks /\ walk \in Describing
      /\ buf = {} /\ todo = {} /\ faulted \in BOOLEAN
  BY DEF Describe, Same, IInv, TypesOK, PlaceOK
<1>2. PICK r \in rels :
         /\ Asked(r)
         /\ Statement(IF ~Answers(r) THEN Refused(r)
                      ELSE /\ buf' = Rows({r.object}, Parts)
                           /\ rels' = rels \ {r} /\ pc' = "yield"
                           /\ UNCHANGED <<cur, todo, views, told, refused>>,
                      Refused(r))
  BY DEF Describe
<1>3. ASSUME Answers(r), buf' = Rows({r.object}, Parts), rels' = rels \ {r}, pc' = "yield",
             UNCHANGED <<cur, todo, views, told, refused, faulted>>
      PROVE  IInv'
  <2>1. r.object \in Objects /\ Named(r.object) /\ catalog[r.object] \in Telling
    BY <1>3 DEF IInv, TypesOK, Answers
  <2>2. TypesOK'
    BY <1>1, <1>3, SameIs DEF IInv, TypesOK, Places
  <2>3. PlaceOK'
    <3>1. walk \notin {"impala.Functions", "influxql.Columns"}
      BY <1>1 DEF Describing
    <3> QED BY <1>1, <1>3, <3>1, SameIs DEF IInv, PlaceOK
  <2>4. RelsOK' /\ DropsOK' /\ ListedOK'
    BY <1>1, <1>3, SameIs DEF IInv, RelsOK, DropsOK, ListedOK
  <2>5. TruthOK'
    <3>1. Parts \in SUBSET Parts
      OBVIOUS
    <3>2. \A o \in {r.object} : o \in Objects /\ Named(o) /\ catalog[o] \in Telling
      BY <2>1
    <3>3. \A x \in buf' : \E o \in Objects : \E k \in Telling : \E p \in Parts :
             x = <<<<o, k>>, p>> /\ <<o, k>> \in seen /\ Named(o)
      BY <1>3, <3>1, <3>2, RowsTrue
    <3> QED BY <1>1, <3>3, SameIs DEF TruthOK
  <2>6. WholeOK'
    <3>1. \A x \in buf' : \A p \in Parts : <<x[1], p>> \in buf'
      BY <1>3, RowsWhole
    <3> QED BY <1>1, <1>3, <3>1, SameIs DEF IInv, WholeOK
  <2>7. DebtOK'
    <3>1. ASSUME NEW o \in Objects, NEW k \in Telling, <<o, k>> \in stayed, NEW p \in Parts,
                 Pending(o, p)
          PROVE  <<<<o, k>>, p>> \in buf' \/ Pending(o, p)'
      <4>1. CASE o = r.object
        BY <1>3, <3>1, <4>1, RowsIs, StayedIs DEF IInv
      <4>2. CASE o # r.object
        BY <1>1, <1>3, <3>1, <4>2, SameIs DEF Pending, Asked
      <4> QED BY <4>1, <4>2
    <3> QED BY <1>1, <1>3, <3>1, SameIs DEF IInv, DebtOK, Over
  <2> QED BY <1>1, <2>2, <2>3, <2>4, <2>5, <2>6, <2>7, WorldStays DEF IInv
<1>4. ASSUME ~Answers(r), Refused(r), UNCHANGED faulted PROVE IInv'
  BY <1>1, <1>2, <1>4, RefusedKeeps
<1>5. ASSUME Refused(r), canceled \/ "service" \in Faults, faulted' = (faulted \/ ~canceled)
      PROVE  IInv'
  BY <1>1, <1>2, <1>5, FailedIs, RefusedKeeps
<1> QED BY <1>2, <1>3, <1>4, <1>5 DEF Statement

LEMMA GarbledKeeps == ASSUME IInv, Garbled PROVE IInv'
<1>1. Same /\ pc = "describe" /\ Ends("failed") /\ faulted' = TRUE
  BY DEF Garbled, Same
<1> QED BY <1>1, FailKeeps

LEMMA RelistKeeps == ASSUME IInv, Relist PROVE IInv'
<1>1. Same /\ pc = "relist" /\ walk = "tablestore" /\ faulted \in BOOLEAN /\ walk \in Describing
      /\ buf = {}
  BY DEF Relist, Same, IInv, TypesOK, PlaceOK
<1>2. ASSUME catalog[cur] # "absent", Ends("failed"), UNCHANGED faulted PROVE IInv'
  <2>1. faulted \/ canceled \/ remade # {}
    BY <1>1, <1>2 DEF IInv, DropsOK
  <2> QED BY <1>1, <1>2, <2>1, FailKeeps
<1>3. ASSUME catalog[cur] = "absent", UNCHANGED faulted,
             rels' = {r \in rels : r.object # cur} /\ pc' = "describe" /\ cur' = None
             /\ UNCHANGED <<todo, views, buf, told, refused>>
      PROVE  IInv'
  <2>1. TypesOK' /\ PlaceOK'
    BY <1>1, <1>3, SameIs DEF IInv, TypesOK, PlaceOK, Places
  <2>2. RelsOK' /\ DropsOK' /\ ListedOK' /\ TruthOK' /\ WholeOK'
    BY <1>1, <1>3, SameIs DEF IInv, RelsOK, DropsOK, ListedOK, TruthOK, WholeOK
  <2>3. DebtOK'
    <3>1. ASSUME NEW o, NEW k, <<o, k>> \in stayed, NEW p, Pending(o, p)
          PROVE  Pending(o, p)'
      <4>1. o # cur
        BY <1>3, <3>1, StayedIs DEF IInv, Kinds
      <4> QED BY <1>1, <1>3, <3>1, <4>1, SameIs DEF Pending, Asked
    <3> QED BY <1>1, <1>3, <3>1, SameIs DEF IInv, DebtOK, Over
  <2> QED BY <1>1, <2>1, <2>2, <2>3, WorldStays DEF IInv
<1>4. CASE /\ Ends("failed")
           /\ (canceled \/ "service" \in Faults) /\ faulted' = (faulted \/ ~canceled)
  BY <1>1, <1>4, FailedIs, FailKeeps
<1> QED BY <1>1, <1>2, <1>3, <1>4 DEF Relist, Statement

LEMMA YieldKeeps == ASSUME IInv, Yield PROVE IInv'
<1>1. /\ Same /\ pc = "yield" /\ pc' \in {"yield", "stopped"}
      /\ UNCHANGED <<cur, todo, views, rels, refused, faulted>>
  BY DEF Yield, Same
<1>2. PICK row \in buf : told' = told \cup {row} /\ buf' = buf \ {row}
  BY DEF Yield
<1>3. TypesOK' /\ PlaceOK'
  BY <1>1, SameIs DEF IInv, TypesOK, PlaceOK, Places
<1>4. RelsOK' /\ DropsOK' /\ ListedOK'
  BY <1>1, SameIs DEF IInv, RelsOK, DropsOK, ListedOK
<1>5. TruthOK'
  BY <1>1, <1>2, SameIs DEF IInv, TruthOK
<1>6. (told \cup buf)' = told \cup buf
  BY <1>2
<1>7. WholeOK'
  BY <1>1, <1>6, SameIs DEF IInv, WholeOK
<1>8. DebtOK'
  <2>1. ASSUME NEW o, NEW p, Pending(o, p) PROVE Pending(o, p)'
    BY <1>1, <2>1, SameIs DEF Pending, Asked
  <2> QED BY <1>1, <1>6, <2>1, SameIs DEF IInv, DebtOK, Over
<1> QED BY <1>1, <1>3, <1>4, <1>5, <1>7, <1>8, WorldStays DEF IInv

LEMMA RowsFailKeeps == ASSUME IInv, RowsFail PROVE IInv'
<1>1. Same /\ pc = "yield" /\ walk \in Streaming /\ Ends("failed")
      /\ (canceled \/ "service" \in Faults) /\ faulted' = (faulted \/ ~canceled)
  BY DEF RowsFail, Same
<1> QED BY <1>1, FailedIs, FailKeeps

LEMMA YieldedKeeps == ASSUME IInv, Yielded PROVE IInv'
<1>1. /\ Same /\ pc = "yield" /\ buf = {} /\ walk \in Walks
      /\ UNCHANGED <<cur, todo, views, rels, buf, told, refused, faulted>>
      /\ pc' \in {"describe", "database", "done"}
      /\ pc' = "describe" <=> walk \in Describing
      /\ pc' = "database" => walk \in {"impala.Functions", "influxql.Columns"}
      /\ walk \in {"impala.Functions", "influxql.Columns"} =>
            walk \notin Describing /\ walk \notin Flat
  BY DEF Yielded, Goes, Same, Describing, Flat, IInv, TypesOK
<1>2. TypesOK' /\ PlaceOK'
  BY <1>1, SameIs DEF IInv, TypesOK, PlaceOK, Places
<1>3. RelsOK' /\ DropsOK' /\ ListedOK' /\ TruthOK' /\ WholeOK'
  BY <1>1, SameIs DEF IInv, RelsOK, DropsOK, ListedOK, TruthOK, WholeOK
<1>4. DebtOK'
  <2>1. ASSUME NEW o, NEW p, Pending(o, p) PROVE Pending(o, p)'
    BY <1>1, <2>1, SameIs DEF Pending, Asked
  <2> QED BY <1>1, <2>1, SameIs DEF IInv, DebtOK, Over
<1> QED BY <1>1, <1>2, <1>3, <1>4, WorldStays DEF IInv

LEMMA FinishKeeps == ASSUME IInv, Finish PROVE IInv'
<1>1. /\ Same /\ pc = "describe" /\ buf = {} /\ pc' = "done"
      /\ UNCHANGED <<todo, views, rels, buf, told, refused, faulted>>
  BY DEF Finish, Ends, Same, IInv, PlaceOK
<1>2. TypesOK' /\ PlaceOK'
  BY <1>1, SameIs DEF IInv, TypesOK, PlaceOK, Places
<1>3. RelsOK' /\ DropsOK' /\ ListedOK' /\ TruthOK' /\ WholeOK' /\ DebtOK'
  BY <1>1, SameIs DEF IInv, RelsOK, DropsOK, ListedOK, TruthOK, WholeOK, DebtOK, Over
<1> QED BY <1>1, <1>2, <1>3, WorldStays DEF IInv

---------------------------------------------------------------------------
(* The invariant holds. *)

LEMMA InitHolds == Init => IInv
<1> SUFFICES ASSUME Init PROVE IInv
  OBVIOUS
<1>1. /\ walk \in Walks /\ catalog \in [Objects -> Kinds \cup {"absent"}]
      /\ pc \in {"done", "list", "databases"}
      /\ pc = "list" => walk \in Flat
      /\ pc = "databases" => walk \notin Flat
      /\ dbs = AllDbs /\ seen = Present(catalog) /\ stayed = Present(catalog)
      /\ canceled = FALSE /\ faulted = FALSE /\ changes = 0
      /\ todo = {} /\ rels = {} /\ buf = {} /\ told = {}
  BY DEF Init, AllDbs
<1>2. TypesOK /\ WorldOK /\ PlaceOK /\ TruthOK
  BY <1>1 DEF TypesOK, WorldOK, PlaceOK, TruthOK, Places, AllDbs
<1>3. RelsOK /\ ListedOK /\ DebtOK /\ WholeOK /\ DropsOK
  BY <1>1 DEF RelsOK, ListedOK, DebtOK, WholeOK, DropsOK, Pending, Over
<1> QED BY <1>2, <1>3 DEF IInv

LEMMA NextKeeps == ASSUME IInv, [Next]_vars PROVE IInv'
<1>1. CASE UNCHANGED vars
  <2>1. UNCHANGED <<faulted, pc, cur, todo, views, rels, buf, told, refused>> /\ Same
    BY <1>1 DEF vars, Same, world
  <2>2. TypesOK' /\ PlaceOK' /\ TruthOK'
    BY <2>1, SameIs DEF IInv, TypesOK, PlaceOK, TruthOK
  <2>3. RelsOK' /\ ListedOK' /\ WholeOK' /\ DropsOK'
    BY <2>1, SameIs DEF IInv, RelsOK, Trouble, ListedOK, WholeOK, DropsOK
  <2>4. DebtOK'
    <3>1. ASSUME NEW o, NEW p, Pending(o, p) PROVE Pending(o, p)'
      BY <2>1, <3>1, SameIs DEF Pending, Asked
    <3> QED BY <2>1, <3>1, SameIs DEF IInv, DebtOK
  <2> QED BY <2>1, <2>2, <2>3, <2>4, WorldStays DEF IInv
<1>2. CASE Step
  BY <1>2, DatabasesKeeps, ListViewsKeeps, ListTablesKeeps, AskDatabaseKeeps, AskTagsKeeps,
     ListKeeps, ListedKeeps, PassOverKeeps, DescribeKeeps, GarbledKeeps, RelistKeeps,
     YieldKeeps, RowsFailKeeps, YieldedKeeps, FinishKeeps DEF Step
<1> QED BY <1>1, <1>2, OthersKeep DEF Next

LEMMA Always == Spec => []IInv
BY InitHolds, NextKeeps, PTL DEF Spec

\* The rest of the types: what the promises of the walks say nothing of.
RestOK ==
    /\ names \in Asking /\ changes <= MaxChanges
    /\ cur \in {None} \cup {<<o[1]>> : o \in Objects} \cup Objects
    /\ views \subseteq Objects /\ remade \subseteq Objects /\ refused \subseteq Objects
    /\ rels \subseteq [object : Objects, as : Kinds]
    /\ seen \subseteq Objects \X Kinds
    /\ told \subseteq (Objects \X Kinds) \X Parts

LEMMA ItemsAre ==
    ASSUME TypesOK
    PROVE  Present(catalog) \subseteq Objects \X Kinds
BY DEF TypesOK, Present

LEMMA BufferIs ==
    ASSUME TypesOK, TruthOK
    PROVE  buf \subseteq (Objects \X Kinds) \X Parts
<1>1. Telling \subseteq Kinds
  BY Tells DEF TypesOK
<1>2. \A x \in buf : \E o \in Objects : \E k \in Telling : \E p \in Parts :
         x = <<<<o, k>>, p>> /\ <<o, k>> \in seen /\ Named(o)
  BY DEF TruthOK
<1>3. ASSUME NEW x \in buf PROVE x \in (Objects \X Kinds) \X Parts
  <2>1. PICK o \in Objects : \E k \in Telling : \E p \in Parts :
           x = <<<<o, k>>, p>> /\ <<o, k>> \in seen /\ Named(o)
    BY <1>2
  <2>2. PICK k \in Telling : \E p \in Parts :
           x = <<<<o, k>>, p>> /\ <<o, k>> \in seen /\ Named(o)
    BY <2>1
  <2>3. PICK p \in Parts : x = <<<<o, k>>, p>>
    BY <2>2
  <2> QED BY <1>1, <2>2, <2>3
<1> QED BY <1>3

LEMMA RelationsType ==
    ASSUME NEW os \in SUBSET Objects
    PROVE  Relations(os) \subseteq [object : Objects, as : Kinds]
BY DEF Relations, Kinds

\* What a walk does to the rest, whatever it asks.
LEMMA WalkRests ==
    ASSUME RestOK, IInv, Same,
           cur' \in {None, cur} \cup {<<o[1]>> : o \in Objects} \cup Objects,
           views' \subseteq Objects, refused' \subseteq Objects,
           rels' \subseteq [object : Objects, as : Kinds],
           told' \subseteq told \cup buf
    PROVE  RestOK'
<1>1. /\ names' = names /\ changes' = changes /\ remade' = remade /\ seen' = seen
  BY SameIs
<1>2. told' \subseteq (Objects \X Kinds) \X Parts
  BY BufferIs DEF RestOK, IInv
<1> QED BY <1>1, <1>2 DEF RestOK

\* What other sessions do to it.
LEMMA ChangedRests ==
    ASSUME RestOK, IInv, IInv', Changed, remade' \subseteq Objects
    PROVE  RestOK'
<1>1. seen' = seen \cup Present(catalog')
  BY DEF Changed
<1>2. Present(catalog') \subseteq Objects \X Kinds
  BY DEF IInv, TypesOK, Present
<1>3. changes' <= MaxChanges
  BY WalksAssumption DEF Changed, IInv, TypesOK
<1>4. names' = names /\ cur' = cur /\ views' = views /\ rels' = rels /\ told' = told /\ refused' = refused
  BY DEF Changed, walked
<1> QED BY <1>1, <1>2, <1>3, <1>4 DEF RestOK

\* A statement that is answered, and one that is not.
LEMMA EndsRests == ASSUME RestOK, IInv, Same, Ends("failed") \/ Ends("done") PROVE RestOK'
BY WalkRests DEF Ends, RestOK

LEMMA InDatabase ==
    ASSUME NEW d \in AllDbs
    PROVE  <<d>> \in {<<o[1]>> : o \in Objects} /\ In(d) \subseteq Objects
BY DEF AllDbs, In, There

LEMMA RefusedRests ==
    ASSUME RestOK, IInv, Same, NEW r \in rels, Refused(r)
    PROVE  RestOK'
<1>1. r.object \in Objects
  BY DEF IInv, TypesOK
<1>2. CASE Ends("failed")
  BY <1>2, EndsRests
<1>3. CASE /\ pc' = "relist" /\ cur' = r.object
           /\ UNCHANGED <<todo, views, rels, buf, told, refused>>
  BY <1>1, <1>3, WalkRests DEF RestOK
<1>4. CASE /\ rels' = rels \ {r} /\ refused' = refused \cup {r.object}
           /\ UNCHANGED <<pc, cur, todo, views, buf, told>>
  BY <1>1, <1>4, WalkRests DEF RestOK
<1> QED BY <1>2, <1>3, <1>4 DEF Refused

LEMMA StepRests == ASSUME RestOK, IInv, Step PROVE RestOK'
<1>1. /\ views \subseteq Objects /\ refused \subseteq Objects
      /\ rels \subseteq [object : Objects, as : Kinds]
      /\ todo \subseteq AllDbs
  BY DEF RestOK, IInv, PlaceOK
<1>2. CASE Databases
  <2>1. Same
    BY <1>2 DEF Databases, Same
  <2>2. CASE UNCHANGED <<cur, views, rels, buf, told, refused>>
    BY <1>1, <2>1, <2>2, WalkRests
  <2> QED BY <1>2, <2>1, <2>2, EndsRests DEF Databases, Statement
<1>3. CASE ListViews
  <2>1. PICK d \in todo :
           OfDatabase(d, /\ views' = {o \in In(d) : catalog[o] = "view"}
                         /\ todo' = todo \ {d} /\ pc' = "tables" /\ cur' = <<d>>
                         /\ UNCHANGED <<rels, buf, told, refused>>)
    BY <1>3 DEF ListViews
  <2>2. Same
    BY <2>1 DEF OfDatabase, Same
  <2>3. CASE views' = {o \in In(d) : catalog[o] = "view"} /\ cur' = <<d>>
             /\ UNCHANGED <<rels, buf, told, refused>>
    <3>1. views' \subseteq Objects /\ cur' \in {<<o[1]>> : o \in Objects}
      BY <1>1, <2>3, InDatabase
    <3> QED BY <1>1, <2>2, <2>3, <3>1, WalkRests
  <2> QED BY <2>1, <2>2, <2>3, EndsRests DEF OfDatabase, Statement
<1>4. CASE ListTables
  <2>1. Same /\ cur[1] \in AllDbs
    BY <1>4 DEF ListTables, OfDatabase, Same, IInv, PlaceOK
  <2>2. CASE /\ rels' = rels \cup Relations(In(cur[1])) /\ cur' = None /\ views' = {}
             /\ UNCHANGED <<todo, buf, told, refused>>
    <3>1. rels' \subseteq [object : Objects, as : Kinds]
      BY <1>1, <2>1, <2>2, InDatabase, RelationsType
    <3> QED BY <1>1, <2>1, <2>2, <3>1, WalkRests
  <2> QED BY <1>4, <2>1, <2>2, EndsRests DEF ListTables, OfDatabase, Statement
<1>5. CASE AskDatabase
  <2>1. PICK d \in todo :
           OfDatabase(d, /\ buf' = buf \cup Rows(In(d), IF walk = "influxql.Columns"
                                                        THEN {1} ELSE Parts)
                         /\ todo' = todo \ {d}
                         /\ pc' = CASE walk = "influxql.Columns" -> "tags"
                                    [] walk = "influxql.Tables"  -> "database"
                                    [] OTHER                     -> "yield"
                         /\ cur' = IF walk = "influxql.Columns" THEN <<d>> ELSE None
                         /\ UNCHANGED <<views, rels, told, refused>>)
    BY <1>5 DEF AskDatabase
  <2>2. Same
    BY <2>1 DEF OfDatabase, Same
  <2>3. CASE /\ cur' = IF walk = "influxql.Columns" THEN <<d>> ELSE None
             /\ UNCHANGED <<views, rels, told, refused>>
    <3>1. cur' \in {None} \cup {<<o[1]>> : o \in Objects}
      BY <1>1, <2>3, InDatabase
    <3> QED BY <1>1, <2>2, <2>3, <3>1, WalkRests
  <2> QED BY <2>1, <2>2, <2>3, EndsRests DEF OfDatabase, Statement
<1>6. CASE AskTags
  <2>1. Same
    BY <1>6 DEF AskTags, OfDatabase, Same
  <2>2. CASE cur' = None /\ UNCHANGED <<todo, views, rels, told, refused>>
    BY <1>1, <2>1, <2>2, WalkRests
  <2> QED BY <1>6, <2>1, <2>2, EndsRests DEF AskTags, OfDatabase, Statement
<1>7. CASE List
  <2>1. Same
    BY <1>7 DEF List, Same
  <2>2. CASE UNCHANGED <<cur, todo, views, rels, told, refused>>
    BY <1>1, <2>1, <2>2, WalkRests
  <2>3. CASE /\ rels' = Relations({o \in There : Named(o)})
             /\ UNCHANGED <<cur, todo, views, buf, told, refused>>
    <3>1. {o \in There : Named(o)} \in SUBSET Objects
      BY DEF There
    <3>2. rels' \subseteq [object : Objects, as : Kinds]
      BY <2>3, <3>1, RelationsType
    <3> QED BY <1>1, <2>1, <2>3, <3>2, WalkRests
  <2> QED BY <1>7, <2>1, <2>2, <2>3, EndsRests DEF List, Statement
<1>8. CASE Listed \/ PassOver \/ Yielded
  <2>1. Same /\ UNCHANGED <<cur, views, told, refused>> /\ rels' \subseteq rels
    BY <1>8 DEF Listed, PassOver, Yielded, Goes, Same
  <2> QED BY <1>1, <2>1, WalkRests
<1>9. CASE Describe
  <2>1. PICK r \in rels :
           Statement(IF ~Answers(r) THEN Refused(r)
                     ELSE /\ buf' = Rows({r.object}, Parts)
                          /\ rels' = rels \ {r} /\ pc' = "yield"
                          /\ UNCHANGED <<cur, todo, views, told, refused>>,
                     Refused(r))
    BY <1>9 DEF Describe
  <2>2. Same
    BY <1>9 DEF Describe, Same
  <2>3. CASE rels' = rels \ {r} /\ UNCHANGED <<cur, todo, views, told, refused>>
    BY <1>1, <2>2, <2>3, WalkRests
  <2> QED BY <2>1, <2>2, <2>3, RefusedRests DEF Statement
<1>10. CASE Garbled \/ RowsFail \/ Finish
  <2>1. Same /\ (Ends("failed") \/ Ends("done"))
    BY <1>10 DEF Garbled, RowsFail, Finish, Same
  <2> QED BY <2>1, EndsRests
<1>11. CASE Relist
  <2>1. Same
    BY <1>11 DEF Relist, Same
  <2>2. CASE /\ rels' = {r \in rels : r.object # cur} /\ cur' = None
             /\ UNCHANGED <<todo, views, buf, told, refused>>
    BY <1>1, <2>1, <2>2, WalkRests
  <2> QED BY <1>11, <2>1, <2>2, EndsRests DEF Relist, Statement
<1>12. CASE Yield
  <2>1. Same /\ UNCHANGED <<cur, todo, views, rels, refused>>
        /\ \E row \in buf : told' = told \cup {row}
    BY <1>12 DEF Yield, Same
  <2> QED BY <1>1, <2>1, WalkRests
<1> QED BY <1>2, <1>3, <1>4, <1>5, <1>6, <1>7, <1>8, <1>9, <1>10, <1>11, <1>12 DEF Step

\* The variables of a walk keep their types, whatever it asks and whatever other
\* sessions do meanwhile.
THEOREM TypeCorrect == Spec => []TypeOK
<1>1. Init => RestOK
  <2> SUFFICES ASSUME Init PROVE RestOK
    OBVIOUS
  <2>1. seen \subseteq Objects \X Kinds
    BY ItemsAre, InitHolds DEF Init, IInv
  <2> QED BY <2>1, WalksAssumption DEF Init, RestOK
<1>2. RestOK /\ IInv /\ [Next]_vars => RestOK'
  <2> SUFFICES ASSUME RestOK, IInv, [Next]_vars PROVE RestOK'
    OBVIOUS
  <2>1. IInv'
    BY NextKeeps
  <2>2. CASE UNCHANGED vars
    BY <2>2 DEF vars, RestOK
  <2>3. CASE Cancel
    BY <2>3 DEF Cancel, world, walked, RestOK
  <2>4. ASSUME NEW o \in Objects, NEW k \in Kinds, Create(o, k)
        PROVE  RestOK'
    <3>1. Changed /\ remade' \subseteq Objects
      BY <2>4 DEF Create, RestOK
    <3> QED BY <2>1, <3>1, ChangedRests
  <2>5. ASSUME NEW o \in Objects, Drop(o)
        PROVE  RestOK'
    <3>1. Changed /\ remade' \subseteq Objects
      BY <2>5 DEF Drop, RestOK
    <3> QED BY <2>1, <3>1, ChangedRests
  <2>6. ASSUME NEW d \in dbs, DropDatabase(d)
        PROVE  RestOK'
    <3>1. Changed /\ remade' \subseteq Objects
      BY <2>6 DEF DropDatabase, RestOK
    <3> QED BY <2>1, <3>1, ChangedRests
  <2> QED BY <2>2, <2>3, <2>4, <2>5, <2>6, StepRests DEF Next
<1>3. RestOK /\ IInv => TypeOK
  <2> SUFFICES ASSUME RestOK, IInv PROVE TypeOK
    OBVIOUS
  <2>1. buf \subseteq (Objects \X Kinds) \X Parts /\ Present(catalog) \subseteq Objects \X Kinds
    BY BufferIs, ItemsAre DEF IInv
  <2>2. changes \in 0..MaxChanges
    BY WalksAssumption DEF IInv, TypesOK, RestOK
  <2>3. dbs \cup todo \subseteq {o[1] : o \in Objects}
    BY DEF IInv, WorldOK, PlaceOK, AllDbs
  <2>4. seen \cup stayed \subseteq Objects \X Kinds
    BY <2>1 DEF IInv, WorldOK, RestOK
  <2>5. /\ walk \in Walks /\ catalog \in [Objects -> Kinds \cup {"absent"}] /\ pc \in Places
        /\ canceled \in BOOLEAN /\ faulted \in BOOLEAN
    BY DEF IInv, TypesOK
  <2> QED BY <2>1, <2>2, <2>3, <2>4, <2>5 DEF TypeOK, RestOK, Places
<1> QED BY <1>1, <1>2, <1>3, Always, PTL DEF Spec

\* Tables that are dropped do not end a walk of tablestore, which lists the tables
\* again when one of them does not answer.
THEOREM DropsCorrect == Spec => []DropsAreForgiven
<1>1. IInv => DropsAreForgiven
  BY DEF IInv, DropsOK, DropsAreForgiven
<1> QED BY <1>1, Always, PTL

\* A walk that reads its statements to their end before it yields leaves no half of
\* a table with a caller that got an error, wherever the error came.
THEOREM WholeCorrect == Spec => []WholeOrNotAtAll
<1>1. IInv => WholeOrNotAtAll
  BY DEF IInv, WholeOK, WholeOrNotAtAll
<1> QED BY <1>1, Always, PTL

---------------------------------------------------------------------------
(* A walk is a listing. *)

Outcome == IF pc \in Over THEN pc ELSE "going"

\* What the listing sees stand still in a step of the walk.
LEMMA StandsStill ==
    ASSUME Same
    PROVE  /\ UNCHANGED <<catalog, seen, stayed, AskedFor>>
           /\ (walk = "opensearch")' = (walk = "opensearch")
BY SameIs DEF AskedFor, Named

\* A step that neither tells, nor ends the walk.
LEMMA GoesOn ==
    ASSUME IInv, Same, UNCHANGED <<told, refused>>, pc \notin Over, pc' \notin Over,
           Trouble' \/ UNCHANGED faulted
    PROVE  [Promise!Next]_(Promise!vars)
<1>1. Outcome' = Outcome
  BY DEF Outcome
<1>2. CASE Trouble'
  <2>1. Promise!Fault
    BY <1>1, <1>2, StandsStill DEF Promise!Fault, Trouble, Outcome
  <2> QED BY <2>1 DEF Promise!Next
<1>3. CASE UNCHANGED faulted
  <2>1. Trouble' = Trouble
    BY <1>3, SameIs DEF Trouble
  <2> QED BY <1>1, <2>1, StandsStill DEF Promise!vars, Trouble, Outcome
<1> QED BY <1>2, <1>3

\* A walk that fails has a reason.
LEMMA FailsFor ==
    ASSUME IInv, Same, Ends("failed"), pc \notin Over, Trouble'
    PROVE  Promise!Next
<1>1. UNCHANGED <<told, refused>> /\ pc' = "failed"
  BY DEF Ends
<1>2. Promise!Fail
  BY <1>1, StandsStill DEF Promise!Fail, Trouble, Over
<1> QED BY <1>2 DEF Promise!Next

\* A statement that fails is a reason.
LEMMA FailedTroubles ==
    ASSUME IInv, Same, canceled \/ "service" \in Faults, faulted' = (faulted \/ ~canceled)
    PROVE  Trouble'
BY FailedIs, SameIs DEF Trouble

\* One that finds its database gone has another.
LEMMA GoneTroubles ==
    ASSUME IInv, Same, NEW d \in AllDbs, d \notin dbs
    PROVE  Trouble'
<1>1. changes \in Nat /\ changes # 0
  BY DEF IInv, TypesOK, WorldOK
<1> QED BY <1>1, SameIs DEF Trouble

LEMMA OthersAreChanges ==
    ASSUME IInv,
           \/ \E o \in Objects, k \in Kinds : Create(o, k)
           \/ \E o \in Objects : Drop(o)
           \/ \E d \in dbs : DropDatabase(d)
           \/ Cancel
    PROVE  Promise!Next
<1>1. ASSUME Changed,
             \/ \E o \in Objects, k \in Kinds \cup {"absent"} :
                   catalog' = [catalog EXCEPT ![o] = k]
             \/ \E gone \in SUBSET Objects :
                   catalog' = [o \in Objects |-> IF o \in gone THEN "absent" ELSE catalog[o]]
      PROVE  Promise!Next
  <2>1. /\ changes' = changes + 1 /\ changes \in Nat
        /\ seen' = seen \cup Present(catalog') /\ stayed' = stayed \cap Present(catalog')
        /\ UNCHANGED <<walk, names, pc, told, refused>>
    BY <1>1 DEF Changed, walked, IInv, TypesOK
  <2>2. UNCHANGED <<AskedFor, Outcome>> /\ (walk = "opensearch")' = (walk = "opensearch")
    BY <2>1 DEF AskedFor, Telling, Named, Outcome
  <2>3. (changes > 0)'
    BY <2>1
  <2>4. Promise!Present(catalog') = Present(catalog')
    BY DEF Promise!Present, Present
  <2>5. Promise!Changes
    BY <1>1, <2>1, <2>2, <2>3, <2>4
    DEF Promise!Changes, Promise!Change, Promise!Drop, Outcome
  <2> QED BY <2>5 DEF Promise!Next
<1>2. ASSUME NEW o \in Objects, NEW k \in Kinds, Create(o, k) PROVE Promise!Next
  <2>1. catalog' = [catalog EXCEPT ![o] = k] /\ Changed /\ k \in Kinds \cup {"absent"}
    BY <1>2 DEF Create
  <2> QED BY <1>1, <2>1
<1>3. ASSUME NEW o \in Objects, Drop(o) PROVE Promise!Next
  <2>1. catalog' = [catalog EXCEPT ![o] = "absent"] /\ Changed
        /\ "absent" \in Kinds \cup {"absent"}
    BY <1>3 DEF Drop
  <2> QED BY <1>1, <2>1
<1>4. ASSUME NEW d \in dbs, DropDatabase(d) PROVE Promise!Next
  <2> DEFINE gone == {o \in Objects : o[1] = d}
  <2>1. catalog' = [o \in Objects |-> IF o \in gone THEN "absent" ELSE catalog[o]] /\ Changed
    BY <1>4 DEF DropDatabase
  <2>2. gone \in SUBSET Objects
    OBVIOUS
  <2> HIDE DEF gone
  <2> QED BY <1>1, <2>1, <2>2
<1>5. CASE Cancel
  <2>1. canceled' = TRUE /\ UNCHANGED <<walk, names, catalog, seen, stayed, pc, told, refused>>
    BY <1>5 DEF Cancel, world, walked
  <2>2. UNCHANGED <<AskedFor, Outcome>> /\ (walk = "opensearch")' = (walk = "opensearch")
    BY <2>1 DEF AskedFor, Telling, Named, Outcome
  <2>3. Promise!Fault
    BY <2>1, <2>2 DEF Promise!Fault, Outcome
  <2> QED BY <2>3 DEF Promise!Next
<1> QED BY <1>2, <1>3, <1>4, <1>5

\* A walk that ends without an error owes nothing.
LEMMA DoneOwesNothing ==
    ASSUME IInv, Same, UNCHANGED <<told, refused>>, pc \notin Over, pc' = "done", buf = {},
           UNCHANGED faulted, \A o : \A p : ~Pending(o, p)
    PROVE  Promise!Next
<1>1. ASSUME NEW it \in stayed \cap AskedFor, NEW part \in Parts
      PROVE  it[1] \in refused \/ <<it, part>> \in told
  <2>1. PICK o \in Objects, k \in Telling : it = <<o, k>> /\ Named(o)
    BY DEF AskedFor
  <2>2. o \in refused \/ <<<<o, k>>, part>> \in told \cup buf
    BY <1>1, <2>1 DEF IInv, DebtOK
  <2> QED BY <2>1, <2>2
<1>2. Trouble' = Trouble
  BY SameIs DEF Trouble
<1>3. Promise!Done
  BY <1>1, <1>2, StandsStill DEF Promise!Done, Trouble, Over
<1> QED BY <1>3 DEF Promise!Next

LEMMA DatabasesLists == ASSUME IInv, Databases PROVE [Promise!Next]_(Promise!vars)
<1>1. Same /\ pc = "databases" /\ pc \notin Over
  BY DEF Databases, Same, Over
<1>2. CASE pc' = "database" /\ UNCHANGED <<told, refused, faulted>>
  BY <1>1, <1>2, GoesOn DEF Over
<1>3. CASE /\ Ends("failed")
           /\ (canceled \/ "service" \in Faults) /\ faulted' = (faulted \/ ~canceled)
  BY <1>1, <1>3, FailedTroubles, FailsFor
<1> QED BY <1>2, <1>3 DEF Databases, Statement

\* A statement about a database is answered, or ends the walk for a reason.
LEMMA OfDatabaseLists ==
    ASSUME IInv, Same, NEW d \in AllDbs, NEW ACTION Answered, pc \notin Over,
           OfDatabase(d, Answered),
           Answered => pc' \notin Over /\ UNCHANGED <<told, refused>>
    PROVE  [Promise!Next]_(Promise!vars)
<1>1. CASE Answered /\ UNCHANGED faulted
  BY <1>1, GoesOn
<1>2. CASE d \notin dbs /\ Ends("failed")
  BY <1>2, GoneTroubles, FailsFor
<1>3. CASE /\ Ends("failed")
           /\ (canceled \/ "service" \in Faults) /\ faulted' = (faulted \/ ~canceled)
  BY <1>3, FailedTroubles, FailsFor
<1> QED BY <1>1, <1>2, <1>3 DEF OfDatabase, Statement

LEMMA ListViewsLists == ASSUME IInv, ListViews PROVE [Promise!Next]_(Promise!vars)
<1>1. Same /\ pc = "database" /\ pc \notin Over
  BY DEF ListViews, OfDatabase, Same, Over
<1>2. PICK d \in todo :
         OfDatabase(d, /\ views' = {o \in In(d) : catalog[o] = "view"}
                       /\ todo' = todo \ {d} /\ pc' = "tables" /\ cur' = <<d>>
                       /\ UNCHANGED <<rels, buf, told, refused>>)
  BY DEF ListViews
<1>3. d \in AllDbs
  BY DEF IInv, PlaceOK
<1> DEFINE answered == /\ views' = {o \in In(d) : catalog[o] = "view"}
                       /\ todo' = todo \ {d} /\ pc' = "tables" /\ cur' = <<d>>
                       /\ UNCHANGED <<rels, buf, told, refused>>
<1>4. answered => pc' \notin Over /\ UNCHANGED <<told, refused>>
  BY DEF Over
<1>5. OfDatabase(d, answered)
  BY <1>2
<1> HIDE DEF answered
<1> QED BY <1>1, <1>3, <1>4, <1>5, OfDatabaseLists

LEMMA ListTablesLists == ASSUME IInv, ListTables PROVE [Promise!Next]_(Promise!vars)
<1>1. Same /\ pc = "tables" /\ pc \notin Over /\ cur[1] \in AllDbs
  BY DEF ListTables, OfDatabase, Same, Over, IInv, PlaceOK
<1> DEFINE answered == /\ rels' = rels \cup Relations(In(cur[1]))
                       /\ pc' = "database" /\ cur' = None /\ views' = {}
                       /\ UNCHANGED <<todo, buf, told, refused>>
<1>2. answered => pc' \notin Over /\ UNCHANGED <<told, refused>>
  BY DEF Over
<1>3. OfDatabase(cur[1], answered)
  BY DEF ListTables
<1> HIDE DEF answered
<1> QED BY <1>1, <1>2, <1>3, OfDatabaseLists

LEMMA AskDatabaseLists == ASSUME IInv, AskDatabase PROVE [Promise!Next]_(Promise!vars)
<1>1. Same /\ pc = "database" /\ pc \notin Over
  BY DEF AskDatabase, OfDatabase, Same, Over
<1>2. PICK d \in todo :
         OfDatabase(d, /\ buf' = buf \cup Rows(In(d), IF walk = "influxql.Columns"
                                                      THEN {1} ELSE Parts)
                       /\ todo' = todo \ {d}
                       /\ pc' = CASE walk = "influxql.Columns" -> "tags"
                                  [] walk = "influxql.Tables"  -> "database"
                                  [] OTHER                     -> "yield"
                       /\ cur' = IF walk = "influxql.Columns" THEN <<d>> ELSE None
                       /\ UNCHANGED <<views, rels, told, refused>>)
  BY DEF AskDatabase
<1>3. d \in AllDbs
  BY DEF IInv, PlaceOK
<1> DEFINE answered == /\ buf' = buf \cup Rows(In(d), IF walk = "influxql.Columns"
                                                      THEN {1} ELSE Parts)
                       /\ todo' = todo \ {d}
                       /\ pc' = CASE walk = "influxql.Columns" -> "tags"
                                  [] walk = "influxql.Tables"  -> "database"
                                  [] OTHER                     -> "yield"
                       /\ cur' = IF walk = "influxql.Columns" THEN <<d>> ELSE None
                       /\ UNCHANGED <<views, rels, told, refused>>
<1>4. answered => pc' \notin Over /\ UNCHANGED <<told, refused>>
  BY DEF Over
<1>5. OfDatabase(d, answered)
  BY <1>2
<1> HIDE DEF answered
<1> QED BY <1>1, <1>3, <1>4, <1>5, OfDatabaseLists

LEMMA AskTagsLists == ASSUME IInv, AskTags PROVE [Promise!Next]_(Promise!vars)
<1>1. Same /\ pc = "tags" /\ pc \notin Over /\ cur[1] \in AllDbs
  BY DEF AskTags, OfDatabase, Same, Over, IInv, PlaceOK
<1> DEFINE answered == /\ buf' = buf \cup Rows(In(cur[1]), {2})
                       /\ pc' = "yield" /\ cur' = None
                       /\ UNCHANGED <<todo, views, rels, told, refused>>
<1>2. answered => pc' \notin Over /\ UNCHANGED <<told, refused>>
  BY DEF Over
<1>3. OfDatabase(cur[1], answered)
  BY DEF AskTags
<1> HIDE DEF answered
<1> QED BY <1>1, <1>2, <1>3, OfDatabaseLists

LEMMA ListLists == ASSUME IInv, List PROVE [Promise!Next]_(Promise!vars)
<1>1. Same /\ pc = "list" /\ pc \notin Over
  BY DEF List, Same, Over
<1>2. CASE pc' \in {"yield", "describe"} /\ UNCHANGED <<told, refused, faulted>>
  BY <1>1, <1>2, GoesOn DEF Over
<1>3. CASE /\ Ends("failed")
           /\ (canceled \/ "service" \in Faults) /\ faulted' = (faulted \/ ~canceled)
  BY <1>1, <1>3, FailedTroubles, FailsFor
<1> QED BY <1>2, <1>3 DEF List, Statement

\* Nothing is told or fails when the relations are listed, or one is passed over.
LEMMA ListedLists == ASSUME IInv, Listed \/ PassOver PROVE [Promise!Next]_(Promise!vars)
<1>1. /\ Same /\ pc \notin Over /\ pc' \notin Over
      /\ UNCHANGED <<told, refused, faulted>>
  BY DEF Listed, PassOver, Goes, Same, Over
<1> QED BY <1>1, GoesOn

\* What a listing makes of a relation that is refused.
LEMMA RefusedLists ==
    ASSUME IInv, Same, pc = "describe", NEW r \in rels, Refused(r), Trouble'
    PROVE  [Promise!Next]_(Promise!vars)
<1>1. pc \notin Over /\ r.object \in Objects
  BY DEF Over, IInv, TypesOK
<1>2. CASE pc' = "relist" /\ UNCHANGED <<told, refused>>
  BY <1>1, <1>2, GoesOn DEF Over
<1>3. CASE walk = "opensearch" /\ refused' = refused \cup {r.object} /\ UNCHANGED <<pc, told>>
  <2>1. Promise!Refuse
    BY <1>1, <1>3, StandsStill DEF Promise!Refuse, Trouble
  <2> QED BY <2>1 DEF Promise!Next
<1>4. CASE Ends("failed")
  BY <1>1, <1>4, FailsFor
<1> QED BY <1>2, <1>3, <1>4, RefusedIs

LEMMA DescribeLists == ASSUME IInv, Describe PROVE [Promise!Next]_(Promise!vars)
<1>1. Same /\ pc = "describe" /\ pc \notin Over
  BY DEF Describe, Same, Over
<1>2. PICK r \in rels :
         /\ Asked(r)
         /\ Statement(IF ~Answers(r) THEN Refused(r)
                      ELSE /\ buf' = Rows({r.object}, Parts)
                           /\ rels' = rels \ {r} /\ pc' = "yield"
                           /\ UNCHANGED <<cur, todo, views, told, refused>>,
                      Refused(r))
  BY DEF Describe
<1>3. CASE pc' = "yield" /\ UNCHANGED <<told, refused, faulted>>
  BY <1>1, <1>3, GoesOn DEF Over
<1>4. CASE ~Answers(r) /\ Refused(r)
  <2>1. Trouble'
    BY <1>1, <1>2, <1>4, NotAnswered, SameIs DEF Trouble
  <2> QED BY <1>1, <1>4, <2>1, RefusedLists
<1>5. CASE /\ Refused(r)
           /\ (canceled \/ "service" \in Faults) /\ faulted' = (faulted \/ ~canceled)
  BY <1>1, <1>5, FailedTroubles, RefusedLists
<1> QED BY <1>2, <1>3, <1>4, <1>5 DEF Statement

LEMMA GarbledLists == ASSUME IInv, Garbled PROVE [Promise!Next]_(Promise!vars)
<1>1. Same /\ pc = "describe" /\ Ends("failed") /\ faulted' = TRUE
  BY DEF Garbled, Same
<1> QED BY <1>1, FailsFor DEF Trouble, Over

LEMMA RelistLists == ASSUME IInv, Relist PROVE [Promise!Next]_(Promise!vars)
<1>1. Same /\ pc = "relist" /\ pc \notin Over /\ Trouble
  BY DEF Relist, Same, Over, IInv, RelsOK
<1>2. CASE pc' = "describe" /\ UNCHANGED <<told, refused, faulted>>
  BY <1>1, <1>2, GoesOn DEF Over
<1>3. CASE Ends("failed") /\ UNCHANGED faulted
  BY <1>1, <1>3, FailsFor, SameIs DEF Trouble
<1>4. CASE /\ Ends("failed")
           /\ (canceled \/ "service" \in Faults) /\ faulted' = (faulted \/ ~canceled)
  BY <1>1, <1>4, FailedTroubles, FailsFor
<1> QED BY <1>2, <1>3, <1>4 DEF Relist, Statement

\* What the caller is given was there, and is what it asked for.
LEMMA YieldLists == ASSUME IInv, Yield PROVE [Promise!Next]_(Promise!vars)
<1>1. /\ Same /\ pc = "yield" /\ pc' \in {"yield", "stopped"} /\ pc \notin Over
      /\ UNCHANGED <<refused, faulted>>
  BY DEF Yield, Same, Over
<1>2. PICK row \in buf : told' = told \cup {row}
  BY DEF Yield
<1>3. PICK o \in Objects, k \in Telling, p \in Parts :
         row = <<<<o, k>>, p>> /\ <<o, k>> \in seen /\ Named(o)
  BY <1>2 DEF IInv, TruthOK
<1>4. <<o, k>> \in seen \cap AskedFor
  BY <1>3 DEF AskedFor
<1>5. Outcome = "going" /\ Outcome' \in {"going", "stopped"}
  BY <1>1 DEF Outcome, Over
<1>6. Trouble' = Trouble
  BY <1>1, SameIs DEF Trouble
<1>7. Promise!Tell
  BY <1>2, <1>3, <1>4, <1>5, <1>6, StandsStill, <1>1 DEF Promise!Tell, Outcome, Trouble
<1> QED BY <1>7 DEF Promise!Next

LEMMA RowsFailLists == ASSUME IInv, RowsFail PROVE [Promise!Next]_(Promise!vars)
<1>1. Same /\ pc \notin Over /\ Ends("failed")
      /\ (canceled \/ "service" \in Faults) /\ faulted' = (faulted \/ ~canceled)
  BY DEF RowsFail, Same, Over
<1> QED BY <1>1, FailedTroubles, FailsFor

LEMMA YieldedLists == ASSUME IInv, Yielded PROVE [Promise!Next]_(Promise!vars)
<1>1. /\ Same /\ pc = "yield" /\ buf = {} /\ UNCHANGED <<told, refused, faulted>>
      /\ pc' = IF walk \in Describing THEN "describe"
               ELSE IF walk \in {"impala.Functions", "influxql.Columns"} /\ todo # {}
                    THEN "database" ELSE "done"
  BY DEF Yielded, Goes, Same
<1>2. CASE pc' # "done"
  BY <1>1, <1>2, GoesOn DEF Over
<1>3. CASE pc' = "done"
  <2>1. todo = {} /\ rels = {}
    BY <1>1, <1>3 DEF IInv, PlaceOK
  <2>2. \A o : \A p : ~Pending(o, p)
    BY <1>1, <2>1 DEF Pending
  <2> QED BY <1>1, <1>3, <2>2, DoneOwesNothing DEF Over
<1> QED BY <1>2, <1>3

LEMMA FinishLists == ASSUME IInv, Finish PROVE [Promise!Next]_(Promise!vars)
<1>1. /\ Same /\ pc = "describe" /\ rels = {} /\ buf = {} /\ todo = {} /\ pc' = "done"
      /\ UNCHANGED <<told, refused, faulted>>
  BY DEF Finish, Ends, Same, IInv, PlaceOK
<1>2. \A o : \A p : ~Pending(o, p)
  BY <1>1 DEF Pending
<1> QED BY <1>1, <1>2, DoneOwesNothing DEF Over

LEMMA NextLists == ASSUME IInv, [Next]_vars PROVE [Promise!Next]_(Promise!vars)
<1>1. CASE UNCHANGED vars
  <2>1. UNCHANGED <<pc, told, refused, faulted>> /\ Same
    BY <1>1 DEF vars, Same, world
  <2>2. Outcome' = Outcome /\ Trouble' = Trouble
    BY <2>1, SameIs DEF Outcome, Trouble
  <2> QED BY <2>1, <2>2, StandsStill DEF Promise!vars, Outcome, Trouble
<1>2. CASE Step
  BY <1>2, DatabasesLists, ListViewsLists, ListTablesLists, AskDatabaseLists, AskTagsLists,
     ListLists, ListedLists, DescribeLists, GarbledLists, RelistLists,
     YieldLists, RowsFailLists, YieldedLists, FinishLists DEF Step
<1>3. CASE \/ \E o \in Objects, k \in Kinds : Create(o, k)
           \/ \E o \in Objects : Drop(o)
           \/ \E d \in dbs : DropDatabase(d)
           \/ Cancel
  BY <1>3, OthersAreChanges
<1> QED BY <1>1, <1>2, <1>3 DEF Next

LEMMA InitLists == Init => Promise!Init
<1> SUFFICES ASSUME Init PROVE Promise!Init
  OBVIOUS
<1>1. /\ walk \in Walks /\ pc \in {"done", "list", "databases"}
      /\ pc = "done" => names = {}
      /\ catalog \in [Objects -> Kinds \cup {"absent"}]
      /\ seen = Present(catalog) /\ stayed = Present(catalog)
      /\ canceled = FALSE /\ faulted = FALSE /\ changes = 0
      /\ refused = {} /\ told = {}
  BY DEF Init
<1>2. Promise!Present(catalog) = Present(catalog)
  BY DEF Promise!Present, Present
<1>3. AskedFor \subseteq Objects \X Kinds /\ (names = {} => AskedFor = {})
  BY <1>1, Tells DEF AskedFor, Named
<1>4. Outcome \in {"going", "done"} /\ (Outcome = "done" => pc = "done")
  BY <1>1 DEF Outcome, Over
<1>5. Trouble = FALSE
  BY <1>1 DEF Trouble
<1> QED BY <1>1, <1>2, <1>3, <1>4, <1>5 DEF Promise!Init, Outcome, Trouble

\* Every walk is a listing, for every catalog, all that other sessions do to it and
\* all that fails: it tells nothing that was not there, and it ends without an error
\* only when it has told all that was there all along.
THEOREM ListsCorrect == Spec => WalksList
BY InitLists, NextLists, Always, PTL DEF Spec, WalksList, Promise!Spec
=============================================================================
