# Verification of dbmeta and dbrun

This directory holds TLA+ models of `xo/dbmeta`, the TLC instances that check
them and the TLAPS proofs about them. `dbmeta` is a Go library that reads a
database's catalog through statements that are put together for the server's
version. `dbrun` (`test/cmd/dbrun`) is the program that starts, shares and
removes the databases the library is tested against, on a computer that several
people and coding agents use at once.

To run a check: `tlc -workers 2 -config MCSeedOne.cfg MCSeed`. To run the
proofs of a module: `tlapm SeedProofs.tla`.

## The system

### The library (`*.go` at the root, `models/`, `all/`)

| component | state | operations | what is hard | what makes it correct |
| --- | --- | --- | --- | --- |
| versions (`version.go`) | none | `Compare`, `AtLeast`, `VersionSet.Has`, `Get`, `ParseVersion`, `ParseVersionNum` | lists of different lengths, the unknown version, the width of `int` | `Compare` is an order |
| gates and choices (`query.go`: `Gate`, `Choice.Resolve`) | none | choose one fragment for a server | the order of the alternatives, two products in one dialect | three rules, whatever the order |
| statements (`Support`, `Stmt.Build`, `Query.Build`, `bind`, `Each`, `withDefaults`) | none | put fragments together, replace named parameters, say what can be asked | two ways to one answer, defaults, lists, literals, a parameter named twice | a statement and its values agree in number and order; what is foretold is what happens |
| query iterators (`Query.All`, `Each`, `First`) | the rows under way | one Go iterator per call | early exits, nesting, canceled contexts, a pool of one | no connection lost, none held by a walk while the caller runs |
| walks (`walk.go`, `models/*/walk.go`) | none | several statements for one query | a catalog that changes while it is walked, a statement that fails | nothing invented; an end without an error has told all that stayed |
| models (48 packages) | none | SQL text with gates, a select list, declared fields and a `Scan`, registered by `init` | three lists written by hand; a column gated apart from its join and its field | no row is refused, a column fills its own field, a refusal and `Field.Present` tell the truth, an upgrade loses nothing |
| objects (`object.go`) | none | the types of the rows | which fields take a NULL | as above |
| scanning (`scan.go`) | none | `NullAsEmpty`, conversion of a row | what is empty and what is absent | what is empty stays so |
| dialect registry (`dialect.go`) | maps behind a lock | `RegisterDialect`, `Register`, `Share`, `Info`, `Version`, `New`, `Open` | registration order, follow-up statements that fail | one model per dialect |
| alignment, classification, facts, passwords, `all` | none | pure functions over text | driver types | table look-ups that the tests enumerate |

`New` and `Open` make a `Meta` from a dialect and a version set. A `Query` takes
the `Meta`, finds the `Binding` that the model registered, asks each `Choice` of
its statement for a fragment, binds the arguments, runs the statement through a
`Queryer`, which is `database/sql`'s pool, and scans each row into the type that
all products share. A binding with a `Walk` runs its own statements through the
same pool.

### dbrun (`test/cmd/dbrun`, `container/`, `hosted/`)

| component | state | operations | what is hard | what makes it correct |
| --- | --- | --- | --- | --- |
| targets (`target.go`, `container/`, `hosted/`) | none | the list of servers | none | constant |
| runner (`runner.go`) | what inspect said, remembered for one command | `remember`, `load`, `look`, `forget`, `create`, `waitReady` | answers that are old when used, failure that reads as absence, a deadline beside a settle | no command of its own leaves a process an old answer; ready is ready |
| owners (`owner.go`) | a label on each container | `mayTouch`, `claimable`, `pickEvictee` | check, then act, with no lock | a running server of somebody else is left alone |
| commands (`commands.go`, `test.go`) | none of their own | `start`, `stop`, `remove`, `test`, `makeRoom` | every runner command may fail; other processes act between any two | ownership, the limit, machines spared, every command ends |
| kept database (`seed.go`) | two directories and a mark | build, copy, drop | death between two steps, two first starts | what is marked is whole and clean, only that is copied |
| clusters (`cluster.go`) | kind nodes, a record per cluster | start, restart, stop, remove | two records that have to agree, a limit of their own, an undo that Ctrl-C cuts short | owner and room, a record for every node |
| provisioning (`provision.go`, `appliance.go`, `download.go`) | files | download, unpack, convert, create, wait | a kill half way through any of them | nothing partial is used, no used disk is written again |
| credentials, fixtures, images, samples, reports, command line | none | look-ups, text, data loading | none for a model checker | tests |

The processes of dbrun share nothing but the container runner and the host's
files. They talk to neither each other nor a daemon, and nothing locks anything.
Every call to docker, podman or kind is one command of another program, so
another process may act between any two.

## The modules

| module | what it models | how its state and actions correspond to the code |
| --- | --- | --- |
| `VersionOrder` | `Version.Compare` | the loop, one component per step (`receiver`, `argument` and `at` are the code's `v`, `ver` and `i`); the components are naturals up to `MaxPart` and the difference is taken in an `int` that holds up to `MaxInt` and wraps |
| `Resolve` | `Gate.Met`, `Choice.Resolve`, `VersionSet.Has` and `Get` | the loop, one alternative per step, with its `best`, `found` and `reachable`; a version is a rank, which the order of `VersionOrder` justifies |
| `Statement` | `Support`, `lookup`, `Each`, `Query.Build`, `Stmt.Build`, `bind`, `withDefaults` | one behaviour is one call, from its arguments to the statement and the values, or to the error; the loop over the pieces and the loop over what the text names go one turn at a time |
| `QueryRun` | `Query.All` while it runs | a stack of iterators per caller, one action per call on the pool or turn of the loop; the pool is a number of free connections |
| `Listing` | what a listing of a catalog promises while others change it | an abstract specification: the catalog, what was seen, what stayed, what was told |
| `Walks` | the walks of Impala, Tablestore, InfluxQL, OpenSearch and Elasticsearch | one behaviour is one walk; each statement is one step, and so is each row given to the caller; other sessions act between any two |
| `Fragments`, `PostgresModels`, `MySQLModels`, `OtherModels` | the gated pieces of the bindings of `models/` | data: of each piece that a release or a product decides, its gates, whether it pads with NULL, the relations it reads and those it joins, and the gates of its field |
| `Registry`, `RegistryFacts` | which bindings each `init` registers or shares, and the keys under which `parseVersion` sets versions | data, with operators that compare the gates of one product without a server, and the facts that the tables keep to, which TLC evaluates (`RegistryAssumption`) |
| `Models` | `Stmt.Build` over those bindings, before and after an upgrade | `ModelsSpec`: one piece per step by the rules of `Resolve`, then the same for a newer server |
| `Objects` | the row types of `object.go` | data: the plain and the nullable fields of each type |
| `Bindings`, `PostgresRows`, `MySQLRows`, `ServerRows`, `AnalyticRows`, `CloudRows`, `GatewayRows`, `DocumentRows` | what each binding selects, declares, scans and reads of its parameters | data: four lists of names, one for each of the lists written by hand in Go, with the columns that some release pads |
| `Rows` | the run of one statement and the `Scan` of one row | one column per step, into the field that `Scan` names, through `NullAsEmpty` where the code says so |
| `Servers` | `start`, `stop`, `remove`, `test`, `makeRoom` and the runner cache | one `pc` per process; every look and every runner command of the code is one action, so every interleaving of them is a behaviour |
| `Ownership` | what the commands of one session may do to what another session owns | an abstract specification with the containers as its only variable |
| `Seed` | the kept database | the container, what each directory holds, the mark, and one `pc` per process |
| `Clusters` | `start`, `stop`, `remove` of clusters and `makeRoomForCluster` | the records, the nodes and one `pc` per process; each call to kind, the runner and the file system is an action, and `kind create` two |
| `Provision` | `provision`, `importAppliance`, `download`, `unpack`, `convert`, `waitReady`, `waitForAnswer` | the files by their names and what each holds, one `pc`, and a clock for the waits |
| `MC*` | instances | command lines, first states and plans for TLC; `Provision.cfg` gives `Provision` its numbers without one |
| `*Proofs` | theorems | |

Names follow the code: `Servers!StartClaim` is the block of `doStart` that reads
whether a stopped server may be taken over, `Seed!BuildStop` the `stop` of
`buildSeed`.

`Resolve`, `Statement` and `QueryRun` follow one another: what a piece resolves
to on a server is a constant of `Statement`, and what the query yields is in
`QueryRun`. In `Statement` the text of a piece is a sequence of tokens, text or a
named parameter; a system variable (`@@sql_mode`) is text. `Models` and `Rows`
are the same path with the data of the real bindings: `Models` says which piece
a server gets, `Rows` what becomes of the row.

What is abstracted: image names, ports, messages and wording; the text of
statements but for what decides a column; the contents of rows but for whether a
value is NULL, empty or neither; the clock, but in `Provision` (elsewhere a wait
ends either way). In `Servers` what a container publishes is one Boolean, whether
its ports are those the list computes now. In `Seed` a directory holds one of
four things: nothing, part of a database, a whole one that was stopped cleanly, a
whole one that was not. In `Walks` a relation is a table or a view, has two parts
to tell of, and `Like` is membership in a set of names.

### Walks and Listing

A walk sees no one moment of the catalog. `Listing` says what it may still be
held to: nothing is told that was not there at some moment and asked for; a walk
that ends without an error has told every part of what was there all along; and
a walk fails only when something failed or changed. `WalksList` says that each
of the nine walks implements it. The catalog, `seen` and `stayed` are the same in
both; `asked` is what the caller named, of the kinds that this walk tells of;
`trouble` is a failed service, an ended context or a changed catalog; and
`lenient` is true of OpenSearch, which may refuse to describe an index.
`seen`, `stayed`, `remade` and `refused` are ghosts. They guard nothing.

The walks differ in what they make of a statement that fails. Tablestore lists
its tables again and passes over one that is gone (`Relist`), OpenSearch passes
over an index that was refused unless the context has ended, and the others end.

### Models and Rows

A binding is three lists that nothing compares: the select list, `Fields` and
`Scan`. What a release decides of the first is gated piece by piece, and what it
decides of the second field by field. The data modules hold the lists as the Go
files write them, so a column that is added to one and not to another is a
difference between two sequences here. A list that several products share in Go
(`Share`, a common constant) is one definition here too.

`Rows` gives each column one of three values on the way: `"full"`, `"null"` where
the statement itself may write NULL (the literal, which pads a column included, a
`NULLIF`, a `CASE` with a NULL branch or without `ELSE`), `"blank"` where the
statement writes `''`. A NULL that the catalog of the product returns is not in
the sets, nor are some that the second arm of a UNION writes; the latter go into
nullable fields. The product may turn `''` into NULL (`NoEmptyText`: Oracle and
Exasol), and `Scan` may turn NULL into `''`.

### Servers and Ownership

`Servers` has one action per look or command, in the order of the code. A look
(`Looks`) uses what is remembered or asks; a container found is remembered and
absence is not, because the code cannot tell it from a failure. A command
(`RunsCommand`) forgets what was remembered of the container before it runs,
succeeds or fails, and leaves one of the states that the runner can leave. The
two things the code reads once and remembers for the whole command are in
`Remember`: the targets a first listing does not name. `stale` is a ghost: it is
true when somebody else changed a container after the process last asked whose
it was. It guards nothing.

`Ownership` says what a session may do to the containers, and `KeepsThePromise`
says that the commands of one session, in any interleaving of two processes,
implement it: `Servers` under the mapping that keeps `cont` and forgets the rest.

### Seed

Each process runs up to `MaxCommands` commands, and `Crash` ends one anywhere in
`CrashAt`. An interrupted process and a killed one are alike, because the
context that Ctrl-C cancels is the one that the deferred commands use too. A
directory deleted under a running container stays open in it (`orphan`). A
database that is open is `dirty` and becomes `clean` when it is stopped within
its grace. One that needs longer is killed, and the `stop` succeeds all the same:
that may happen to any `Stop`, with its ten seconds, and to `BuildStop`, with its
180, if `"grace"` is in `Faults`.

### Clusters

A cluster is a record in a directory and a node that kind makes, and no step
writes both. Ctrl-C makes each later call to the runner and to kind fail while
the file system obeys, so the two part where an undo is cut short. The records
are a set, as the directories are, each with the time it was written: `clock`
counts the clusters made, so that no two are of one time, and a loop over
`clustersOf` is at the `Oldest` of what it has left.

Five ghosts remember what no process knows, and guard nothing. `maker` is who
made a node; `adrift` the names whose record and node were parted; `stale` what
somebody else changed since a process read of it; `missed` and `overrun` that a
count was old, and that a cluster was started on it. `crossed` is for two owners
who come by one name: each may look while there is no cluster, then one writes
its record and the other makes its node, and the record says one owner of a
cluster that is the other's. A third process, of the owner on the record and
with nothing stale of its own, then stops what it never made. The name stays
`crossed` until a start that read everything anew writes a record.

### Provision

Each file has what it holds: nothing, part, damaged, whole, or a disk that a
machine has written to. `Crash` may come at any step. What an import has left to
do is read off the files alone, beside an inspect that may fail, so `Exists` is a
choice. The wait has a clock: a check takes up to `Probe`, runs once more after
the deadline as in the code, and `checks` keeps when each was and what it said.

## The runs

| run | instance | shows |
| --- | --- | --- |
| `version` | every two versions of up to three components of 0..3, and the unknown one | `Compare` says the order, when `int` holds a component |
| `resolve` | every choice of up to three alternatives over two products and the family, against every version set | the loop returns what its comment's three rules say (`ThreeRules`); the tables of the models keep to what the proofs about `Models` take from them (`RegistryAssumption`) |
| `statement` | statements of one to three pieces, two parameters, one derived, one variant, a walk; three servers; `Build`, `All` and `Each` with every set of arguments | values follow placeholders (`ValuesFollow`), `Support` foretells the answer (`SupportTells`), a statement and a walk refuse alike (`RefusesAlike`), `Keep` sees what is bound (`SeesWhatIsBound`) |
| `query` | three callers, a pool of two, one row or statement per iterator, contexts that may be canceled, with and without statements nested in statements | no connection lost (`NoneLeaked`), what does not nest ends (`EveryIterationEnds`), a canceled context ends what deadlocks (`CancelEnds`) |
| `walks` | nine walks, two databases with two names and one, sets of names asked for, two changes by other sessions, every fault | each walk is a listing (`WalksList`), a dropped table does not end a walk of Tablestore (`DropsAreForgiven`), no half of an object with an error (`WholeOrNotAtAll`), every walk ends (`WalkEnds`) |
| `models` | every gated binding of thirteen models for fifteen products, with servers on both sides of every gate, and an upgrade | a refusal says whether some release answers (`RefusalTells`), a field says whether its column has a source (`PresentTells`), what is read is joined (`ReadsWhatIsJoined`), an upgrade loses nothing (`UpgradeLosesNothing`) |
| `rows` | every positional binding of forty-three models, every select list, each filter, rows that are full and as empty as may be | no NULL meets a field that takes none (`NoRowIsRefused`), each column fills the field of its name (`ColumnsFillTheirFields`), empty is not absent (`EmptinessSurvives`), a filter decides (`FiltersDecide`) |
| `servers_sessions` | two owners with a process each, one container and every command; two containers and one place; one process alone with three containers, a machine and more to start than may be up | the cache (`CacheSound`), the decisions (`ForeignOnlyByRace`), the limit (`WithinLimit`), and that the oldest goes (`EvictsTheOldest`) |
| `servers_promise` | two processes of one session, two containers, a machine, left by another session; everything but an inspect may fail | `Servers` implements `Ownership` (`KeepsThePromise`), and every command ends (`EveryCommandEnds`) |
| `seed` | one process, six commands, death nearly anywhere, every call failing but the removal of a container and of a mark, and a build that stops within its grace | the kept database is whole and clean (`DoneMeansKept`), used only as a source (`GoldenLeftAlone`, `CopiesOnlyClean`), and no container runs on part of a copy (`RunsOnWholeCopy`) |
| `clusters` | two owners with a process each, two releases, one name that both owners come by, one place, every call failing, Ctrl-C anywhere | a node has a record (`Explained`), the limit (`WithinClusterLimit`), a command takes down its own (`TakesDownItsOwn`), every command ends (`EveryClusterCommandEnds`) |
| `provision` | a Windows machine, an appliance with two disks, a container that settles; four commands, every step failing, a kill anywhere | what has its own name is whole (`FinishedMeansWhole`), a used disk is not written again (`DisksAreKept`), a wait says what its checks said (`WaitIsRight`), every command ends (`EveryProvisionEnds`) |

### Bounds

- Versions of three components cover the equal, the shorter and the longer list;
  components 0..3 cover a difference of either sign at each place. The proof
  covers every length.
- Three alternatives are the least in which one replaces another and a third
  clashes with either; two products and the family are every kind of key that
  a dialect has. The proof covers every length and every set of keys.
- In `statement` two parameters are the least that can be bound in the wrong
  order, and each statement of the instance is there for a case: a parameter
  named twice, one named only from a release on, a piece for one product, an
  ambiguous piece before and after one that is too old, nothing at all. The
  proofs cover every statement.
- In `query` one row or walk statement per iterator is enough to reach the body,
  the end, the early exit and the error after it. A pool of two with three
  callers has every caller wait. The proofs cover any number.
- In `walks` two changes are a drop and a creation of the same name, which is
  what deceives a walk that lists twice; two names in one database and one in
  another make a walk ask two databases and twice in one. The proofs cover any
  catalog and any number of changes.
- `models` and `rows` have no bound: each binding is checked against every
  release that decides anything of it, which by `GatesDecide` is every release.
  Products that claim another's release (CockroachDB, CrateDB, TiDB, Vitess,
  SingleStore, ScyllaDB) report the pairs of versions that the repository's
  container list has. The proofs cover every pair, those of releases to come
  among them.
- One container is where two sessions race; a second is what makes one start
  stop the other's server; a third, for the process that is alone, is what makes
  the order of starting matter. `MaxRunning` is 8 in the code and 1 here, so the
  limit is met at once. `clusterLimit` likewise.
- Six commands are enough to build, use, lose, drop and build the kept database
  again, with a death in between; four are enough to fail, resume, run and
  import again. The proofs cover any number.
- A settle of two, a timeout of four and a check of up to one have a check fall
  before, at and after the deadline, with and without a failure behind it.

### Fairness

`Servers!Spec` and `Clusters!Spec` have weak fairness of each process: a call to
the runner, to kind or to the file system returns, with success or failure,
because each ends when its program does, and the waits have a deadline. Neither
says anything of Ctrl-C or of a server that exits. `QueryRun!Spec` has weak
fairness of each caller, whose body goes on, and of `Closes`, the goroutine of
`database/sql` that waits for the context. A wait for a connection that nobody
gives back is not a step that is enabled, so a deadlock is not fairness' to
resolve. `Walks!Spec` has weak fairness of the walk: its statements return and
its caller goes on or stops. `Provision!Spec` has weak fairness of the steps of
the command and of its clock. `Seed` claims no liveness: a server may never
become ready.

## What is proved

All by TLAPS, for every value of the constants.

| theorem | says | assumes |
| --- | --- | --- |
| `ResolveProofs!CompareCorrect`, `CompareTypeCorrect` | the sign of `Compare` is the order, on versions of any length | `VersionAssumption` and `MaxPart <= MaxInt` |
| `ResolveProofs!OlderIsAnOrder`, `OlderHasRanks` | the order is irreflexive and transitive, and what is in no order with two versions puts them in none: a rank can stand for a version | |
| `ResolveProofs!LoopCorrect`, `ResolveCorrect` | the loop holds the alternative that nothing before it beats; the answer is the three rules' | `ResolveAssumption` |
| `ResolveProofs!GatesDecide` | two servers on the same side of each gate have the same answer | both report the same keys |
| `ResolveProofs!WinnerIsThere` | the rules choose something wherever something applies and no two products are met | |
| `ResolveProofs!UpgradeAnswers`, `UpgradeNeverFallsBack` | after an upgrade a statement still has an answer, and no older one | no second product of the choice is met; `ResolveAssumption` |
| `ResolveProofs!JoinsCorrect` | what a statement reads, one of its texts joins, on every release of every product | `ModelsAssumption`, `RegistryAssumption` |
| `ResolveProofs!PresentCorrect` | `Field.Present` says what the statement does, but for the fields in `KnownAstray` | the same |
| `ResolveProofs!UpgradeCorrect` | an upgrade from any release to any later one loses nothing | the same |
| `ResolveProofs!RefusalCorrect` | a refusal says whether some release answers | the same, and `ReleasesGoOn` |
| `StatementProofs!ValuesCorrect` | each placeholder stands for the value of the parameter named in its place | `StatementAssumption` |
| `StatementProofs!SupportCorrect` | what `Support` says is what asking finds, unless a variant takes the place of the statement | `StatementAssumption` |
| `StatementProofs!RefusesCorrect`, `SeesCorrect`, `EachCorrect` | `bind` and `withDefaults` refuse alike and give the same values; `Each` passes nothing that is refused | `StatementAssumption` |
| `QueryRunProofs!PoolCorrect` | the connections that are out are those that open iterators hold | `QueryRunAssumption` |
| `QueryRunProofs!WalkCorrect` | a walk that reads to the end holds none while it yields | `QueryRunAssumption` |
| `WalksProofs!ListsCorrect` | each walk implements `Listing` | `WalksAssumption` |
| `WalksProofs!WholeCorrect`, `DropsCorrect` | no half of an object with an error; Tablestore forgives drops | `WalksAssumption` |
| `ServersProofs!CacheCorrect` | what a process remembers is what is there, unless somebody else changed it | `ServersAssumption` |
| `ServersProofs!ForeignCorrect` | what a process takes down it may, or somebody else changed it after it asked | `inspect` does not fail |
| `ServersProofs!LimitCorrect` | a lone process stays within the limit | `ps` and `stop` do not fail |
| `ServersProofs!EvictsCorrect` | a lone process that needs room stops the oldest it may | `inspect` and `stop` do not fail |
| `ServersProofs!PromiseCorrect` | the commands of one session implement `Ownership` | one session without `--force`, `inspect` does not fail, nothing stops by itself |
| `SeedProofs!WholeCorrect` | what is marked done is there and whole | `Undisturbed` |
| `SeedProofs!GoldenCorrect` | no container runs on what is marked done | `Undisturbed` |
| `SeedProofs!MarkCorrect`, `CopyCorrect` | what is marked done is whole and clean; only that is copied | `Undisturbed`, the stop of the build does not kill |
| `SeedProofs!CopyWhole` | no container runs on part of a database | `Undisturbed`, no exit on the copy |
| `ClustersProofs!ExplainedCorrect` | a node has a record, unless they were parted | `inspect` does not fail, `StartsExplained` |
| `ClustersProofs!LimitCorrect` | no more run than may, unless on a count that missed one | the same, and `StartsWithin` |
| `ClustersProofs!TakesDownCorrect` | a command takes down its own, or what changed or crossed | `inspect` does not fail, `StartsExplained` |
| `ProvisionProofs!FinishedCorrect`, `DisksCorrect` | what has its own name is whole; a used disk is not written again | `ProvisionAssumption` |
| `ProvisionProofs!WaitCorrect` | a wait says what its checks said | `ProvisionAssumption` |
| `ProvisionProofs!WorkCorrect` | what was unpacked goes with the command, unless its removal fails or never comes | `ProvisionAssumption` |
| `TypeCorrect` of each of these modules | the variables keep their types | the module's assumption |

The inductive invariants:

- `Resolve`: `ThreeRules` is about the end of the loop, and says nothing of its
  middle. `LoopInv` says what `best`, `found` and `reachable` are after `i`
  alternatives, in terms of those `i` alone. The rules follow because what no
  alternative among all beats is unique up to its key.
- `Models`: `BuildInv` says that each text so far is that of its piece on this
  server (`SoFar`), that what `Build` returned is about the piece it came to
  (`Ended`), and that what is kept from before the upgrade is what an older
  server of the same product got (`Earlier`). The four properties say nothing of
  a statement half built, so none is inductive. With it each is a matter of one
  server, or of two, and of the tables alone. There the argument leaves releases
  behind: `Implied(f, g)` says that who meets the gate `g` meets `f`, and
  `Beaten(.., m, g)` that alternative `m` then loses, whatever the release, and
  what wins on a server is beaten by nothing that the server meets
  (`WinnerIsUnbeaten`). So it is enough that of every piece and the one it
  depends on, the alternatives that part cannot win together (`ReadsAreHosted`,
  `GatesTell`, `PadsRunOut`), and that a product either supports a statement or
  none of its pieces (`AllOrNothing`). These are facts about the lists of the Go
  files, which no proof could do more with than count them out;
  `RegistryFacts` states them and TLC evaluates them on the run `resolve`. They
  are not on the run `models`, so that a fault put into a table there is found
  by the property it breaks and not by the assumption.
- `VersionOrder`: the components before `at` are equal, so the first that differs
  decides.
- `Statement`: `StageInv` says what each part of the way has done. `ValuesFollow`
  is inductive with it: the token written at `k` is the one at `k` of the text.
  `SupportTells` needs `SupportInv`, that no piece before `k` fails, so the first
  that does is the one that `Stmt.Build` reports to `Support`; `RefusesAlike`
  needs `RefusesInv`, that no token before `k` is refused; `EachNeverRefused`
  needs `EachInv`, that what is passed on is declared.
- `QueryRun`: the invariant says at which places an iterator has a connection,
  and that all but the innermost of a caller are in their bodies, so a step
  changes the count of one frame. The sum over the stacks is a cardinality of
  the set of frames that hold one, which each step changes by that frame.
- `Walks`: `DebtOK` says that everything that stayed and was asked for is told,
  refused, about to be told, or still pending: its database is on the list, its
  relation is, or the answer in hand has a second part to come. At the end
  nothing is pending, which is the guard of `Listing!Done`. A change of the
  catalog can only shrink what stayed. That a listed relation will be asked
  about needs that it was classed rightly, which needs `ListedOK`: the views in
  hand are those of this database, for what stayed. `RelsOK` is the reason that
  a failure has one: while nothing changed, whatever is listed answers.
- `Servers`: `CacheSound` is inductive with `TypeOK`, once it is stated of the
  ghost `stale`: every step that changes a container marks every other process,
  and the process itself has forgotten. `ForeignOnlyByRace` needs, at each label
  between a look and the command that rests on it, what the process knows of its
  target while that is not stale (`Knows`), and of the servers `makeRoom` has
  heard of (`Hears`), each of which it must ask about once only. `WithinLimit`
  needs that what has been listed and not stopped holds all that is up beside
  the target (`Counted`), which is why a stop that fails breaks it.
  `EvictsTheOldest` compares a rank of the list that `docker ps` gave with the
  order of starting at the time of the stop. A rank is the number of running
  servers that started before, and it rises along the order because the order
  has no circle and is transitive (`OrderOK`). While the lone process chooses,
  its list has every other server that is up (`Covers`), ranked by that order
  (`Ranked`), with the owners that are there now (`Held`, from `Truth`, that
  what it remembers says whose a container is). A server that stops by itself
  meanwhile takes itself out of the order and changes nothing else of it. For
  `KeepsThePromise` no answer need be fresh: what is not theirs does not become
  theirs, and what of theirs is down does not come up, while one session is at
  work (`Stays`), so what an old answer says of either still holds (`Recalls`).
- `Seed`: `DoneMeansKept` needs what the container is at each step of the build
  (`Building`: between the line and the stop it is up and runs on the golden
  directory, which nobody removed) and what is left of it after (`Kept`: once
  the mark is there no container is on the golden directory). `RunsOnWholeCopy`
  needs that from the moment a start asks for the kept database no container is
  on the copy, running or not (`Free`), because a stopped one would be started
  again on whatever a failed copy left there.
- `Clusters`: `Explained` needs, of the start that is about to make a node, that
  its record is there while nobody has touched it since (`OwnOK`), and of the
  removal that has deleted a node and not yet its record, that the node is gone
  (`GoneOK`); with what a process remembers of the nodes (`CacheOK`) these are
  `Kept`, and each says "or it is stale". What the step of one process leaves the
  others is one fact, `Frame`, proved once for each action: it changes nothing of
  theirs, and what it changes of the machine it marks as stale, missed or adrift.
  `WithinClusterLimit` needs `Counted`: from the listing to the command that
  rests on it, what was found running and what is still to be looked at hold
  all that runs beside the cluster to be started, or the process is in `missed`.
  `TakesDownItsOwn` needs `Owned`: a record that did not cross tells whose the
  node is (`RecordsTell`), so does the copy of it in the list of a process to
  which it is not stale (`ListTells`), and a command that is about to take a
  node down was let to (`Decided`). Without `crossed` the first of these is
  false, which is how the crossing of two starts was found.
- `Provision`: a used disk is safe because an import begins only where some disk
  has no file of its own, or where there is no machine; `FilesOK` says which
  files may be there at which step. Of a wait, the invariant ties `since` to the
  checks: every check from `since` on answered.

`Undisturbed` is what the theorems of `Seed` rest on: one process at a time, the
removal of a container and that of a mark do not fail, the server is not killed
between its ready line and its stop, and the process does not die between the
mark and the removal of the container or while the kept database is deleted.
`MarkCorrect` and `CopyCorrect` say "stopped cleanly", so they need besides that
the stop of a build does not kill it (`"grace" \notin Faults`); without that,
`Settled` is what is left of the invariant, and `WholeCorrect` of the claim. What
comes of the machine without each of these is in the next section.

`StartsExplained` and `StartsWithin` are about the machine on which the processes
begin: each node there has a record, and no more run than may. Both hold of the
machines of the run. With `"inspect" \in Faults` a node that runs reads as absent,
and so a start counts too few and a removal forgets a node that stands: both
`WithinClusterLimit` and `Explained` fail.

`EvictsCorrect` is about a lone process: of two of one owner, one may start
again a server that stopped after the other listed it. With `"inspect" \in Faults`
the owner of the oldest may not be read, and then the next is stopped; with
`"stop" \in Faults` the oldest may refuse, and makeRoom goes on to the next.

`GatesDecide` is why the run `models` needs no more releases than one on each
side of each gate. `UpgradeAnswers` and `UpgradeNeverFallsBack` are of any one
choice, and need nothing of the bindings; `UpgradeCorrect` is of whole statements
and of what their texts pad.

`ReleasesGoOn` is what `RefusalCorrect` needs of the releases: every server can be
upgraded to one that reaches all that is `Due` to its product. It is true of the
releases of the run, and it is needed: `ErrVersionTooOld` promises a release that
answers, and of a product that has not made the release its pieces are gated on
that would be false. What a gate on another product's release is worth depends on
what the product claims to be (`Claimed`): ScyllaDB claims Cassandra 3.0.8, so a
piece with nothing but a gate on Cassandra 4.0 would be promised forever.
`EachPieceIsDue` says that there is none.

Only checked by TLC: the four invariants of `Rows`. Each binding is run on its own
there, and the run is of all of them: what the properties say is that four
written lists agree, and a proof of it would be the same enumeration. Liveness
(`EveryCommandEnds`, `EveryClusterCommandEnds`, `EveryProvisionEnds`,
`EveryIterationEnds`, `CancelEnds`, `WalkEnds`) stays with TLC: the provers
installed have no rules for fairness and ENABLED. Neither do they do induction
over data, so nothing is proved about what a recursive definition computes.

## Where the code and its promises part

Each of these is a behaviour of a module here, with other values of its constants
than the runs give, or a property that the modules state and no run checks.

Servers:

- `"inspect" \in Faults`: `OnlyOwnServers` fails. `look` (`runner.go:123`) reads a
  failed inspect as absence and so a server as nobody's, against `owner.go:15`,
  "dbrun acts only on the caller's own servers".
- `RemoveMeansRemoved` fails of a machine. `doTest` runs `t.Remove` (`test.go:273`),
  which is empty for a machine, and prints that it removed it; `DBRUN.md:650` says
  that a machine is kept unless `--remove` was given.
- Two sessions, one container, no failure (`Faults = {}`): `OnlyOwnServers` fails.
  A process that found a server stopped, absent or its own takes down the other's
  running one, because `doStop`, `doRemove` and `doStart` read and act in
  separate calls. `ForeignOnlyByRace`, which holds, says there is no other way
  while inspects answer.
- Two starts at once with one place exceed the limit, because `makeRoom` counts
  before either creates; `WithinLimit` is stated of a process that is alone. With
  `"stop" \in Faults` it fails of one too: `makeRoom` takes a server that did not
  stop off its list and goes on (`commands.go:76`).

Seed:

- `CrashAt = {"build.remove"}`: `GoldenLeftAlone` fails. The mark is written
  (`seed.go:193`) before the container that built the database is removed, and the
  next start starts that one, on "the golden copy, which no container ever runs
  on" (`seed.go:27`).
- `CopyGoesWithContainer` fails of a test: `doTest` (`test.go:273`) removes the
  container and leaves its copy, against the comment of `dropSeed` (`seed.go:220`).
- `CrashAt = {"drop.golden"}`: `CopiesOnlyClean` fails. `rm -rf` deletes the mark
  last, so it outlives part of what it marks.
- `"grace" \in Faults`: `DoneMeansKept` and `CopiesOnlyClean` fail. A `stop` that
  kills what did not stop within its 180 seconds succeeds (`seed.go:189`), and
  nothing looks at how the container ended before the mark is written. Every
  later container then starts on a copy of a database that was killed, against
  "stops it cleanly and keeps the directory. A clean stop matters" (`seed.go:152`).
  The database is whole, which `DoneMeansWhole` says and `WholeCorrect` proves.
- `"mark" \in Faults`: `DoneMeansKept`, `CopiesOnlyClean` and `RunsOnWholeCopy`
  fail. An `rm -rf` that removes the directory and not the mark (`seed.go:232`)
  leaves a mark over nothing, or over a part if it removed only that.
- `"rm" \in Faults`: `GoldenLeftAlone` fails, as after a death at that place. The
  removal is a quiet command (`seed.go:170`).
- `Exits = {"built"}`: `CopiesOnlyClean` fails. `waitLog` looks for the line before
  it asks whether the container runs, and `stop` of one that exited succeeds.
- Two processes: `CopiesOnlyClean` fails. The second first start clears the
  directory that the first builds in.
- `Exits = {"copy"}` with a copy that is cut short: `RunsOnWholeCopy` fails. A
  container that stopped by itself is kept while the directory under it is
  replaced, and the next start starts it.

Clusters and provisioning:

- Two starts of one cluster name by two owners cross (`crossed` above): the record
  says one owner, the node is the other's, and a command of the recorded owner
  takes it down, against "dbrun acts only on the caller's own servers"
  (`owner.go:15`). Names collide because `ownerID` is cut short. The two
  processes of the run reach the crossing, and it takes a third to act on it.
- `FailureLeavesNothing` fails when Ctrl-C comes while kind creates: the undo
  (`cluster.go:389`) runs kind with the context that has ended and removes the
  record all the same, against "a failure leaves nothing" (`cluster.go:387`).
- `waitReady` and `waitForAnswer` say "it never answered" of a server that answered
  and failed at its last check (`runner.go:373`).
- `os.RemoveAll` of the import directory is deferred and its error is not read
  (`appliance.go:130`), so the unpacked disks may stay after an import that ended
  well, against "they go whether this works or not" (`appliance.go:129`). The next
  import removes them.
- Two provisions at once: nothing locks. The second `os.Create` truncates the
  `.part` that the first is about to rename, and one's `RemoveAll` deletes the
  import directory of the other. `Provision` has one process.

Models and rows:

- `FieldsTellTheirSource` fails: `Field.Present` (`query.go:177`) says whether a
  field has a source on a server, and for twenty-one fields of seven products the
  gate of the field and those of the fragments differ. `KnownAstray` in `Models`
  lists them by product and query, and `PresentTells` says that there are no more.
- `PadsAreTaken` fails, against `docs/NULLS.md:72` ("make the field nullable"): the
  definition of a CockroachDB trigger is NULL below 26.2 and read into a plain
  string (`object.go:1064`); the command of a SQL Server policy is NULL for a
  BLOCK predicate without an operation (`models/sqlserver/section.go:121`). The
  description of CockroachDB's extension objects is always NULL, but no release
  measured has such a row. `Refused` in `Rows` lists the three.
- Oracle's `NVL(..., '')` gives a NULL, so the argument and result types of its
  functions and aggregates, and the foreign catalog of an Exasol constraint, are
  absent where the statement means them empty (`EmptyIsAbsent` in `Rows`).
- `mysql` declares the comment of a sequence present and always pads it with NULL.

Statements and walks:

- `Query.Build` says (`query.go:480`) that an argument "that the statement does not
  name is an error". `bind` refuses what the binding does not declare: an argument
  that is declared and that the statement of this server does not name is passed
  over. `RefusesAlike` therefore asks that the statement names every parameter.
- `MaxInt < MaxPart`, an `int` of 32 bits: `SaysTheOrder` fails, because the
  difference of two `uint32` components wraps.
- A view that is created between Impala's SHOW VIEWS and SHOW TABLES is taken for
  a table, and SHOW COLUMN STATS of it ends the walk; so does a table or database
  that is dropped, which Tablestore passes over. `Listing` allows both: something
  has changed.

## Not modelled

- Embedded and hosted servers have no container and no state here. `status`,
  `version` and `logs` read and change nothing.
- In `Servers`, `Seed` and `Clusters` the wait for a server to answer is one step
  with either outcome, and so are the builds of images.
- Of the models: bindings whose rows are scanned by name (Cosmos DB), the kinds
  that a product answers by another statement of its own, variants that only
  reorder a statement, and what the SQL computes. Whether the text of a
  statement is right on its server is a matter for the tests that run it.
- The registry keeps its maps behind a lock and changes them in `init`; which
  model answers for a product is data of `Models` and `Rows`. `Version`, with its
  follow-up statement, returns at the first error.
- Pure functions over text (`ParseVersion`, `Align`, `classify`, passwords, masks,
  reports, `Like`), tables of constants, and the loading of sample data.

## Plan

What is left: `Dialect`, registration and sharing, with `Version` and its
follow-up statement.
