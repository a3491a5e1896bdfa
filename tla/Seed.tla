-------------------------------- MODULE Seed --------------------------------
(***************************************************************************)
(* The kept database of a seeded server (test/cmd/dbrun/seed.go), of which *)
(* oracle-19c is the one.  The first start builds the database in the      *)
(* golden directory, which takes up to half an hour, stops it and marks it *)
(* done.  Every later start copies golden to live and runs on the copy.    *)
(*                                                                         *)
(* A process runs one command after another and may die between any two    *)
(* steps: Ctrl-C cancels every runner command that follows, the deferred   *)
(* ones included, so an interrupted process and a killed one are alike.    *)
(*                                                                         *)
(* Whose the server is, and what is remembered of it, is module Servers.   *)
(***************************************************************************)
EXTENDS Naturals

CONSTANTS
    Procs,         \* the dbrun processes
    MaxCommands,   \* bound: how many commands each runs
    Commands,      \* the commands they run
    Faults,        \* the calls that may fail for reasons of their own
    CrashAt,       \* where a process may die
    Exits,         \* when the server may be killed by something else
    Absent         \* no such container

Dirs == {"golden", "live"}

\* What a directory holds: nothing, part of a database, one that was stopped
\* cleanly, or one that is open or was killed.
Databases == {"none", "partial", "clean", "dirty"}

\* The container: whether it runs, the path it was given, whether that path was
\* removed under it since it began to run, and whether its log has the line
\* that says the database is ready.
Box == [up : BOOLEAN, on : Dirs, orphan : BOOLEAN, said : BOOLEAN]

Labels ==
    {"idle", "start.look", "start.start", "start.giveup", "start.missing",
     "seed.check", "build.clear", "build.create", "build.wait", "build.stop",
     "build.done", "build.remove", "build.rename", "copy.clear", "copy.cp",
     "create", "ready", "stop", "remove.rm", "drop.live", "drop.golden",
     "drop.done", "test.remove"}

ASSUME SeedAssumption ==
    /\ MaxCommands \in Nat
    /\ Commands \subseteq {"start", "stop", "remove", "remove --seed", "test"}
    /\ Faults \subseteq {"host", "run", "start", "stop", "rm", "rename", "write",
                   "grace", "mark"}
    /\ CrashAt \subseteq Labels \ {"idle"}
    /\ Exits \subseteq {"building", "built", "copy"}
    /\ Absent \notin Box

VARIABLES
    box,    \* the container of the target
    db,     \* what each directory holds
    done,   \* golden.done is there
    pc,     \* where each process is
    cmd,    \* the command each runs
    left    \* how many commands each may still run

vars == <<box, db, done, pc, cmd, left>>

host == <<box, db, done>>

At(p, label) == pc[p] = label

Goto(p, label) == pc' = [pc EXCEPT ![p] = label] /\ UNCHANGED <<cmd, left>>

Ends(p) == Goto(p, "idle")

\* The fault may happen, and leaves everything as it is.
Fails(what) == what \in Faults /\ UNCHANGED host

Up == box # Absent /\ box.up

---------------------------------------------------------------------------
(* The container runner and the host. *)

\* A path that is removed stays open in a container that runs on it.
RmDir(d) ==
    /\ db' = [db EXCEPT ![d] = "none"]
    /\ box' = IF Up /\ box.on = d THEN [box EXCEPT !.orphan = TRUE] ELSE box

\* A container that begins to run opens the database it is given.
Opens(d) == db' = [db EXCEPT ![d] = IF @ = "clean" THEN "dirty" ELSE @]

Run(d) ==
    /\ box = Absent /\ db[d] # "none"
    /\ box' = [up |-> TRUE, on |-> d, orphan |-> FALSE, said |-> FALSE]
    /\ Opens(d)

\* run fails on a name in use, and may leave a container it could not start.
RunFails(d) ==
    /\ box # Absent \/ db[d] = "none" \/ "run" \in Faults
    /\ \/ UNCHANGED box
       \/ box = Absent /\ box' = [up |-> FALSE, on |-> d, orphan |-> FALSE, said |-> FALSE]
    /\ UNCHANGED db

\* Stopped within its grace the database is clean, and killed it is not.
StopsAs(how) ==
    /\ box # Absent
    /\ box' = [box EXCEPT !.up = FALSE]
    /\ db' = [db EXCEPT ![box.on] = IF Up /\ ~box.orphan /\ @ = "dirty" THEN how ELSE @]

\* rm --force, which kills what runs.
RmBox == box' = Absent

---------------------------------------------------------------------------
(* What happens by itself. *)

\* The database is built, and the log says that it is ready.
BuildFinishes ==
    /\ Up /\ ~box.said
    /\ box' = [box EXCEPT !.said = TRUE]
    /\ db' = [db EXCEPT ![box.on] = IF box.orphan THEN @ ELSE "dirty"]
    /\ UNCHANGED <<done, pc, cmd, left>>

Exit ==
    /\ Up
    /\ (IF box.on = "live" THEN "copy" ELSE IF box.said THEN "built" ELSE "building") \in Exits
    /\ StopsAs("dirty")
    /\ UNCHANGED <<done, pc, cmd, left>>

Crash(p) ==
    /\ pc[p] \in CrashAt
    /\ Ends(p) /\ UNCHANGED host

---------------------------------------------------------------------------
(* start. *)

Begin(p) ==
    /\ At(p, "idle") /\ left[p] > 0
    /\ left' = [left EXCEPT ![p] = @ - 1]
    /\ \E c \in Commands :
          /\ cmd' = [cmd EXCEPT ![p] = c]
          /\ pc' = [pc EXCEPT ![p] =
                CASE c \in {"start", "test"} -> "start.look"
                  [] c = "stop" -> "stop"
                  [] OTHER -> "remove.rm"]
    /\ UNCHANGED host

StartLook(p) ==
    /\ At(p, "start.look")
    /\ Goto(p, IF Up THEN "ready" ELSE IF box # Absent THEN "start.start" ELSE "seed.check")
    /\ UNCHANGED host

\* A container whose directory is gone does not start.
StartStart(p) ==
    /\ At(p, "start.start")
    /\ \/ /\ box # Absent /\ ~Up /\ db[box.on] # "none"
          /\ box' = [box EXCEPT !.up = TRUE, !.orphan = FALSE]
          /\ Opens(box.on) /\ UNCHANGED done
          /\ Goto(p, "start.missing")
       \/ Up /\ UNCHANGED host /\ Goto(p, "start.missing")
       \/ /\ IF box = Absent THEN TRUE ELSE ~box.up /\ (db[box.on] = "none" \/ "start" \in Faults)
          /\ UNCHANGED host /\ Goto(p, "start.giveup")

StartGiveUp(p) ==
    /\ At(p, "start.giveup")
    /\ \/ RmBox /\ UNCHANGED <<db, done>>
       \/ Fails("rm")
    /\ Goto(p, "start.missing")

StartMissing(p) ==
    /\ At(p, "start.missing")
    /\ Goto(p, IF Up THEN "ready" ELSE "seed.check")
    /\ UNCHANGED host

\* prepareSeed.
SeedCheck(p) ==
    /\ At(p, "seed.check")
    /\ Goto(p, IF done THEN "copy.clear" ELSE "build.clear")
    /\ UNCHANGED host

---------------------------------------------------------------------------
(* buildSeed. *)

BuildClear(p) ==
    /\ At(p, "build.clear")
    /\ UNCHANGED done
    /\ \/ /\ box' = IF Up /\ box.on = "golden" THEN [box EXCEPT !.orphan = TRUE] ELSE box
          /\ db' = [db EXCEPT !["golden"] = "partial"]
          /\ Goto(p, "build.create")
       \/ "host" \in Faults /\ Ends(p) /\ (RmDir("golden") \/ UNCHANGED <<box, db>>)

BuildCreate(p) ==
    /\ At(p, "build.create")
    /\ UNCHANGED done
    /\ \/ Run("golden") /\ Goto(p, "build.wait")
       \/ RunFails("golden") /\ Goto(p, "build.rename")

\* Mutant: the readiness check is waited for, not the line.
BuildWaitUp(p) ==
    /\ At(p, "build.wait")
    /\ \/ Up /\ Goto(p, "build.stop")
       \/ ~Up /\ Goto(p, "build.rename")
    /\ UNCHANGED host

\* waitLog: the line is looked for before the container is, so a container that
\* said it and stopped since passes.  The wait ends at its deadline.
BuildWait(p) ==
    /\ At(p, "build.wait")
    /\ \/ box # Absent /\ box.said /\ Goto(p, "build.stop")
       \/ (IF box = Absent THEN TRUE ELSE ~box.said) /\ Goto(p, "build.rename")
    /\ UNCHANGED host

\* stop succeeds on a container that has stopped already, and on one that it had
\* to kill because it needed more than the grace of 180 seconds.
BuildStop(p) ==
    /\ At(p, "build.stop")
    /\ \/ /\ StopsAs("clean") \/ ("grace" \in Faults /\ StopsAs("dirty"))
          /\ UNCHANGED done /\ Goto(p, "build.done")
       \/ box = Absent /\ UNCHANGED host /\ Goto(p, "build.rename")
       \/ Fails("stop") /\ Goto(p, "build.rename")

\* Mutant: the build is marked done and its container is left.
BuildDoneLeaves(p) ==
    /\ At(p, "build.done")
    /\ done' = TRUE /\ Goto(p, "copy.clear")
    /\ UNCHANGED <<box, db>>

\* The container of the build is removed whether or not the mark was written.
BuildDone(p) ==
    /\ At(p, "build.done")
    /\ \/ done' = TRUE
       \/ "write" \in Faults /\ UNCHANGED done
    /\ Goto(p, "build.remove")
    /\ UNCHANGED <<box, db>>

BuildRemove(p) ==
    /\ At(p, "build.remove")
    /\ \/ RmBox /\ UNCHANGED <<db, done>>
       \/ Fails("rm")
    /\ IF done THEN Goto(p, "copy.clear") ELSE Ends(p)

\* A build that failed keeps its container under another name, still running if
\* it was.  The next build removes its directory first and the container then.
BuildRename(p) ==
    /\ At(p, "build.rename")
    /\ \/ RmBox /\ UNCHANGED <<db, done>>
       \/ Fails("rename")
    /\ Ends(p)

---------------------------------------------------------------------------
(* The copy, and the container on it. *)

CopyClear(p) ==
    /\ At(p, "copy.clear")
    /\ \/ RmDir("live") /\ UNCHANGED done /\ Goto(p, "copy.cp")
       \/ Fails("host") /\ Ends(p)

\* Mutant: what cp said is not read.
CopyCpGoesOn(p) ==
    /\ At(p, "copy.cp")
    /\ UNCHANGED <<box, done>>
    /\ \/ db' = [db EXCEPT !["live"] = db["golden"]]
       \/ "host" \in Faults /\ db' = [db EXCEPT !["live"] = "partial"]
    /\ Goto(p, "create")

CopyCp(p) ==
    /\ At(p, "copy.cp")
    /\ UNCHANGED <<box, done>>
    /\ \/ /\ db["golden"] # "none"
          /\ db' = [db EXCEPT !["live"] = db["golden"]]
          /\ Goto(p, "create")
       \/ /\ db["golden"] = "none" \/ "host" \in Faults
          /\ db' \in {db, [db EXCEPT !["live"] = "partial"]}
          /\ Ends(p)

Create(p) ==
    /\ At(p, "create")
    /\ UNCHANGED done
    /\ \/ Run("live") /\ Goto(p, "ready")
       \/ RunFails("live") /\ Ends(p)

\* The server answers in time or does not.
Ready(p) ==
    /\ At(p, "ready")
    /\ \/ Up /\ cmd[p] = "test" /\ Goto(p, "test.remove")
       \/ Ends(p)
    /\ UNCHANGED host

---------------------------------------------------------------------------
(* test, stop and remove. *)

TestRemove(p) ==
    /\ At(p, "test.remove")
    /\ \/ RmBox /\ UNCHANGED <<db, done>>
       \/ Fails("rm")
    /\ Ends(p)

\* stop gives ten seconds, which a database may not need or may not have.
Stop(p) ==
    /\ At(p, "stop")
    /\ \/ Up /\ (StopsAs("clean") \/ StopsAs("dirty")) /\ UNCHANGED done
       \/ ~Up /\ UNCHANGED host
       \/ Fails("stop")
    /\ Ends(p)

\* What rm said is not read, and what is kept is dropped whatever it said.
RemoveRm(p) ==
    /\ At(p, "remove.rm")
    /\ \/ RmBox /\ UNCHANGED <<db, done>>
       \/ Fails("rm")
    /\ Goto(p, "drop.live")

\* dropSeed is one rm -rf of two or three paths, in this order.  One that fails
\* is reported and the next is tried all the same, but the command may not run
\* at all.
DropLive(p) ==
    /\ At(p, "drop.live")
    /\ \/ /\ (RmDir("live") /\ UNCHANGED done) \/ Fails("host")
          /\ IF cmd[p] = "remove --seed" THEN Goto(p, "drop.golden") ELSE Ends(p)
       \/ Fails("host") /\ Ends(p)

\* Mutant: the mark is not among the paths.
DropGoldenOnly(p) ==
    /\ At(p, "drop.golden")
    /\ RmDir("golden") /\ UNCHANGED done
    /\ Ends(p)

\* A directory is removed file by file.
DropGolden(p) ==
    /\ At(p, "drop.golden")
    /\ \/ /\ db["golden"] \in {"clean", "dirty"}
          /\ db' = [db EXCEPT !["golden"] = "partial"]
          /\ UNCHANGED <<box, done, pc, cmd, left>>
       \/ RmDir("golden") /\ UNCHANGED done /\ Goto(p, "drop.done")
       \/ Fails("host") /\ Goto(p, "drop.done")

DropDone(p) ==
    /\ At(p, "drop.done")
    /\ \/ done' = FALSE /\ UNCHANGED <<box, db>>
       \/ Fails("mark")
    /\ Ends(p)

---------------------------------------------------------------------------
Step(p) ==
    \/ Begin(p) \/ Crash(p)
    \/ StartLook(p) \/ StartStart(p) \/ StartGiveUp(p) \/ StartMissing(p)
    \/ SeedCheck(p) \/ BuildClear(p) \/ BuildCreate(p) \/ BuildWait(p)
    \/ BuildStop(p) \/ BuildDone(p) \/ BuildRemove(p) \/ BuildRename(p)
    \/ CopyClear(p) \/ CopyCp(p) \/ Create(p) \/ Ready(p)
    \/ TestRemove(p) \/ Stop(p) \/ RemoveRm(p)
    \/ DropLive(p) \/ DropGolden(p) \/ DropDone(p)

Init ==
    /\ box = Absent
    /\ db = [d \in Dirs |-> "none"]
    /\ done = FALSE
    /\ pc = [p \in Procs |-> "idle"]
    /\ cmd = [p \in Procs |-> "start"]
    /\ left = [p \in Procs |-> MaxCommands]

Next == (\E p \in Procs : Step(p)) \/ BuildFinishes \/ Exit

Spec == Init /\ [][Next]_vars

---------------------------------------------------------------------------
(* Properties. *)

\* Every variable keeps its type, and only the command that was given removes
\* the server or what is kept of it (doTest, doRemove).
TypeOK ==
    /\ box \in Box \cup {Absent}
    /\ db \in [Dirs -> Databases]
    /\ done \in BOOLEAN
    /\ pc \in [Procs -> Labels]
    /\ cmd \in [Procs -> {"start"} \cup Commands]
    /\ left \in [Procs -> 0..MaxCommands]
    /\ \A p \in Procs :
          /\ At(p, "test.remove") => cmd[p] = "test"
          /\ pc[p] \in {"drop.golden", "drop.done"} => cmd[p] = "remove --seed"

\* While nobody drops it, a database marked done is there, whole, and was
\* stopped cleanly, whatever failed and wherever a process died before: what
\* every later start relies on when it finds the mark (prepareSeed).
DoneMeansKept ==
    done /\ (\A p \in Procs : pc[p] \notin {"drop.golden", "drop.done"})
        => db["golden"] = "clean"

\* And whole it is even if the build was killed because it took too long to stop
\* (buildSeed), which "grace" \in Faults admits.
DoneMeansWhole ==
    done /\ (\A p \in Procs : pc[p] \notin {"drop.golden", "drop.done"})
        => db["golden"] \in {"clean", "dirty"}

\* seed.go, on seedDirs: the golden copy, which no container ever runs on.  The
\* container that builds it does, until it is done.
GoldenLeftAlone == done /\ Up => box.on = "live" \/ box.orphan

\* A container never runs on part of a database: a copy that was cut short is
\* made again before a container is given it (prepareSeed, doStart).
RunsOnWholeCopy == Up /\ box.on = "live" => db["live"] # "partial"

\* seed.go, on buildSeed: a copy of a database that was killed makes every
\* container that starts on it run instance recovery, so golden is copied only
\* while it is whole and was stopped cleanly.
CopiesOnlyClean ==
    [][\A p \in Procs :
          At(p, "copy.cp") /\ pc'[p] = "create" => db["golden"] = "clean"]_vars

\* seed.go, on dropSeed: the copy a container ran on always goes with the
\* container.
CopyGoesWithContainer ==
    [][\A p \in Procs :
          /\ pc[p] \in {"drop.live", "drop.golden", "drop.done", "test.remove"}
          /\ pc'[p] = "idle" /\ box' = Absent
          => db'["live"] = "none"]_vars

=============================================================================
