------------------------------ MODULE Servers ------------------------------
(***************************************************************************)
(* The commands of dbrun that act on servers: start, stop, remove and test *)
(* (test/cmd/dbrun: commands.go, test.go, owner.go, runner.go).            *)
(*                                                                         *)
(* Several dbrun processes share one machine and nothing locks it.  Each   *)
(* process is one command over the targets it picked; it asks the          *)
(* container runner, remembers the answer, decides, and then commands the  *)
(* runner.  A call to the runner is one step, so anything may happen       *)
(* between an answer and the command that rests on it.                     *)
(*                                                                         *)
(* What a target is apart from its container (image, arguments, license)   *)
(* is left out, and so is the kept database of a seeded target, which is   *)
(* module Seed.  The wait for a server to answer, a loop of checks with a  *)
(* deadline, is one step with either outcome.                              *)
(***************************************************************************)
EXTENDS Naturals, Sequences, FiniteSets

CONSTANTS
    Procs,        \* the dbrun processes
    Owners,       \* who runs them
    Session,      \* the one of them that the promise is about
    OwnerOf,      \* the owner of each process, its currentOwner
    NoOwner,      \* the owner of a container made before servers had owners
    Targets,      \* the servers of the list
    Machines,     \* the targets that are virtual machines, the others are containers
    Probed,       \* the targets asked whether they answer by connecting to them
    MaxRunning,   \* how many containers can be up at once
    Invocations,  \* the command lines each process may be started with
    Starts,       \* what the runner may hold when the processes begin
    Faults,       \* the runner commands that may fail for reasons of their own
    Exits,        \* whether a server may stop by itself
    Absent,       \* no such container
    NotSeen       \* nothing is remembered of the container

Commands == {"start", "stop", "remove", "test"}

Containers == Targets \ Machines

CommandLine ==
    [name : Commands, picked : Seq(Targets),
     force : BOOLEAN, keep : BOOLEAN, remove : BOOLEAN, yes : BOOLEAN]

\* What inspect says of a container: its owner label, whether the ports it
\* publishes are those the list now computes, and whether it runs.
Container == [owner : Owners \cup {NoOwner}, ports : BOOLEAN, running : BOOLEAN]

ASSUME ServersAssumption ==
    /\ OwnerOf \in [Procs -> Owners]
    /\ NoOwner \notin Owners
    /\ IsFiniteSet(Targets) /\ Machines \subseteq Targets
    /\ Machines \subseteq Probed /\ Probed \subseteq Targets
    /\ MaxRunning \in Nat \ {0}
    /\ \A p \in Procs : Invocations[p] \subseteq CommandLine
    /\ Starts \subseteq [Targets -> Container \cup {Absent}]
    /\ Faults \subseteq {"ps", "inspect", "build", "stop", "start", "rm", "run"}
    /\ Exits \in BOOLEAN
    /\ Absent \notin Container
    /\ NotSeen \notin Container \cup {Absent}

VARIABLES
    cont,     \* the containers the runner has
    older,    \* <<t, u>>: t and u run, and t started before u
    cmd,      \* the command line of each process
    pc, todo, \* where each process is, and the targets it has still to do
    seen,     \* what each process remembers of each container
    owner,    \* the owner doStart and doTest hold in a local variable
    wasUp,    \* doTest: the server ran when the test began
    names,    \* makeRoom: the running containers it listed, oldest first
    up,       \* makeRoom: those whose owner it has read
    after,    \* makeRoom: where it returns to
    stale     \* ghost: somebody else changed the container since the process
              \* last asked the runner whose it is

vars == <<cont, older, cmd, pc, todo, seen, owner, wasUp, names, up, after, stale>>

runnerVars == <<cont, older>>
cacheVars  == <<seen, stale>>
roomVars   == <<names, up, after>>

Me(p) == OwnerOf[p]

Target(p) == Head(todo[p])

IsUp(c) == c # Absent /\ c.running

Running(t) == IsUp(cont[t])

---------------------------------------------------------------------------
(* The runner: what a command may answer and leave behind. *)

\* Whether the command succeeded, and what the container is then.
Outcome(ok, to) == [ok |-> ok, to |-> to]

MayFail(what, outcome) == IF what \in Faults THEN {outcome} ELSE {}

StopOutcomes(t) ==
    IF cont[t] = Absent
    THEN {Outcome(FALSE, Absent)}
    ELSE {Outcome(TRUE, [cont[t] EXCEPT !.running = FALSE])}
           \cup MayFail("stop", Outcome(FALSE, cont[t]))

StartOutcomes(t) ==
    IF cont[t] = Absent
    THEN {Outcome(FALSE, Absent)}
    ELSE {Outcome(TRUE, [cont[t] EXCEPT !.running = TRUE])}
           \cup (IF Running(t) THEN {} ELSE MayFail("start", Outcome(FALSE, cont[t])))

RmOutcomes(t) ==
    {Outcome(TRUE, Absent)} \cup MayFail("rm", Outcome(FALSE, cont[t]))

\* run fails on a name in use, and may leave a container it could not start.
RunOutcomes(p, t) ==
    LET made(r) == [owner |-> Me(p), ports |-> TRUE, running |-> r]
    IN  IF cont[t] # Absent
        THEN {Outcome(FALSE, cont[t])}
        ELSE {Outcome(TRUE, made(TRUE))}
               \cup MayFail("run", Outcome(FALSE, Absent))
               \cup MayFail("run", Outcome(FALSE, made(FALSE)))

\* The container of t becomes c, and the order of the running ones follows.
Becomes(t, c) ==
    /\ cont' = [cont EXCEPT ![t] = c]
    /\ older' =
         IF IsUp(c) = Running(t) THEN older
         ELSE { o \in older : o[1] # t /\ o[2] # t }
                \cup (IF IsUp(c) THEN { u \in Targets \ {t} : Running(u) } \X {t} ELSE {})

\* Whoever asked about t before the change now holds an old answer.
MarkStale(t, others) ==
    stale' = [q \in Procs |-> [stale[q] EXCEPT ![t] = @ \/ q \in others]]

\* Mutant: what is remembered is kept when the command runs.
RunsRemembering(p, t, o) ==
    /\ Becomes(t, o.to)
    /\ UNCHANGED seen
    /\ MarkStale(t, IF o.to = cont[t] THEN {} ELSE Procs \ {p})

\* A command that names t: what is remembered of it is forgotten first.
RunsCommand(p, t, o) ==
    /\ Becomes(t, o.to)
    /\ seen' = [seen EXCEPT ![p][t] = NotSeen]
    /\ MarkStale(t, IF o.to = cont[t] THEN {} ELSE Procs \ {p})

\* The readiness command runs inside the container and changes nothing of it.
\* A server with none is asked by connecting, which the runner knows nothing of,
\* and of a container the log may be asked for.
AsksReady(p, t) ==
    /\ \E v \in {NotSeen} \cup (IF t \in Probed THEN {seen[p][t]} ELSE {}) :
          /\ t \in Machines => v = seen[p][t]
          /\ seen' = [seen EXCEPT ![p][t] = v]
    /\ UNCHANGED <<cont, older, stale>>

---------------------------------------------------------------------------
(* What a process remembers: look, remember and forget. *)

Asks(p, t) == seen[p][t] = NotSeen

Answers(p, t) ==
    IF Asks(p, t) THEN {cont[t]} \cup MayFail("inspect", Absent) ELSE {seen[p][t]}

\* look: a remembered answer is used, and a container inspect finds is
\* remembered.  Absence is not, because a failure is not proof of it.
Looks(p, t, v) ==
    /\ v \in Answers(p, t)
    /\ seen' = [seen EXCEPT ![p][t] = IF v = Absent THEN @ ELSE v]
    /\ UNCHANGED runnerVars

\* A look that reads whose the container is.
LooksForOwner(p, t, v) ==
    /\ Looks(p, t, v)
    /\ stale' = [stale EXCEPT ![p][t] = @ /\ ~Asks(p, t)]

LooksOnly(p, t, v) == Looks(p, t, v) /\ UNCHANGED stale

OwnerIn(v) == IF v = Absent THEN NoOwner ELSE v.owner

---------------------------------------------------------------------------
(* Who may act: mayTouch and claimable. *)

MayTouch(o, me, force) == force \/ o = NoOwner \/ o = me

\* Mutant: a running container may be claimed as a stopped one may.
ClaimableRunning(t, o, me, force, running) ==
    MayTouch(o, me, force) \/ t \in Containers

Claimable(t, o, me, force, running) ==
    MayTouch(o, me, force) \/ (t \in Containers /\ ~running)

---------------------------------------------------------------------------
(* The control of one process. *)

At(p, label) == pc[p] = label

Goto(p, label) == pc' = [pc EXCEPT ![p] = label] /\ UNCHANGED todo

StartEntry(t) == IF t \in Machines THEN "start.exists" ELSE "start.owner"

Entry(name, t) ==
    CASE name = "start"  -> StartEntry(t)
      [] name = "stop"   -> "stop.look"
      [] name = "remove" -> "remove.owner"
      [] name = "test"   -> "test.wasup"

\* The target is done, well or badly, and the next one picked begins.
NextTarget(p) ==
    /\ todo' = [todo EXCEPT ![p] = Tail(@)]
    /\ pc' = [pc EXCEPT ![p] =
                IF Tail(todo[p]) = <<>> THEN "done"
                ELSE Entry(cmd[p].name, Head(Tail(todo[p])))]

\* start is done with a server that is up, and test goes on from there.
ServerUp(p) == IF cmd[p].name = "test" THEN Goto(p, "test.owner") ELSE NextTarget(p)

\* withRunner lists the containers once: a target it does not list is
\* remembered as absent for the whole command.
Remember(p) ==
    /\ At(p, "remember")
    /\ seen' = [seen EXCEPT ![p] =
          [t \in Targets |->
             IF cont[t] = Absent /\ \E n \in DOMAIN todo[p] : todo[p][n] = t
             THEN Absent ELSE NotSeen]]
    /\ stale' = [stale EXCEPT ![p] = [t \in Targets |-> FALSE]]
    /\ pc' = [pc EXCEPT ![p] =
                IF todo[p] = <<>> THEN "done" ELSE Entry(cmd[p].name, Target(p))]
    /\ UNCHANGED <<runnerVars, cmd, todo, owner, wasUp, roomVars>>

\* The listing failed, and the command with it.
RememberFails(p) ==
    /\ At(p, "remember") /\ "ps" \in Faults
    /\ Goto(p, "done")
    /\ UNCHANGED <<runnerVars, cacheVars, cmd, owner, wasUp, roomVars>>

---------------------------------------------------------------------------
(* doStart. *)

\* A machine is never created here.
StartExists(p) ==
    /\ At(p, "start.exists")
    /\ \E v \in Answers(p, Target(p)) :
          /\ LooksOnly(p, Target(p), v)
          /\ IF v = Absent THEN NextTarget(p) ELSE Goto(p, "start.owner")
    /\ UNCHANGED <<cmd, owner, wasUp, roomVars>>

StartOwner(p) ==
    /\ At(p, "start.owner")
    /\ \E v \in Answers(p, Target(p)) :
          /\ LooksForOwner(p, Target(p), v)
          /\ owner' = [owner EXCEPT ![p] = OwnerIn(v)]
    /\ Goto(p, "start.ports")
    /\ UNCHANGED <<cmd, wasUp, roomVars>>

\* A container made under an older list publishes ports nothing computes now.
StartPorts(p) ==
    /\ At(p, "start.ports")
    /\ \E v \in Answers(p, Target(p)) :
          /\ LooksOnly(p, Target(p), v)
          /\ Goto(p, IF v # Absent /\ ~v.ports THEN "start.claimable" ELSE "start.running")
    /\ UNCHANGED <<cmd, owner, wasUp, roomVars>>

StartClaimable(p) ==
    /\ At(p, "start.claimable")
    /\ \E v \in Answers(p, Target(p)) :
          /\ LooksOnly(p, Target(p), v)
          /\ IF /\ Claimable(Target(p), owner[p], Me(p), cmd[p].force, IsUp(v))
                /\ Target(p) \in Containers
             THEN Goto(p, "start.rebuild")
             ELSE NextTarget(p)
    /\ UNCHANGED <<cmd, owner, wasUp, roomVars>>

StartRebuild(p) ==
    /\ At(p, "start.rebuild")
    /\ \E o \in RmOutcomes(Target(p)) : RunsCommand(p, Target(p), o)
    /\ Goto(p, "start.running")
    /\ UNCHANGED <<cmd, owner, wasUp, roomVars>>

\* A server that is up is shared, whoever started it.
StartRunning(p) ==
    /\ At(p, "start.running")
    /\ \E v \in Answers(p, Target(p)) :
          /\ LooksOnly(p, Target(p), v)
          /\ Goto(p, IF IsUp(v) THEN "start.ready" ELSE "start.claim")
    /\ UNCHANGED <<cmd, owner, wasUp, roomVars>>

\* Mutant: a machine is taken over as a container is.
StartClaimAny(p) ==
    /\ At(p, "start.claim")
    /\ \E v \in Answers(p, Target(p)) :
          /\ LooksOnly(p, Target(p), v)
          /\ IF v = Absent \/ MayTouch(owner[p], Me(p), cmd[p].force)
             THEN Goto(p, "start.again")
             ELSE Goto(p, "start.take")
    /\ UNCHANGED <<cmd, owner, wasUp, roomVars>>

\* A stopped container of somebody else is created again as the caller's.
StartClaim(p) ==
    /\ At(p, "start.claim")
    /\ \E v \in Answers(p, Target(p)) :
          /\ LooksOnly(p, Target(p), v)
          /\ IF v = Absent \/ MayTouch(owner[p], Me(p), cmd[p].force)
             THEN Goto(p, "start.again")
             ELSE IF Target(p) \in Machines THEN NextTarget(p)
             ELSE Goto(p, "start.take")
    /\ UNCHANGED <<cmd, owner, wasUp, roomVars>>

StartTake(p) ==
    /\ At(p, "start.take")
    /\ \E o \in RmOutcomes(Target(p)) :
          /\ RunsCommand(p, Target(p), o)
          /\ IF o.ok THEN Goto(p, "start.again") ELSE NextTarget(p)
    /\ UNCHANGED <<cmd, owner, wasUp, roomVars>>

\* A container that is there is started rather than rebuilt, and room is made
\* for it first.  A machine is started without.
StartAgain(p) ==
    /\ At(p, "start.again")
    /\ \E v \in Answers(p, Target(p)) :
          /\ LooksOnly(p, Target(p), v)
          /\ IF v = Absent
             THEN Goto(p, "start.missing") /\ UNCHANGED after
             ELSE /\ Goto(p, IF Target(p) \in Containers THEN "room.list" ELSE "start.start")
                  /\ after' = [after EXCEPT ![p] = "start.start"]
    /\ UNCHANGED <<cmd, owner, wasUp, names, up>>

\* ensureImage comes first, and an image that was not built fails the target.
StartNoImage(p) ==
    /\ At(p, "start.again") /\ "build" \in Faults
    /\ NextTarget(p)
    /\ UNCHANGED <<runnerVars, cacheVars, cmd, owner, wasUp, roomVars>>

StartStart(p) ==
    /\ At(p, "start.start")
    /\ \E o \in StartOutcomes(Target(p)) :
          /\ RunsCommand(p, Target(p), o)
          /\ IF o.ok THEN Goto(p, "start.missing")
             ELSE IF Target(p) \in Machines THEN NextTarget(p)
             ELSE Goto(p, "start.giveup")
    /\ UNCHANGED <<cmd, owner, wasUp, roomVars>>

\* A container that will not start is rebuilt.
StartGiveUp(p) ==
    /\ At(p, "start.giveup")
    /\ \E o \in RmOutcomes(Target(p)) : RunsCommand(p, Target(p), o)
    /\ Goto(p, "start.missing")
    /\ UNCHANGED <<cmd, owner, wasUp, roomVars>>

StartMissing(p) ==
    /\ At(p, "start.missing")
    /\ \E v \in Answers(p, Target(p)) :
          /\ LooksOnly(p, Target(p), v)
          /\ IF ~IsUp(v) /\ Target(p) \in Containers
             THEN /\ Goto(p, "room.list")
                  /\ after' = [after EXCEPT ![p] = "start.create"]
             ELSE Goto(p, "start.ready") /\ UNCHANGED after
    /\ UNCHANGED <<cmd, owner, wasUp, names, up>>

StartCreate(p) ==
    /\ At(p, "start.create")
    /\ \E o \in RunOutcomes(p, Target(p)) :
          /\ RunsCommand(p, Target(p), o)
          /\ IF o.ok THEN Goto(p, "start.ready") ELSE NextTarget(p)
    /\ UNCHANGED <<cmd, owner, wasUp, roomVars>>

\* waitReady and install: only a running server answers, and one that does not
\* answer in time fails the target and is left as it is.
StartReady(p) ==
    /\ At(p, "start.ready")
    /\ AsksReady(p, Target(p))
    /\ \/ Running(Target(p)) /\ ServerUp(p)
       \/ NextTarget(p)
    /\ UNCHANGED <<cmd, owner, wasUp, roomVars>>

---------------------------------------------------------------------------
(* makeRoom. *)

\* runningSince: the running containers of the list but the one being started,
\* with their place in the order they started.  A listing that fails is empty.
RoomList(p) ==
    /\ At(p, "room.list")
    /\ \E failed \in {FALSE} \cup MayFail("ps", TRUE) :
          names' = [names EXCEPT ![p] =
             IF failed THEN {}
             ELSE { [name |-> t, rank |-> Cardinality({ o \in older : o[2] = t })] :
                      t \in { u \in Containers \ {Target(p)} : Running(u) } }]
    /\ up' = [up EXCEPT ![p] = {}]
    /\ Goto(p, "room.load")
    /\ UNCHANGED <<runnerVars, cacheVars, cmd, owner, wasUp, after>>

Listed(p) == { n.name : n \in names[p] }

\* load: one inspect of all of them, which remembers nothing when one is gone.
RoomLoad(p) ==
    /\ At(p, "room.load")
    /\ \/ /\ \A t \in Listed(p) : cont[t] # Absent
          /\ seen' = [seen EXCEPT ![p] =
                [t \in Targets |-> IF t \in Listed(p) THEN cont[t] ELSE seen[p][t]]]
          /\ stale' = [stale EXCEPT ![p] = [t \in Targets |-> t \notin Listed(p) /\ stale[p][t]]]
       \/ /\ "inspect" \in Faults \/ \E t \in Listed(p) : cont[t] = Absent
          /\ UNCHANGED cacheVars
    /\ Goto(p, "room.owner")
    /\ UNCHANGED <<runnerVars, cmd, owner, wasUp, roomVars>>

\* Mutant: the order is read backwards.
Newest(S) == CHOOSE h \in S : \A g \in S : h.rank >= g.rank

\* The listed server that started first.
Oldest(S) == CHOOSE h \in S : \A g \in S : h.rank <= g.rank

RoomOwner(p) ==
    /\ At(p, "room.owner")
    /\ names[p] # {}
    /\ LET n == Oldest(names[p]) IN
          /\ \E v \in Answers(p, n.name) :
                /\ LooksForOwner(p, n.name, v)
                /\ up' = [up EXCEPT ![p] =
                            @ \cup {[name |-> n.name, owner |-> OwnerIn(v), rank |-> n.rank]}]
          /\ names' = [names EXCEPT ![p] = @ \ {n}]
    /\ UNCHANGED <<runnerVars, cmd, pc, todo, owner, wasUp, after>>

\* Mutant: room for one more is taken for room enough.
RoomMadeLate(p) ==
    /\ At(p, "room.owner")
    /\ names[p] = {} /\ Cardinality(up[p]) <= MaxRunning
    /\ Goto(p, after[p])
    /\ up' = [up EXCEPT ![p] = {}]
    /\ UNCHANGED <<runnerVars, cacheVars, cmd, owner, wasUp, names, after>>

\* Room is there: makeRoom returns.
RoomMade(p) ==
    /\ At(p, "room.owner")
    /\ names[p] = {} /\ Cardinality(up[p]) < MaxRunning
    /\ Goto(p, after[p])
    /\ up' = [up EXCEPT ![p] = {}]
    /\ UNCHANGED <<runnerVars, cacheVars, cmd, owner, wasUp, names, after>>

\* pickEvictee: with no owner named, only the caller's own can be chosen.
Evictable(p) == { h \in up[p] : cmd[p].force \/ h.owner = Me(p) }

\* Mutant: a server that did not stop is tried again.
RoomEvictAgain(p) ==
    /\ At(p, "room.owner")
    /\ names[p] = {} /\ Cardinality(up[p]) >= MaxRunning
    /\ Evictable(p) # {}
    /\ LET h == Oldest(Evictable(p)) IN
          \E o \in StopOutcomes(h.name) :
             /\ RunsCommand(p, h.name, o)
             /\ up' = [up EXCEPT ![p] = IF o.ok THEN @ \ {h} ELSE @]
    /\ UNCHANGED <<cmd, pc, todo, owner, wasUp, names, after>>

\* The oldest of them is stopped, and is off the list even when it did not stop.
RoomEvict(p) ==
    /\ At(p, "room.owner")
    /\ names[p] = {} /\ Cardinality(up[p]) >= MaxRunning
    /\ Evictable(p) # {}
    /\ LET h == Oldest(Evictable(p)) IN
          /\ \E o \in StopOutcomes(h.name) : RunsCommand(p, h.name, o)
          /\ up' = [up EXCEPT ![p] = @ \ {h}]
    /\ UNCHANGED <<cmd, pc, todo, owner, wasUp, names, after>>

\* None is the caller's: the start is refused.
RoomRefused(p) ==
    /\ At(p, "room.owner")
    /\ names[p] = {} /\ Cardinality(up[p]) >= MaxRunning
    /\ Evictable(p) = {}
    /\ NextTarget(p)
    /\ up' = [up EXCEPT ![p] = {}]
    /\ UNCHANGED <<runnerVars, cacheVars, cmd, owner, wasUp, names, after>>

---------------------------------------------------------------------------
(* doStop and doRemove. *)

StopLook(p) ==
    /\ At(p, "stop.look")
    /\ \E v \in Answers(p, Target(p)) :
          /\ LooksForOwner(p, Target(p), v)
          /\ IF IsUp(v) /\ MayTouch(OwnerIn(v), Me(p), cmd[p].force)
             THEN Goto(p, "stop.stop") ELSE NextTarget(p)
    /\ UNCHANGED <<cmd, owner, wasUp, roomVars>>

StopStop(p) ==
    /\ At(p, "stop.stop")
    /\ \E o \in StopOutcomes(Target(p)) : RunsCommand(p, Target(p), o)
    /\ NextTarget(p)
    /\ UNCHANGED <<cmd, owner, wasUp, roomVars>>

RemoveOwner(p) ==
    /\ At(p, "remove.owner")
    /\ \E v \in Answers(p, Target(p)) :
          /\ LooksForOwner(p, Target(p), v)
          /\ owner' = [owner EXCEPT ![p] = OwnerIn(v)]
    /\ Goto(p, "remove.running")
    /\ UNCHANGED <<cmd, wasUp, roomVars>>

RemoveRunning(p) ==
    /\ At(p, "remove.running")
    /\ \E v \in Answers(p, Target(p)) :
          /\ LooksOnly(p, Target(p), v)
          /\ IF Claimable(Target(p), owner[p], Me(p), cmd[p].force, IsUp(v))
             THEN Goto(p, "remove.exists") ELSE NextTarget(p)
    /\ UNCHANGED <<cmd, owner, wasUp, roomVars>>

\* A machine is confirmed first, and the answer may be no.
RemoveExists(p) ==
    /\ At(p, "remove.exists")
    /\ \E v \in Answers(p, Target(p)) :
          /\ LooksOnly(p, Target(p), v)
          /\ \/ v # Absent /\ Goto(p, "remove.rm")
             \/ v = Absent /\ NextTarget(p)
             \/ v # Absent /\ Target(p) \in Machines /\ ~cmd[p].yes /\ NextTarget(p)
    /\ UNCHANGED <<cmd, owner, wasUp, roomVars>>

RemoveRm(p) ==
    /\ At(p, "remove.rm")
    /\ \E o \in RmOutcomes(Target(p)) : RunsCommand(p, Target(p), o)
    /\ NextTarget(p)
    /\ UNCHANGED <<cmd, owner, wasUp, roomVars>>

---------------------------------------------------------------------------
(* doTest. *)

TestWasUp(p) ==
    /\ At(p, "test.wasup")
    /\ \E v \in Answers(p, Target(p)) :
          /\ LooksOnly(p, Target(p), v)
          /\ wasUp' = [wasUp EXCEPT ![p] = IsUp(v)]
    /\ Goto(p, StartEntry(Target(p)))
    /\ UNCHANGED <<cmd, owner, roomVars>>

TestOwner(p) ==
    /\ At(p, "test.owner")
    /\ \E v \in Answers(p, Target(p)) :
          /\ LooksForOwner(p, Target(p), v)
          /\ owner' = [owner EXCEPT ![p] = OwnerIn(v)]
    /\ Goto(p, "test.cleanup")
    /\ UNCHANGED <<cmd, wasUp, roomVars>>

\* The server is the test's own to remove: it may be touched, and it was not
\* somebody else's when the test began.
Keeps(p) ==
    IF cmd[p].keep THEN TRUE ELSE IF cmd[p].remove THEN FALSE ELSE Target(p) \in Machines

Shared(p) ==
    \/ ~MayTouch(owner[p], Me(p), cmd[p].force)
    \/ wasUp[p] /\ owner[p] # Me(p) /\ ~cmd[p].force

\* The tests have run, well or badly, and the deferred removal follows.  A
\* machine has no command that removes it here, so the runner refuses.
TestCleanup(p) ==
    /\ At(p, "test.cleanup")
    /\ IF Shared(p) \/ Keeps(p) \/ Target(p) \in Machines
       THEN UNCHANGED <<runnerVars, cacheVars>>
       ELSE \E o \in RmOutcomes(Target(p)) : RunsCommand(p, Target(p), o)
    /\ NextTarget(p)
    /\ UNCHANGED <<cmd, owner, wasUp, roomVars>>

---------------------------------------------------------------------------
\* A server stops by itself: it crashed, or the computer restarted.
Exit(t) ==
    /\ Exits /\ Running(t)
    /\ Becomes(t, [cont[t] EXCEPT !.running = FALSE])
    /\ MarkStale(t, Procs)
    /\ UNCHANGED <<cmd, pc, todo, seen, owner, wasUp, roomVars>>

StartStep(p) ==
    \/ StartExists(p) \/ StartOwner(p) \/ StartPorts(p) \/ StartClaimable(p)
    \/ StartRebuild(p) \/ StartRunning(p) \/ StartClaim(p) \/ StartTake(p)
    \/ StartNoImage(p) \/ StartAgain(p) \/ StartStart(p) \/ StartGiveUp(p) \/ StartMissing(p)
    \/ StartCreate(p) \/ StartReady(p)

RoomStep(p) ==
    RoomList(p) \/ RoomLoad(p) \/ RoomOwner(p) \/ RoomMade(p) \/ RoomEvict(p) \/ RoomRefused(p)

Step(p) ==
    \/ Remember(p) \/ RememberFails(p)
    \/ StartStep(p) \/ RoomStep(p)
    \/ StopLook(p) \/ StopStop(p)
    \/ RemoveOwner(p) \/ RemoveRunning(p) \/ RemoveExists(p) \/ RemoveRm(p)
    \/ TestWasUp(p) \/ TestOwner(p) \/ TestCleanup(p)

Init ==
    /\ cont \in Starts
    /\ older \in SUBSET (Targets \X Targets)
    /\ \A t, u \in Targets :
          IF t # u /\ Running(t) /\ Running(u)
          THEN <<t, u>> \in older <=> <<u, t>> \notin older
          ELSE <<t, u>> \notin older
    /\ \A t, u, v \in Targets : <<t, u>> \in older /\ <<u, v>> \in older => <<t, v>> \in older
    /\ cmd \in { c \in [Procs -> UNION { Invocations[p] : p \in Procs }] :
                   \A p \in Procs : c[p] \in Invocations[p] }
    /\ pc = [p \in Procs |-> "remember"]
    /\ todo = [p \in Procs |-> cmd[p].picked]
    /\ seen = [p \in Procs |-> [t \in Targets |-> NotSeen]]
    /\ owner = [p \in Procs |-> NoOwner]
    /\ wasUp = [p \in Procs |-> FALSE]
    /\ names = [p \in Procs |-> {}]
    /\ up = [p \in Procs |-> {}]
    /\ after = [p \in Procs |-> "start.create"]
    /\ stale = [p \in Procs |-> [t \in Targets |-> FALSE]]

Next == (\E p \in Procs : Step(p)) \/ (\E t \in Targets : Exit(t))

\* Every process goes on: a runner command ends, and so does a wait.
Spec == Init /\ [][Next]_vars /\ \A p \in Procs : WF_vars(Step(p))

---------------------------------------------------------------------------
(* Properties. *)

Labels ==
    {"remember", "done", "start.exists", "start.owner", "start.ports", "start.claimable",
     "start.rebuild", "start.running", "start.claim", "start.take", "start.again",
     "start.start", "start.giveup", "start.missing", "start.create", "start.ready",
     "room.list", "room.load", "room.owner", "stop.look", "stop.stop",
     "remove.owner", "remove.running", "remove.exists", "remove.rm",
     "test.wasup", "test.owner", "test.cleanup"}

Whose == Owners \cup {NoOwner}

\* Every variable keeps its type, and a process that is not done has a target
\* to act on (the loop of withRunner).
TypeOK ==
    /\ cont \in [Targets -> Container \cup {Absent}]
    /\ older \subseteq Targets \X Targets
    /\ cmd \in [Procs -> CommandLine]
    /\ pc \in [Procs -> Labels]
    /\ todo \in [Procs -> Seq(Targets)]
    /\ \A p \in Procs : pc[p] \notin {"remember", "done"} => todo[p] # <<>>
    /\ seen \in [Procs -> [Targets -> Container \cup {Absent, NotSeen}]]
    /\ owner \in [Procs -> Whose]
    /\ wasUp \in [Procs -> BOOLEAN]
    /\ names \in [Procs -> SUBSET [name : Containers, rank : Nat]]
    /\ up \in [Procs -> SUBSET [name : Containers, owner : Whose, rank : Nat]]
    /\ after \in [Procs -> {"start.start", "start.create"}]
    /\ stale \in [Procs -> [Targets -> BOOLEAN]]

\* What a process remembers of a container is what the container is, unless
\* somebody else changed it since: no command of its own leaves it an old
\* answer (runner.forget, called before the command runs).
CacheSound ==
    \A p \in Procs, t \in Targets :
        seen[p][t] # NotSeen /\ ~stale[p][t] => seen[p][t] = cont[t]

\* The process that takes a step, as against a server that stops by itself.
Acts(p) == <<pc[p], todo[p], up[p]>>' # <<pc[p], todo[p], up[p]>>

TakesDown(t) == Running(t) /\ ~IsUp(cont'[t])

Foreign(p, t) == cont[t].owner \notin {NoOwner, Me(p)} /\ ~cmd[p].force

\* A server with no owner is nobody else's to a command that names it, but it
\* is never stopped to make room, nor removed by a test that found it up.
NotToTakeDown(p, t) ==
    \/ Foreign(p, t)
    \/ /\ cont[t].owner = NoOwner /\ ~cmd[p].force
       /\ At(p, "room.owner") \/ (At(p, "test.cleanup") /\ wasUp[p])

\* A process takes down a running server that is not its own to take down only
\* when the server changed after the process asked whose it was: the decisions
\* of doStop, doRemove, doStart, makeRoom and doTest are never wrong about what
\* they read.
ForeignOnlyByRace ==
    [][\A p \in Procs, t \in Targets :
          Acts(p) /\ TakesDown(t) /\ NotToTakeDown(p, t) => stale[p][t]]_vars

\* owner.go, on ownerLabel: dbrun acts only on the caller's own servers unless
\* --force says otherwise.
OnlyOwnServers ==
    [][\A p \in Procs, t \in Targets :
          Acts(p) /\ TakesDown(t) => ~Foreign(p, t)]_vars

\* DBRUN.md, on owners: a start that needs room stops only the caller's own
\* oldest server.  Stated of a process with --force too, over every owner, and
\* while the runner answers what it is asked (pickEvictee, runningSince).
EvictsTheOldest ==
    [][\A p \in Procs, t \in Targets :
          Acts(p) /\ TakesDown(t) /\ At(p, "room.owner") =>
              \A u \in Containers \ {Target(p)} :
                  <<u, t>> \in older => cont[u].owner # Me(p) /\ ~cmd[p].force]_vars

\* DBRUN.md, on the lifecycle: after test a machine is kept unless --remove
\* was given.  A test that was asked to remove its server has removed it.
RemoveMeansRemoved ==
    [][\A p \in Procs :
          At(p, "test.cleanup") /\ Acts(p) /\ cmd[p].remove /\ ~Shared(p)
              => cont'[Target(p)] = Absent]_vars

Up == { t \in Containers : Running(t) }

Alone == \A p, q \in Procs : p = q \/ cmd[p].picked = <<>> \/ cmd[q].picked = <<>>

\* commands.go, on maxRunning: how many of these servers can be up at once.  A server
\* comes up only where no more than that are up then, whatever was up before.  Stated
\* of a process that is alone, since two may count the servers before either makes
\* its own.
WithinLimit ==
    [][Alone /\ ~(Up' \subseteq Up) => Cardinality(Up') <= MaxRunning]_vars

Promise == INSTANCE Ownership

\* owner.go, on ownerLabel: seen from the other sessions, all that the processes of
\* one session do is what Ownership allows.
KeepsThePromise == Promise!Spec

\* Every command comes to its end, whatever fails and whoever else is at work:
\* makeRoom never tries to stop the same server for ever.
EveryCommandEnds == \A p \in Procs : <>(pc[p] = "done")

=============================================================================
