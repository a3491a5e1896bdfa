------------------------------ MODULE Clusters ------------------------------
(***************************************************************************)
(* The Kubernetes clusters that dbrun keeps (test/cmd/dbrun/cluster.go):   *)
(* start, stop and remove, and the room for one more.                      *)
(*                                                                         *)
(* A cluster is two things that no step writes together: a record in a     *)
(* directory of its own, which says whose it is, and a node, the container *)
(* that kind makes, which cannot carry a label.  Several dbrun processes   *)
(* share both and nothing locks them.  A call to the runner, to kind or to *)
(* the file system is one step, and kind create is two: the node is there  *)
(* long before kind returns.                                               *)
(*                                                                         *)
(* Every wait has a deadline, so waitClusterReady is one step with either  *)
(* outcome.  A context that is canceled (Ctrl-C) makes each later call to  *)
(* the runner and to kind fail, and the file system still obeys.           *)
(***************************************************************************)
EXTENDS Naturals, Sequences, FiniteSets

CONSTANTS
    Procs,         \* the dbrun processes
    Owners,        \* who runs them
    OwnerOf,       \* the owner of each process, its currentOwner
    Releases,      \* the cluster targets of the list
    Names,         \* the names of clusters
    NameFor,       \* clusterNameFor: the name for a release and an owner
    ReleaseOf,     \* the release that a name begins with
    clusterLimit,  \* how many clusters can be running at once
    Invocations,   \* the command lines each process may be started with
    Starts,        \* what is on the machine when the processes begin
    Faults,        \* the calls that may fail for reasons of their own
    Interrupts     \* whether a person may press Ctrl-C

CommandLine == [name : {"start", "stop", "remove"}, picked : Seq(Releases), force : BOOLEAN]

Record == [name : Names, owner : Owners, created : Nat]

NodeStates == {"absent", "up", "down"}

\* A directory holds one record, and no two clusters were made at once.
OneEach(rs) == \A c, d \in rs : c.name = d.name \/ c.created = d.created => c = d

ASSUME ClustersAssumption ==
    /\ OwnerOf \in [Procs -> Owners] /\ Procs \cap Owners = {}
    /\ NameFor \in [Releases -> [Owners -> Names]]
    /\ ReleaseOf \in [Names -> Releases]
    /\ \A r \in Releases, o \in Owners : ReleaseOf[NameFor[r][o]] = r
    /\ clusterLimit \in Nat \ {0}
    /\ \A p \in Procs : Invocations[p] \subseteq CommandLine
    /\ Starts \subseteq [records : SUBSET Record, node : [Names -> NodeStates]]
    /\ \A s \in Starts :
          /\ IsFiniteSet(s.records) /\ OneEach(s.records)
          /\ \A c \in s.records : c.created <= Cardinality(s.records)
    /\ Faults \subseteq {"inspect", "runner", "kind", "disk"}
    /\ Interrupts \in BOOLEAN

VARIABLES
    records,    \* the state files that can be read
    clock,      \* the time, in clusters made
    node,       \* the node container of each name
    cmd,        \* the command line of each process
    pc, todo,   \* where each process is, and the releases it has still to do
    seen,       \* what each process remembers of each node
    list,       \* the clusters a loop has still to look at
    up,         \* makeRoomForCluster: those it found running
    canceled,   \* the processes whose context is done
    maker,      \* ghost: the process that made a node, or who had it before
    stale,      \* ghost: what others changed since a process read of it
    adrift,     \* ghost: the names whose record and node were parted
    crossed,    \* ghost: the names that were recorded or made on an old look
    missed,     \* ghost: the processes that did not count what somebody started
    overrun     \* ghost: a cluster was started on a count that missed one

vars == <<records, clock, node, cmd, pc, todo, seen, list, up, canceled,
          maker, stale, adrift, crossed, missed, overrun>>

control == <<cmd, todo>>
disk    == <<records, clock>>
machine == <<disk, node, maker>>
counts  == <<missed, overrun>>
ghosts  == <<stale, adrift, crossed, counts>>

Me(p) == OwnerOf[p]

\* withCluster: the name of the cluster a start is about.
Own(p) == NameFor[Head(todo[p])][Me(p)]

Recorded(n) == \E c \in records : c.name = n

Without(n) == { c \in records : c.name # n }

\* clustersOf one release.
ClustersOf(release) == { c \in records : ReleaseOf[c.name] = release }

\* The clusters are listed by their age, so a loop is at the oldest of what is left.
Oldest(cs) == CHOOSE c \in cs : \A d \in cs : c.created <= d.created

Others(cs) == cs \ {Oldest(cs)}

MadeBy(n) == IF maker[n] \in Procs THEN Me(maker[n]) ELSE maker[n]

Fails(p, what) == p \in canceled \/ what \in Faults

---------------------------------------------------------------------------
(* The control of one process. *)

At(p, label) == pc[p] = label

Goto(p, label) == pc' = [pc EXCEPT ![p] = label] /\ UNCHANGED control

Entry(name) ==
    CASE name = "start"  -> "start.look"
      [] name = "stop"   -> "stop.list"
      [] name = "remove" -> "remove.list"

\* Mutant: the command goes on after its last release.
NextTargetPast(p) ==
    /\ todo' = [todo EXCEPT ![p] = Tail(@)]
    /\ pc' = [pc EXCEPT ![p] = Entry(cmd[p].name)]
    /\ UNCHANGED cmd

\* The release is done, well or badly, and the next one picked begins.
NextTarget(p) ==
    /\ todo' = [todo EXCEPT ![p] = Tail(@)]
    /\ pc' = [pc EXCEPT ![p] = IF Tail(todo[p]) = <<>> THEN "done" ELSE Entry(cmd[p].name)]
    /\ UNCHANGED cmd

\* What p is about to make, once its record is written.
Making(p) == IF pc[p] \in {"start.create", "start.making"} THEN {Own(p)} ELSE {}

\* From the listing to the command that rests on it.
Counting(p) ==
    pc[p] \in {"room.look", "room.made", "room.delete", "room.rmdir",
               "start.exists", "start.restart", "start.write", "start.create"}

---------------------------------------------------------------------------
(* What a step of p does to the machine, and who is left with an old answer. *)

MarkStale(p, n) == stale' = [q \in Procs |-> IF q = p THEN stale[q] ELSE stale[q] \cup {n}]

NodeBecomes(p, n, s) ==
    /\ node' = [node EXCEPT ![n] = s]
    /\ seen' = [seen EXCEPT ![p][n] = "unknown"]
    /\ IF s = node[n] THEN UNCHANGED <<stale, counts>>
       ELSE /\ MarkStale(p, n)
            /\ missed' = missed \cup { q \in Procs \ {p} :
                  s = "up" /\ (Counting(q) \/ seen[q][n] = "down") }
            /\ overrun' = (overrun \/ (s = "up" /\ p \in missed))

\* The directory of n goes, and its record with it.
Forgets(p, n) ==
    /\ records' = Without(n)
    /\ MarkStale(p, n)
    /\ adrift' = IF p \in canceled \/ n \in stale[p] \cup UNION { Making(q) : q \in Procs \ {p} }
                 THEN adrift \cup {n} ELSE adrift
    /\ UNCHANGED <<clock, node, maker, crossed, counts>>

\* A node is asked after, unless it is remembered.  An inspect that fails is
\* taken for absence, and absence is not remembered.
Answers(p, n) ==
    IF seen[p][n] # "unknown" THEN {seen[p][n]}
    ELSE (IF p \in canceled THEN {} ELSE {node[n]})
           \cup (IF Fails(p, "inspect") THEN {"absent"} ELSE {})

Looks(p, n, s) ==
    /\ s \in Answers(p, n)
    /\ seen' = [seen EXCEPT ![p][n] = IF s = "absent" THEN @ ELSE s]
    /\ UNCHANGED <<machine, canceled, adrift, crossed, counts>>

\* What p reads anew is no longer old.
Reads(p, ns) == stale' = [stale EXCEPT ![p] = @ \ { n \in ns : seen[p][n] = "unknown" }]

---------------------------------------------------------------------------
(* removeCluster: kind delete, and then the directory. *)

\* Mutant: the directory goes first.
DeleteDirFirst(p, n, then) ==
    /\ Forgets(p, n)
    /\ Goto(p, then)
    /\ UNCHANGED <<seen, list, up, canceled>>

Delete(p, n, then) ==
    /\ \/ p \notin canceled /\ NodeBecomes(p, n, "absent") /\ Goto(p, then)
       \/ Fails(p, "kind") /\ NodeBecomes(p, n, node[n]) /\ NextTarget(p)
    /\ UNCHANGED <<disk, maker, list, up, canceled, adrift, crossed>>

Rmdir(p, n, Then) ==
    /\ \/ Forgets(p, n) /\ Then
       \/ /\ "disk" \in Faults /\ NextTarget(p)
          /\ UNCHANGED <<machine, ghosts>>
    /\ UNCHANGED <<seen, canceled>>

---------------------------------------------------------------------------
(* doStartCluster. *)

\* A cluster that runs is waited for, whatever its record says.
StartLook(p) ==
    /\ At(p, "start.look")
    /\ \E s \in Answers(p, Own(p)) :
          /\ Looks(p, Own(p), s) /\ Reads(p, {Own(p)})
          /\ Goto(p, IF s = "up" THEN "start.ready" ELSE "room.list")
    /\ UNCHANGED <<list, up>>

\* raisePids and waitClusterReady, which run commands that name the node.
StartReady(p) ==
    /\ At(p, "start.ready")
    /\ seen' = [seen EXCEPT ![p][Own(p)] = "unknown"]
    /\ NextTarget(p)
    /\ UNCHANGED <<machine, list, up, canceled, ghosts>>

StartExists(p) ==
    /\ At(p, "start.exists")
    /\ \E s \in Answers(p, Own(p)) :
          /\ Looks(p, Own(p), s)
          /\ Goto(p, IF s = "absent" THEN "start.write" ELSE "start.restart")
    /\ UNCHANGED <<list, up, stale>>

\* restartCluster: the node is started and the kubeconfig written again.
StartRestart(p) ==
    /\ At(p, "start.restart")
    /\ \/ /\ p \notin canceled /\ node[Own(p)] # "absent"
          /\ NodeBecomes(p, Own(p), "up")
          /\ Goto(p, "start.ready") \/ (Fails(p, "kind") /\ NextTarget(p))
       \/ /\ Fails(p, "runner") \/ node[Own(p)] = "absent"
          /\ NodeBecomes(p, Own(p), node[Own(p)])
          /\ NextTarget(p)
    /\ UNCHANGED <<disk, maker, list, up, canceled, adrift, crossed>>

\* writeCluster.  One that fails leaves a file that cannot be read, or what was there.
StartWrite(p) ==
    /\ At(p, "start.write")
    /\ \/ /\ clock' = clock + 1
          /\ records' = Without(Own(p))
                          \cup {[name |-> Own(p), owner |-> Me(p), created |-> clock']}
          /\ MarkStale(p, Own(p))
          /\ crossed' = IF p \in canceled \/ Own(p) \in stale[p]
                        THEN crossed \cup {Own(p)} ELSE crossed \ {Own(p)}
          /\ Goto(p, "start.create")
          /\ UNCHANGED <<node, maker, adrift, counts>>
       \/ /\ "disk" \in Faults
          /\ Forgets(p, Own(p)) \/ UNCHANGED <<machine, ghosts>>
          /\ NextTarget(p)
    /\ UNCHANGED <<seen, list, up, canceled>>

\* kind create makes the node first.  A node of that name is an error.
StartCreate(p) ==
    /\ At(p, "start.create")
    /\ \/ /\ p \notin canceled /\ node[Own(p)] = "absent"
          /\ NodeBecomes(p, Own(p), "up")
          /\ maker' = [maker EXCEPT ![Own(p)] = p]
          /\ crossed' = IF Own(p) \in stale[p] THEN crossed \cup {Own(p)} ELSE crossed
          /\ Goto(p, "start.making")
       \/ /\ Fails(p, "kind") \/ node[Own(p)] # "absent"
          /\ NodeBecomes(p, Own(p), node[Own(p)])
          /\ Goto(p, "start.undo")
          /\ UNCHANGED <<maker, crossed>>
    /\ UNCHANGED <<disk, list, up, canceled, adrift>>

\* And then it builds the cluster in it.  When that fails kind deletes the node
\* itself if it can, and it cannot when it was killed.
StartMaking(p) ==
    /\ At(p, "start.making")
    /\ \/ /\ p \notin canceled /\ node[Own(p)] = "up"
          /\ NodeBecomes(p, Own(p), node[Own(p)])
          /\ Goto(p, "start.ready")
       \/ /\ Fails(p, "kind") \/ node[Own(p)] # "up"
          /\ \E s \in {node[Own(p)]} \cup (IF p \in canceled THEN {} ELSE {"absent"}) :
                NodeBecomes(p, Own(p), s)
          /\ Goto(p, "start.undo")
    /\ UNCHANGED <<disk, maker, list, up, canceled, adrift, crossed>>

\* What kind made is removed, and nothing asks whether that worked.
StartUndo(p) ==
    /\ At(p, "start.undo")
    /\ \/ p \notin canceled /\ NodeBecomes(p, Own(p), "absent") /\ UNCHANGED adrift
       \/ /\ Fails(p, "kind")
          /\ NodeBecomes(p, Own(p), node[Own(p)])
          /\ adrift' = IF node[Own(p)] = "absent" THEN adrift ELSE adrift \cup {Own(p)}
    /\ Goto(p, "start.forget")
    /\ UNCHANGED <<disk, maker, list, up, canceled, crossed>>

StartForget(p) ==
    /\ At(p, "start.forget")
    /\ \/ Forgets(p, Own(p))
       \/ "disk" \in Faults /\ UNCHANGED <<machine, ghosts>>
    /\ NextTarget(p)
    /\ UNCHANGED <<seen, list, up, canceled>>

---------------------------------------------------------------------------
(* makeRoomForCluster. *)

RoomList(p) ==
    /\ At(p, "room.list")
    /\ list' = [list EXCEPT ![p] = records]
    /\ up' = [up EXCEPT ![p] = {}]
    /\ missed' = IF \E n \in Names : seen[p][n] = "down" /\ node[n] = "up"
                 THEN missed \cup {p} ELSE missed \ {p}
    /\ Reads(p, Names \ {Own(p)})
    /\ Goto(p, "room.look")
    /\ UNCHANGED <<machine, seen, canceled, adrift, crossed, overrun>>

\* runningClusters, one look for each, without the one that is to be started.
RoomLook(p) ==
    /\ At(p, "room.look") /\ list[p] # {}
    /\ LET c == Oldest(list[p])
       IN  \E s \in Answers(p, c.name) :
              /\ Looks(p, c.name, s)
              /\ up' = [up EXCEPT ![p] =
                          IF s = "up" /\ c.name # Own(p) THEN @ \cup {c} ELSE @]
    /\ list' = [list EXCEPT ![p] = Others(@)]
    /\ Goto(p, "room.look")
    /\ UNCHANGED stale

RoomCounted(p) ==
    /\ At(p, "room.look") /\ list[p] = {}
    /\ Goto(p, "room.made")
    /\ UNCHANGED <<machine, seen, list, up, canceled, ghosts>>

\* Mutant: the limit itself is room for one more.
RoomMadePast(p) ==
    /\ At(p, "room.made")
    /\ IF Cardinality(up[p]) <= clusterLimit THEN Goto(p, "start.exists")
       ELSE IF cmd[p].force THEN Goto(p, "room.delete")
       ELSE NextTarget(p)
    /\ UNCHANGED <<machine, seen, list, up, canceled, ghosts>>

\* There is room, or the oldest goes if --force was given, or the start is refused.
RoomMade(p) ==
    /\ At(p, "room.made")
    /\ IF Cardinality(up[p]) < clusterLimit THEN Goto(p, "start.exists")
       ELSE IF cmd[p].force THEN Goto(p, "room.delete")
       ELSE NextTarget(p)
    /\ UNCHANGED <<machine, seen, list, up, canceled, ghosts>>

RoomDelete(p) == At(p, "room.delete") /\ Delete(p, Oldest(up[p]).name, "room.rmdir")

\* Mutant: the cluster that was removed is still counted.
RoomRmdirAgain(p) ==
    /\ At(p, "room.rmdir")
    /\ Rmdir(p, Oldest(up[p]).name, Goto(p, "room.made"))
    /\ UNCHANGED <<list, up>>

RoomRmdir(p) ==
    /\ At(p, "room.rmdir")
    /\ Rmdir(p, Oldest(up[p]).name, Goto(p, "room.made"))
    /\ up' = [up EXCEPT ![p] = Others(@)]
    /\ UNCHANGED list

---------------------------------------------------------------------------
(* doStopCluster and doRemoveCluster: over every cluster of the release. *)

List(p, label, then) ==
    /\ At(p, label)
    /\ list' = [list EXCEPT ![p] = ClustersOf(Head(todo[p]))]
    /\ Reads(p, Names)
    /\ Goto(p, then)
    /\ UNCHANGED <<machine, seen, up, canceled, adrift, crossed, counts>>

StopList(p) == List(p, "stop.list", "stop.look")

RemoveList(p) == List(p, "remove.list", "remove.look")

\* The loop has nothing left to look at.
Through(p) ==
    /\ pc[p] \in {"stop.look", "remove.look"} /\ list[p] = {}
    /\ NextTarget(p)
    /\ UNCHANGED <<machine, seen, list, up, canceled, ghosts>>

\* mayTouch.
MayTouch(p, c) == cmd[p].force \/ c.owner = Me(p)

\* One that is somebody else's is passed over, unless it bears the caller's name.
NotYours(p) ==
    IF Oldest(list[p]).name = Own(p) THEN NextTarget(p) /\ UNCHANGED list
    ELSE /\ list' = [list EXCEPT ![p] = Others(@)]
         /\ UNCHANGED <<cmd, pc, todo>>

StopLook(p) ==
    /\ At(p, "stop.look") /\ list[p] # {}
    /\ LET c == Oldest(list[p])
       IN  IF ~MayTouch(p, c)
           THEN NotYours(p) /\ UNCHANGED <<machine, seen, canceled, ghosts>>
           ELSE \E s \in Answers(p, c.name) :
                  /\ Looks(p, c.name, s) /\ UNCHANGED stale
                  /\ IF s = "up" THEN Goto(p, "stop.stop") /\ UNCHANGED list
                     ELSE /\ list' = [list EXCEPT ![p] = Others(@)]
                          /\ Goto(p, "stop.look")
    /\ UNCHANGED up

StopStop(p) ==
    /\ At(p, "stop.stop")
    /\ LET n == Oldest(list[p]).name
       IN  \/ /\ p \notin canceled /\ node[n] # "absent"
              /\ NodeBecomes(p, n, "down")
              /\ Goto(p, "stop.look")
           \/ /\ Fails(p, "runner") \/ node[n] = "absent"
              /\ NodeBecomes(p, n, node[n])
              /\ NextTarget(p)
    /\ list' = [list EXCEPT ![p] = Others(@)]
    /\ UNCHANGED <<disk, maker, up, canceled, adrift, crossed>>

\* Mutant: a running cluster is removed as a stopped one is.
RemoveLookAny(p) ==
    /\ At(p, "remove.look") /\ list[p] # {}
    /\ \E s \in Answers(p, Oldest(list[p]).name) :
          Looks(p, Oldest(list[p]).name, s) /\ UNCHANGED stale
    /\ Goto(p, "remove.delete")
    /\ UNCHANGED <<list, up>>

\* A cluster of somebody else is removed too when it does not run.
RemoveLook(p) ==
    /\ At(p, "remove.look") /\ list[p] # {}
    /\ LET c == Oldest(list[p])
       IN  \E s \in Answers(p, c.name) :
              /\ Looks(p, c.name, s) /\ UNCHANGED stale
              /\ IF s = "up" /\ ~MayTouch(p, c) THEN NotYours(p)
                 ELSE Goto(p, "remove.delete") /\ UNCHANGED list
    /\ UNCHANGED up

RemoveDelete(p) == At(p, "remove.delete") /\ Delete(p, Oldest(list[p]).name, "remove.rmdir")

RemoveRmdir(p) ==
    /\ At(p, "remove.rmdir")
    /\ Rmdir(p, Oldest(list[p]).name, Goto(p, "remove.look"))
    /\ list' = [list EXCEPT ![p] = Others(@)]
    /\ UNCHANGED up

---------------------------------------------------------------------------
\* Ctrl-C.
Interrupt(p) ==
    /\ Interrupts /\ p \notin canceled /\ pc[p] # "done"
    /\ canceled' = canceled \cup {p}
    /\ UNCHANGED <<machine, control, pc, seen, list, up, ghosts>>

Step(p) ==
    \/ StartLook(p) \/ StartReady(p) \/ StartExists(p) \/ StartRestart(p)
    \/ StartWrite(p) \/ StartCreate(p) \/ StartMaking(p) \/ StartUndo(p) \/ StartForget(p)
    \/ RoomList(p) \/ RoomLook(p) \/ RoomCounted(p) \/ RoomMade(p)
    \/ RoomDelete(p) \/ RoomRmdir(p)
    \/ StopList(p) \/ StopLook(p) \/ StopStop(p)
    \/ RemoveList(p) \/ RemoveLook(p) \/ RemoveDelete(p) \/ RemoveRmdir(p)
    \/ Through(p)

Init ==
    /\ \E s \in Starts : records = s.records /\ node = s.node
    /\ clock = Cardinality(records)
    /\ cmd \in { c \in [Procs -> UNION { Invocations[p] : p \in Procs }] :
                   \A p \in Procs : c[p] \in Invocations[p] }
    /\ todo = [p \in Procs |-> cmd[p].picked]
    /\ pc = [p \in Procs |-> IF todo[p] = <<>> THEN "done" ELSE Entry(cmd[p].name)]
    /\ seen = [p \in Procs |-> [n \in Names |-> "unknown"]]
    /\ list = [p \in Procs |-> {}]
    /\ up = [p \in Procs |-> {}]
    /\ canceled = {}
    /\ maker \in [Names -> Owners]
    /\ \A c \in records : maker[c.name] = c.owner
    /\ \A n \in Names : Recorded(n) \/ maker[n] = CHOOSE o \in Owners : TRUE
    /\ stale = [p \in Procs |-> {}]
    /\ adrift = {} /\ crossed = {}
    /\ missed = {}
    /\ overrun = FALSE

Next == \E p \in Procs : Step(p) \/ Interrupt(p)

\* Every process goes on: a command ends, and so does a wait.
Spec == Init /\ [][Next]_vars /\ \A p \in Procs : WF_vars(Step(p))

---------------------------------------------------------------------------
(* Properties. *)

Labels ==
    {"done", "start.look", "start.ready", "start.exists", "start.restart", "start.write",
     "start.create", "start.making", "start.undo", "start.forget",
     "room.list", "room.look", "room.made", "room.delete", "room.rmdir",
     "stop.list", "stop.look", "stop.stop",
     "remove.list", "remove.look", "remove.delete", "remove.rmdir"}

\* Every variable keeps its type, and a name has one record.
TypeOK ==
    /\ records \subseteq Record /\ IsFiniteSet(records) /\ OneEach(records)
    /\ clock \in Nat /\ \A c \in records : c.created <= clock
    /\ node \in [Names -> NodeStates]
    /\ cmd \in [Procs -> CommandLine]
    /\ pc \in [Procs -> Labels]
    /\ todo \in [Procs -> Seq(Releases)]
    /\ \A p \in Procs : pc[p] # "done" => todo[p] # <<>>
    /\ seen \in [Procs -> [Names -> {"unknown", "up", "down"}]]
    /\ list \in [Procs -> SUBSET Record]
    /\ up \in [Procs -> SUBSET Record]
    /\ canceled \subseteq Procs
    /\ maker \in [Names -> Procs \cup Owners]
    /\ stale \in [Procs -> SUBSET Names]
    /\ adrift \subseteq Names /\ crossed \subseteq Names
    /\ missed \subseteq Procs
    /\ overrun \in BOOLEAN

\* Every node has a record that says whose it is, so that the limit counts it
\* and remove finds it.  The two part only where the undo of a failed start was
\* cut short, or where a directory was removed while somebody else was making
\* the cluster again (doStartCluster: a failure leaves nothing to explain).
Explained == \A n \in Names : node[n] # "absent" /\ n \notin adrift => Recorded(n)

\* No more clusters run than may, unless one was started on a count taken before
\* somebody else started another, which nothing prevents (makeRoomForCluster).
WithinClusterLimit ==
    ~overrun =>
        Cardinality({ n \in Names \ adrift : Recorded(n) /\ node[n] = "up" }) <= clusterLimit

TakesDown(n) == node[n] = "up" /\ node'[n] # "up"

\* Without --force a running cluster is taken down by a command of its owner or
\* by the start that made it, and otherwise only when somebody changed it after
\* the process read of it, or when two starts of one name crossed, so that its
\* record says one owner and its node is another's.  A start is not to undo what
\* another start made, and a name that two owners come by is not to be enough
\* (doStopCluster, doRemoveCluster, and the undo of doStartCluster).
TakesDownItsOwn ==
    [][\A p \in Procs, n \in Names :
          pc'[p] # pc[p] /\ TakesDown(n) /\ ~cmd[p].force =>
              \/ n \in stale[p] \cup crossed
              \/ cmd[p].name # "start" /\ MadeBy(n) = Me(p)
              \/ cmd[p].name = "start" /\ maker[n] = p]_vars

\* doStartCluster, on the undo: what kind made is removed, so that a failure
\* leaves nothing to count against the limit and nothing to explain.
FailureLeavesNothing ==
    [][\A p \in Procs :
          At(p, "start.forget") /\ todo'[p] # todo[p] =>
              node'[NameFor[Head(todo[p])][Me(p)]] = "absent"]_vars

\* Every command comes to its end, with --force too: the loop of
\* makeRoomForCluster removes one cluster at each turn.
EveryClusterCommandEnds == \A p \in Procs : <>At(p, "done")

=============================================================================
