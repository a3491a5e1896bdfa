--------------------------- MODULE ClustersProofs ---------------------------
(***************************************************************************)
(* What holds of the clusters of a machine, however many processes, owners *)
(* and releases there are, whatever fails and whoever presses Ctrl-C: the  *)
(* types, that every node has its record, that no more run than may, and   *)
(* that a command takes down what is its caller's.                         *)
(***************************************************************************)
EXTENDS Clusters, FiniteSetTheorems, WellFoundedInduction, TLAPS

\* p is in a start.
Starting(p) ==
    pc[p] \in {"start.look", "start.ready", "start.exists", "start.restart", "start.write",
               "start.create", "start.making", "start.undo", "start.forget",
               "room.list", "room.look", "room.made", "room.delete", "room.rmdir"}

\* The parts of the type invariant.
DiskOK ==
    /\ records \subseteq Record /\ IsFiniteSet(records) /\ OneEach(records)
    /\ clock \in Nat /\ \A c \in records : c.created <= clock
NodesOK == node \in [Names -> NodeStates] /\ maker \in [Names -> Procs \cup Owners]
PlaceOK ==
    /\ cmd \in [Procs -> CommandLine]
    /\ pc \in [Procs -> Labels]
    /\ todo \in [Procs -> Seq(Releases)]
    /\ \A p \in Procs : pc[p] # "done" => todo[p] # <<>>
SeenOK == seen \in [Procs -> [Names -> {"unknown", "up", "down"}]]
LoopOK == list \in [Procs -> SUBSET Record] /\ up \in [Procs -> SUBSET Record]
GhostOK ==
    /\ canceled \subseteq Procs /\ stale \in [Procs -> SUBSET Names]
    /\ adrift \subseteq Names /\ crossed \subseteq Names
    /\ missed \subseteq Procs /\ overrun \in BOOLEAN

LEMMA Parts == TypeOK <=> DiskOK /\ NodesOK /\ PlaceOK /\ SeenOK /\ LoopOK /\ GhostOK
  BY DEF TypeOK, DiskOK, NodesOK, PlaceOK, SeenOK, LoopOK, GhostOK

\* The label belongs to the command, and a loop that acts on a cluster has one.
ControlAt(p) ==
    /\ pc[p] \in {"stop.list", "stop.look", "stop.stop"} => cmd[p].name = "stop"
    /\ pc[p] \in {"remove.list", "remove.look", "remove.delete", "remove.rmdir"}
          => cmd[p].name = "remove"
    /\ Starting(p) => cmd[p].name = "start"
    /\ pc[p] \in {"stop.stop", "remove.delete", "remove.rmdir"} => list[p] # {}
    /\ pc[p] \in {"room.delete", "room.rmdir"} => up[p] # {} /\ cmd[p].force
    /\ IsFiniteSet(list[p]) /\ IsFiniteSet(up[p])

ControlOK == \A p \in Procs : ControlAt(p)

Typed == TypeOK /\ ControlOK

---------------------------------------------------------------------------
(* The operators of the model. *)

\* The oldest of what a loop has left is one of them.
LEMMA OldestIn ==
    ASSUME NEW S, S # {}, \A c \in S : c.created \in Nat
    PROVE  Oldest(S) \in S
<1> DEFINE times == { c.created : c \in S }
<1>1. times \subseteq Nat /\ times # {}
  OBVIOUS
<1>2. PICK n \in times : \A m \in times : ~(<<m, n>> \in OpToRel(<, Nat))
  BY <1>1, WFMin, NatLessThanWellFounded
<1>3. \A m \in times : n <= m
  <2> SUFFICES ASSUME NEW m \in times PROVE n <= m
    OBVIOUS
  <2>1. <<m, n>> \in Nat \X Nat /\ <<m, n>>[1] = m /\ <<m, n>>[2] = n
    BY <1>1
  <2>2. ~(m < n)
    <3> HIDE DEF times
    <3> QED BY <1>2, <2>1, Zenon DEF OpToRel
  <2> QED BY <1>1, <2>2
<1>4. PICK c \in S : c.created = n
  OBVIOUS
<1>5. \A d \in S : c.created <= d.created
  BY <1>3, <1>4
<1> QED BY <1>5 DEF Oldest

\* A cluster that a loop is at has a name.
LEMMA OldestType ==
    ASSUME NEW S \in SUBSET Record, S # {}
    PROVE  Oldest(S) \in S /\ Oldest(S) \in Record /\ Oldest(S).name \in Names
<1>1. \A c \in S : c.created \in Nat
  BY DEF Record
<1> QED BY <1>1, OldestIn DEF Record

LEMMA LoopAt ==
    ASSUME Typed, NEW p \in Procs
    PROVE  /\ list[p] # {} => Oldest(list[p]) \in list[p] /\ Oldest(list[p]).name \in Names
           /\ up[p] # {} => Oldest(up[p]) \in up[p] /\ Oldest(up[p]).name \in Names
  BY OldestType DEF Typed, TypeOK

\* The name that a start is about.
LEMMA OwnType ==
    ASSUME PlaceOK, NEW p \in Procs, pc[p] # "done"
    PROVE  /\ todo[p] # <<>> /\ Tail(todo[p]) \in Seq(Releases)
           /\ Head(todo[p]) \in Releases /\ Me(p) \in Owners /\ Own(p) \in Names
<1>1. todo[p] \in Seq(Releases) /\ todo[p] # <<>>
  BY DEF PlaceOK
<1>2. Head(todo[p]) \in Releases /\ Tail(todo[p]) \in Seq(Releases)
  BY <1>1
<1>3. Me(p) \in Owners
  BY ClustersAssumption DEF Me
<1>4. Own(p) \in Names
  BY <1>2, <1>3, ClustersAssumption DEF Own
<1> QED BY <1>1, <1>2, <1>3, <1>4

LEMMA EntryType ==
    ASSUME NEW c \in CommandLine
    PROVE  /\ Entry(c.name) \in {"start.look", "stop.list", "remove.list"}
           /\ Entry(c.name) = "start.look" => c.name = "start"
           /\ Entry(c.name) = "stop.list" => c.name = "stop"
           /\ Entry(c.name) = "remove.list" => c.name = "remove"
  BY DEF CommandLine, Entry

\* The release after this one begins where its command begins.
LEMMA NextTargetTo ==
    ASSUME PlaceOK, NEW p \in Procs, pc[p] # "done", NextTarget(p)
    PROVE  /\ PlaceOK' /\ cmd' = cmd
           /\ \A q \in Procs \ {p} : pc'[q] = pc[q] /\ todo'[q] = todo[q]
           /\ pc'[p] \in {"done", "start.look", "stop.list", "remove.list"}
           /\ pc'[p] = "start.look" => cmd[p].name = "start"
           /\ pc'[p] = "stop.list" => cmd[p].name = "stop"
           /\ pc'[p] = "remove.list" => cmd[p].name = "remove"
<1>1. todo' = [todo EXCEPT ![p] = Tail(todo[p])] /\ Tail(todo[p]) \in Seq(Releases)
  BY OwnType DEF NextTarget
<1>2. cmd' = cmd /\ cmd[p] \in CommandLine
  BY DEF NextTarget, PlaceOK
<1>3. PICK label : /\ pc' = [pc EXCEPT ![p] = label]
                   /\ label = IF Tail(todo[p]) = <<>> THEN "done" ELSE Entry(cmd[p].name)
  BY DEF NextTarget
<1>4. label \in {"done", "start.look", "stop.list", "remove.list"}
  BY <1>2, <1>3, EntryType
<1>5. label \in Labels
  BY <1>4 DEF Labels
<1>6. PlaceOK'
  BY <1>1, <1>2, <1>3, <1>4, <1>5 DEF PlaceOK
<1> QED BY <1>1, <1>2, <1>3, <1>4, <1>6, EntryType DEF PlaceOK

LEMMA GotoTo ==
    ASSUME PlaceOK, NEW p \in Procs, pc[p] # "done", NEW label \in Labels, Goto(p, label)
    PROVE  /\ PlaceOK' /\ cmd' = cmd /\ todo' = todo /\ pc'[p] = label
           /\ \A q \in Procs \ {p} : pc'[q] = pc[q]
  BY DEF PlaceOK, Goto, control

---------------------------------------------------------------------------
(* What each part of a step does. *)

LEMMA MarkStaleTo ==
    ASSUME GhostOK, NEW p \in Procs, NEW n \in Names, MarkStale(p, n)
    PROVE  /\ stale' \in [Procs -> SUBSET Names] /\ stale'[p] = stale[p]
           /\ \A q \in Procs \ {p} : stale'[q] = stale[q] \cup {n}
  BY DEF GhostOK, MarkStale

LEMMA ReadsTo ==
    ASSUME GhostOK, NEW p \in Procs, NEW ns, Reads(p, ns)
    PROVE  /\ stale' \in [Procs -> SUBSET Names]
           /\ stale'[p] = stale[p] \ { n \in ns : seen[p][n] = "unknown" }
           /\ \A q \in Procs \ {p} : stale'[q] = stale[q]
  BY DEF GhostOK, Reads

\* A node that changes marks everybody else, and whoever counts without it.
LEMMA BecomesTo ==
    ASSUME NodesOK, SeenOK, GhostOK, NEW p \in Procs, NEW n \in Names, NEW s \in NodeStates,
           NodeBecomes(p, n, s)
    PROVE  /\ node' = [node EXCEPT ![n] = s] /\ node' \in [Names -> NodeStates]
           /\ SeenOK' /\ seen'[p][n] = "unknown"
           /\ \A m \in Names \ {n} : seen'[p][m] = seen[p][m]
           /\ \A q \in Procs \ {p} : seen'[q] = seen[q]
           /\ stale' \in [Procs -> SUBSET Names] /\ stale'[p] = stale[p]
           /\ \A q \in Procs \ {p} : /\ stale[q] \subseteq stale'[q]
                                     /\ s # node[n] => n \in stale'[q]
           /\ missed \subseteq missed' /\ missed' \subseteq Procs /\ (p \in missed' => p \in missed)
           /\ \A q \in Procs \ {p} :
                 s = "up" /\ s # node[n] /\ (Counting(q) \/ seen[q][n] = "down")
                    => q \in missed'
<1>1. node' = [node EXCEPT ![n] = s] /\ seen' = [seen EXCEPT ![p][n] = "unknown"]
  BY DEF NodeBecomes
<1>2. node' \in [Names -> NodeStates]
  BY <1>1 DEF NodesOK
<1>3. /\ SeenOK' /\ seen'[p][n] = "unknown"
      /\ \A m \in Names \ {n} : seen'[p][m] = seen[p][m]
      /\ \A q \in Procs \ {p} : seen'[q] = seen[q]
  BY <1>1 DEF SeenOK
<1>4. CASE s = node[n]
  <2>1. stale' = stale /\ missed' = missed /\ overrun' = overrun
    BY <1>4 DEF NodeBecomes, counts
  <2> QED BY <1>1, <1>2, <1>3, <1>4, <2>1 DEF GhostOK
<1>5. CASE s # node[n]
  <2>1. /\ MarkStale(p, n)
        /\ missed' = missed \cup { q \in Procs \ {p} :
              s = "up" /\ (Counting(q) \/ seen[q][n] = "down") }
        /\ overrun' = (overrun \/ (s = "up" /\ p \in missed))
    BY <1>5 DEF NodeBecomes
  <2>2. /\ stale' \in [Procs -> SUBSET Names] /\ stale'[p] = stale[p]
        /\ \A q \in Procs \ {p} : stale'[q] = stale[q] \cup {n}
    BY <2>1, MarkStaleTo
  <2>3. /\ missed \subseteq missed' /\ missed' \subseteq Procs /\ (p \in missed' => p \in missed)
        /\ \A q \in Procs \ {p} :
              s = "up" /\ (Counting(q) \/ seen[q][n] = "down") => q \in missed'
    BY <2>1 DEF GhostOK
  <2> QED BY <1>1, <1>2, <1>3, <1>5, <2>2, <2>3
<1> QED BY <1>4, <1>5

\* A start on a count that missed one is an overrun.
LEMMA BecomesCount ==
    ASSUME GhostOK, NEW p \in Procs, NEW n \in Names, NEW s \in NodeStates,
           NodeBecomes(p, n, s)
    PROVE  /\ overrun' \in BOOLEAN
           /\ overrun \/ (s = "up" /\ s # node[n] /\ p \in missed) => overrun'
<1>1. CASE s = node[n]
  BY <1>1 DEF NodeBecomes, counts, GhostOK
<1>2. CASE s # node[n]
  BY <1>2 DEF NodeBecomes, GhostOK
<1> QED BY <1>1, <1>2

\* A directory that goes leaves nothing else changed, and its name adrift when
\* somebody is making that cluster.
LEMMA ForgetsTo ==
    ASSUME DiskOK, GhostOK, NEW p \in Procs, NEW n \in Names, Forgets(p, n)
    PROVE  /\ DiskOK' /\ records' = { c \in records : c.name # n } /\ clock' = clock
           /\ UNCHANGED <<node, maker, crossed, missed, overrun>>
           /\ stale' \in [Procs -> SUBSET Names] /\ stale'[p] = stale[p]
           /\ \A q \in Procs \ {p} : stale'[q] = stale[q] \cup {n}
           /\ adrift \subseteq adrift' /\ adrift' \subseteq adrift \cup {n}
           /\ p \in canceled \/ n \in stale[p] => n \in adrift'
           /\ \A q \in Procs \ {p} : n \in Making(q) => n \in adrift'
<1>1. records' = { c \in records : c.name # n } /\ UNCHANGED <<clock, node, maker, crossed, counts>>
  BY DEF Forgets, Without
<1>2. MarkStale(p, n)
  BY DEF Forgets
<1>3. adrift' = IF p \in canceled \/ n \in stale[p] \cup UNION { Making(q) : q \in Procs \ {p} }
                THEN adrift \cup {n} ELSE adrift
  BY DEF Forgets
<1>4. records' \subseteq records
  BY <1>1
<1>5. IsFiniteSet(records')
  BY <1>4, FS_Subset DEF DiskOK
<1>6. DiskOK'
  BY <1>1, <1>4, <1>5 DEF DiskOK, OneEach
<1>7. /\ stale' \in [Procs -> SUBSET Names] /\ stale'[p] = stale[p]
      /\ \A q \in Procs \ {p} : stale'[q] = stale[q] \cup {n}
  BY <1>2, MarkStaleTo
<1>8. \A q \in Procs \ {p} : n \in Making(q) => n \in adrift'
  BY <1>3
<1> QED BY <1>1, <1>3, <1>6, <1>7, <1>8 DEF counts

\* An answer is what the node is or what is remembered of it, unless the process
\* was interrupted or its runner fails.
LEMMA AnswersTo ==
    ASSUME NodesOK, SeenOK, NEW p \in Procs, NEW n \in Names, NEW s \in Answers(p, n)
    PROVE  /\ s \in NodeStates
           /\ seen[p][n] # "unknown" => s = seen[p][n]
           /\ seen[p][n] = "unknown" /\ s # "absent" => s = node[n]
           /\ "inspect" \notin Faults /\ p \notin canceled /\ seen[p][n] = "unknown" => s = node[n]
<1>1. seen[p][n] \in {"unknown", "up", "down"} /\ node[n] \in NodeStates
  BY DEF SeenOK, NodesOK
<1>2. CASE seen[p][n] # "unknown"
  BY <1>1, <1>2 DEF Answers, NodeStates
<1>3. CASE seen[p][n] = "unknown"
  BY <1>1, <1>3 DEF Answers, NodeStates, Fails
<1> QED BY <1>2, <1>3

LEMMA LooksTo ==
    ASSUME NodesOK, SeenOK, NEW p \in Procs, NEW n \in Names, NEW s, Looks(p, n, s)
    PROVE  /\ s \in Answers(p, n) /\ s \in NodeStates
           /\ SeenOK'
           /\ seen'[p][n] = (IF s = "absent" THEN seen[p][n] ELSE s)
           /\ \A m \in Names \ {n} : seen'[p][m] = seen[p][m]
           /\ \A q \in Procs \ {p} : seen'[q] = seen[q]
           /\ UNCHANGED <<records, clock, node, maker, canceled, adrift, crossed, missed, overrun>>
<1>1. /\ s \in Answers(p, n)
      /\ seen' = [seen EXCEPT ![p][n] = IF s = "absent" THEN @ ELSE s]
      /\ UNCHANGED <<machine, canceled, adrift, crossed, counts>>
  BY DEF Looks
<1>2. s \in NodeStates
  BY <1>1, AnswersTo
<1> QED BY <1>1, <1>2 DEF SeenOK, NodeStates, machine, disk, counts

---------------------------------------------------------------------------
(* What a step of one process leaves to every other. *)

\* The places of the others are theirs.
Apart(p) ==
    /\ cmd' = cmd
    /\ \A q \in Procs \ {p} :
          /\ pc'[q] = pc[q] /\ todo'[q] = todo[q] /\ list'[q] = list[q] /\ up'[q] = up[q]
          /\ (q \in canceled' <=> q \in canceled) /\ seen'[q] = seen[q]

\* Whoever may be misled by what the step does to the machine is marked.
StaleMarked(q) ==
    /\ stale[q] \subseteq stale'[q]
    /\ \A n \in Names : node'[n] # node[n] => n \in stale'[q]
    /\ \A c \in Record : (c \in records' <=> c \in records) \/ c.name \in stale'[q]
    /\ \A n \in Names : n \in crossed /\ n \notin crossed' => n \in stale'[q]

MissedMarked(q) ==
    /\ q \in missed => q \in missed'
    /\ \A n \in Names :
          (Counting(q) \/ seen[q][n] = "down") /\ node[n] # "up" /\ node'[n] = "up"
             => q \in missed'

AdriftMarked(q) == \A n \in Making(q) : Recorded(n) => Recorded(n)' \/ n \in adrift'

Marked(p) == \A q \in Procs \ {p} : StaleMarked(q) /\ MissedMarked(q) /\ AdriftMarked(q)

\* What the step does to the machine it does one way only.
OneWay ==
    /\ adrift \subseteq adrift'
    /\ \A n \in Names : maker'[n] # maker[n] => node'[n] # node[n]

Frame(p) == Apart(p) /\ Marked(p) /\ OneWay

\* A step that leaves the machine alone, and what is remembered of it by others.
LEMMA QuietFrame ==
    ASSUME NEW p \in Procs,
           UNCHANGED <<records, node, maker, adrift, crossed>>,
           \A q \in Procs \ {p} : stale'[q] = stale[q] /\ (q \in missed' <=> q \in missed)
    PROVE  Marked(p) /\ OneWay
<1>1. OneWay
  BY DEF OneWay
<1>2. ASSUME NEW q \in Procs \ {p} PROVE StaleMarked(q)
  BY <1>2 DEF StaleMarked
<1>3. ASSUME NEW q \in Procs \ {p} PROVE MissedMarked(q)
  <2>1. (q \in missed' <=> q \in missed) /\ node' = node
    BY <1>3
  <2> QED BY <2>1 DEF MissedMarked
<1>4. ASSUME NEW q \in Procs \ {p} PROVE AdriftMarked(q)
  BY <1>4 DEF AdriftMarked, Recorded
<1> QED BY <1>1, <1>2, <1>3, <1>4 DEF Marked

\* A step that calls the runner or kind.
LEMMA BecomesFrame ==
    ASSUME Typed, NEW p \in Procs, NEW n \in Names, NEW s \in NodeStates, NodeBecomes(p, n, s),
           records' = records, crossed \subseteq crossed', adrift \subseteq adrift',
           \A m \in Names : maker'[m] # maker[m] => m = n /\ s # node[n]
    PROVE  Marked(p) /\ OneWay
<1>1. NodesOK /\ SeenOK /\ GhostOK
  BY Parts DEF Typed
<1>2. node' = [node EXCEPT ![n] = s]
  BY <1>1, BecomesTo
<1>3. \A m \in Names : node'[m] # node[m] => m = n /\ s # node[n] /\ node'[m] = s
  BY <1>1, <1>2 DEF NodesOK
<1>4. s # node[n] => node'[n] # node[n]
  BY <1>1, <1>2 DEF NodesOK
<1>5. OneWay
  BY <1>4 DEF OneWay
<1>6. ASSUME NEW q \in Procs \ {p} PROVE StaleMarked(q)
  <2>1. stale[q] \subseteq stale'[q] /\ (s # node[n] => n \in stale'[q])
    BY <1>1, BecomesTo
  <2> QED BY <1>3, <2>1 DEF StaleMarked
<1>7. ASSUME NEW q \in Procs \ {p} PROVE MissedMarked(q)
  <2>1. /\ missed \subseteq missed'
        /\ s = "up" /\ s # node[n] /\ (Counting(q) \/ seen[q][n] = "down") => q \in missed'
    BY <1>1, BecomesTo
  <2>2. ASSUME NEW m \in Names, node[m] # "up", node'[m] = "up",
               Counting(q) \/ seen[q][m] = "down"
        PROVE  q \in missed'
    <3>1. m = n /\ s # node[n] /\ s = "up"
      BY <1>3, <2>2
    <3> QED BY <2>1, <2>2, <3>1
  <2> QED BY <2>1, <2>2 DEF MissedMarked
<1>8. ASSUME NEW q \in Procs \ {p} PROVE AdriftMarked(q)
  BY DEF AdriftMarked, Recorded
<1> QED BY <1>5, <1>6, <1>7, <1>8 DEF Marked

\* A step that removes a record.
LEMMA ForgetsFrame ==
    ASSUME Typed, NEW p \in Procs, NEW n \in Names, Forgets(p, n)
    PROVE  Marked(p) /\ OneWay
<1>1. DiskOK /\ GhostOK
  BY Parts DEF Typed
<1>2. /\ records' = { c \in records : c.name # n }
      /\ UNCHANGED <<node, maker, crossed, missed>>
      /\ \A q \in Procs \ {p} : stale'[q] = stale[q] \cup {n}
      /\ adrift \subseteq adrift'
      /\ \A q \in Procs \ {p} : n \in Making(q) => n \in adrift'
  BY <1>1, ForgetsTo
<1>3. \A m : Recorded(m) => Recorded(m)' \/ m = n
  BY <1>2 DEF Recorded
<1>4. OneWay
  BY <1>2 DEF OneWay
<1>5. ASSUME NEW q \in Procs \ {p} PROVE StaleMarked(q)
  BY <1>2 DEF StaleMarked
<1>6. ASSUME NEW q \in Procs \ {p} PROVE MissedMarked(q)
  <2>1. (q \in missed' <=> q \in missed) /\ node' = node
    BY <1>2
  <2> QED BY <2>1 DEF MissedMarked
<1>7. ASSUME NEW q \in Procs \ {p} PROVE AdriftMarked(q)
  BY <1>2, <1>3 DEF AdriftMarked
<1> QED BY <1>4, <1>5, <1>6, <1>7 DEF Marked

\* The labels of one process, after the step.
LEMMA ControlKeeps ==
    ASSUME ControlOK, PlaceOK, NEW p \in Procs, Apart(p), ControlAt(p)'
    PROVE  ControlOK'
<1> SUFFICES ASSUME NEW q \in Procs PROVE ControlAt(q)'
  BY DEF ControlOK
<1>1. CASE q = p
  BY <1>1
<1>2. CASE q # p
  BY <1>2 DEF Apart, ControlOK, ControlAt, Starting
<1> QED BY <1>1, <1>2

---------------------------------------------------------------------------
(* The types and the labels, step by step. *)

\* Where a process goes next in the same release.
LEMMA AfterGoto ==
    ASSUME Typed, NEW p \in Procs, pc[p] # "done", NEW label \in Labels, Goto(p, label),
           label \in {"stop.list", "stop.look", "stop.stop"} => cmd[p].name = "stop",
           label \in {"remove.list", "remove.look", "remove.delete", "remove.rmdir"}
              => cmd[p].name = "remove",
           label \in Labels \ {"done", "stop.list", "stop.look", "stop.stop", "remove.list",
                               "remove.look", "remove.delete", "remove.rmdir"}
              => cmd[p].name = "start",
           label \in {"stop.stop", "remove.delete", "remove.rmdir"} => list'[p] # {},
           label \in {"room.delete", "room.rmdir"} => up'[p] # {} /\ cmd[p].force,
           IsFiniteSet(list'[p]), IsFiniteSet(up'[p])
    PROVE  /\ PlaceOK' /\ ControlAt(p)' /\ cmd' = cmd /\ todo' = todo /\ pc'[p] = label
           /\ \A q \in Procs \ {p} : pc'[q] = pc[q] /\ todo'[q] = todo[q]
<1>1. PlaceOK
  BY Parts DEF Typed
<1>2. /\ PlaceOK' /\ cmd' = cmd /\ todo' = todo /\ pc'[p] = label
      /\ \A q \in Procs \ {p} : pc'[q] = pc[q]
  BY <1>1, GotoTo
<1>3. ControlAt(p)'
  BY <1>2 DEF ControlAt, Starting, Labels
<1> QED BY <1>2, <1>3

\* Where it goes when the release is done.
LEMMA AfterNextTarget ==
    ASSUME Typed, NEW p \in Procs, pc[p] # "done", NextTarget(p),
           IsFiniteSet(list'[p]), IsFiniteSet(up'[p])
    PROVE  /\ PlaceOK' /\ ControlAt(p)' /\ cmd' = cmd
           /\ pc'[p] \in {"done", "start.look", "stop.list", "remove.list"}
           /\ \A q \in Procs \ {p} : pc'[q] = pc[q] /\ todo'[q] = todo[q]
<1>1. PlaceOK
  BY Parts DEF Typed
<1>2. /\ PlaceOK' /\ cmd' = cmd
      /\ \A q \in Procs \ {p} : pc'[q] = pc[q] /\ todo'[q] = todo[q]
      /\ pc'[p] \in {"done", "start.look", "stop.list", "remove.list"}
      /\ pc'[p] = "start.look" => cmd[p].name = "start"
      /\ pc'[p] = "stop.list" => cmd[p].name = "stop"
      /\ pc'[p] = "remove.list" => cmd[p].name = "remove"
  BY <1>1, NextTargetTo
<1>3. ControlAt(p)'
  BY <1>2 DEF ControlAt, Starting
<1> QED BY <1>2, <1>3

\* The parts make the whole.
LEMMA Together ==
    ASSUME Typed, NEW p \in Procs, DiskOK', NodesOK', PlaceOK', SeenOK', LoopOK', GhostOK',
           Apart(p), ControlAt(p)'
    PROVE  Typed'
<1>1. TypeOK'
  BY Parts, PTL
<1>2. PlaceOK /\ ControlOK
  BY Parts DEF Typed
<1>3. ControlOK'
  BY <1>2, ControlKeeps
<1> QED BY <1>1, <1>3 DEF Typed

\* A step that only looks, or only moves on.
LEMMA QuietStep ==
    ASSUME Typed, NEW p \in Procs, UNCHANGED <<machine, adrift, crossed>>,
           PlaceOK', SeenOK', LoopOK', GhostOK', ControlAt(p)', Apart(p),
           \A q \in Procs \ {p} : stale'[q] = stale[q] /\ (q \in missed' <=> q \in missed)
    PROVE  Typed' /\ Frame(p)
<1>1. UNCHANGED <<records, clock, node, maker, adrift, crossed>>
  BY DEF machine, disk
<1>2. DiskOK' /\ NodesOK'
  BY <1>1, Parts DEF Typed, DiskOK, NodesOK, OneEach
<1>3. Typed'
  BY <1>2, Together
<1>4. Marked(p) /\ OneWay
  BY <1>1, QuietFrame
<1> QED BY <1>3, <1>4 DEF Frame

\* A look at one node.
LEMMA LookStep ==
    ASSUME Typed, NEW p \in Procs, NEW n \in Names, NEW s, Looks(p, n, s),
           stale' \in [Procs -> SUBSET Names], \A q \in Procs \ {p} : stale'[q] = stale[q],
           PlaceOK', LoopOK', ControlAt(p)', cmd' = cmd,
           \A q \in Procs \ {p} : pc'[q] = pc[q] /\ todo'[q] = todo[q]
                                  /\ list'[q] = list[q] /\ up'[q] = up[q]
    PROVE  Typed' /\ Frame(p)
<1>1. NodesOK /\ SeenOK /\ GhostOK
  BY Parts DEF Typed
<1>2. /\ SeenOK' /\ \A q \in Procs \ {p} : seen'[q] = seen[q]
      /\ UNCHANGED <<records, clock, node, maker, canceled, adrift, crossed, missed, overrun>>
  BY <1>1, LooksTo
<1>3. GhostOK'
  BY <1>1, <1>2 DEF GhostOK
<1>4. Apart(p)
  BY <1>2 DEF Apart
<1> QED BY <1>2, <1>3, <1>4, QuietStep DEF machine, disk

LEMMA StartLookTyped ==
    ASSUME Typed, NEW p \in Procs, StartLook(p) PROVE Typed' /\ Frame(p)
<1>1. pc[p] = "start.look" /\ UNCHANGED <<list, up>>
  BY DEF StartLook, At
<1>2. PICK s \in Answers(p, Own(p)) :
         /\ Looks(p, Own(p), s) /\ Reads(p, {Own(p)})
         /\ Goto(p, IF s = "up" THEN "start.ready" ELSE "room.list")
  BY DEF StartLook
<1>3. PlaceOK /\ GhostOK /\ LoopOK /\ ControlAt(p)
  BY Parts DEF Typed, ControlOK
<1>4. Own(p) \in Names /\ cmd[p].name = "start"
  BY <1>1, <1>3, OwnType DEF ControlAt, Starting
<1>5. stale' \in [Procs -> SUBSET Names] /\ \A q \in Procs \ {p} : stale'[q] = stale[q]
  BY <1>2, <1>3, ReadsTo
<1>6. PICK label \in {"start.ready", "room.list"} : Goto(p, label)
  BY <1>2
<1>7. /\ PlaceOK' /\ ControlAt(p)' /\ cmd' = cmd
      /\ \A q \in Procs \ {p} : pc'[q] = pc[q] /\ todo'[q] = todo[q]
  BY <1>1, <1>3, <1>4, <1>6, AfterGoto DEF Labels, ControlAt
<1>8. LoopOK' /\ \A q \in Procs \ {p} : list'[q] = list[q] /\ up'[q] = up[q]
  BY <1>1, <1>3 DEF LoopOK
<1> QED BY <1>2, <1>4, <1>5, <1>7, <1>8, LookStep

LEMMA StartReadyTyped ==
    ASSUME Typed, NEW p \in Procs, StartReady(p) PROVE Typed' /\ Frame(p)
<1>1. /\ pc[p] = "start.ready" /\ NextTarget(p)
      /\ seen' = [seen EXCEPT ![p][Own(p)] = "unknown"]
      /\ UNCHANGED <<machine, list, up, canceled, ghosts>>
  BY DEF StartReady, At
<1>2. PlaceOK /\ GhostOK /\ LoopOK /\ SeenOK /\ ControlAt(p)
  BY Parts DEF Typed, ControlOK
<1>3. /\ PlaceOK' /\ ControlAt(p)' /\ cmd' = cmd
      /\ \A q \in Procs \ {p} : pc'[q] = pc[q] /\ todo'[q] = todo[q]
  BY <1>1, <1>2, AfterNextTarget DEF ControlAt
<1>4. SeenOK' /\ \A q \in Procs \ {p} : seen'[q] = seen[q]
  BY <1>1, <1>2 DEF SeenOK
<1>5. UNCHANGED <<stale, adrift, crossed, missed, overrun>>
  BY <1>1 DEF ghosts, counts
<1>6. LoopOK' /\ GhostOK'
  BY <1>1, <1>2, <1>5 DEF LoopOK, GhostOK
<1>7. Apart(p)
  BY <1>1, <1>3, <1>4 DEF Apart
<1> QED BY <1>1, <1>3, <1>4, <1>5, <1>6, <1>7, QuietStep

LEMMA StartExistsTyped ==
    ASSUME Typed, NEW p \in Procs, StartExists(p) PROVE Typed' /\ Frame(p)
<1>1. pc[p] = "start.exists" /\ UNCHANGED <<list, up, stale>>
  BY DEF StartExists, At
<1>2. PICK s \in Answers(p, Own(p)) :
         /\ Looks(p, Own(p), s)
         /\ Goto(p, IF s = "absent" THEN "start.write" ELSE "start.restart")
  BY DEF StartExists
<1>3. PlaceOK /\ GhostOK /\ LoopOK /\ ControlAt(p)
  BY Parts DEF Typed, ControlOK
<1>4. Own(p) \in Names /\ cmd[p].name = "start"
  BY <1>1, <1>3, OwnType DEF ControlAt, Starting
<1>5. stale' \in [Procs -> SUBSET Names] /\ \A q \in Procs \ {p} : stale'[q] = stale[q]
  BY <1>1, <1>3 DEF GhostOK
<1>6. PICK label \in {"start.write", "start.restart"} : Goto(p, label)
  BY <1>2
<1>7. /\ PlaceOK' /\ ControlAt(p)' /\ cmd' = cmd
      /\ \A q \in Procs \ {p} : pc'[q] = pc[q] /\ todo'[q] = todo[q]
  BY <1>1, <1>3, <1>4, <1>6, AfterGoto DEF Labels, ControlAt
<1>8. LoopOK' /\ \A q \in Procs \ {p} : list'[q] = list[q] /\ up'[q] = up[q]
  BY <1>1, <1>3 DEF LoopOK
<1> QED BY <1>2, <1>4, <1>5, <1>7, <1>8, LookStep

\* The records are listed: by a start all of them, by stop and remove those of a release.
LEMMA ListStep ==
    ASSUME Typed, NEW p \in Procs, NEW rs \in SUBSET records, NEW ns, NEW label \in Labels,
           list' = [list EXCEPT ![p] = rs], Reads(p, ns), Goto(p, label),
           pc[p] # "done", up' = up \/ up' = [up EXCEPT ![p] = {}],
           \A q \in Procs \ {p} : q \in missed' <=> q \in missed, missed' \subseteq Procs,
           label \in {"stop.look", "remove.look", "room.look"},
           label = "stop.look" => cmd[p].name = "stop",
           label = "remove.look" => cmd[p].name = "remove",
           label = "room.look" => cmd[p].name = "start",
           UNCHANGED <<machine, seen, canceled, adrift, crossed, overrun>>
    PROVE  Typed' /\ Frame(p)
<1>1. DiskOK /\ PlaceOK /\ GhostOK /\ LoopOK /\ SeenOK /\ ControlAt(p)
  BY Parts DEF Typed, ControlOK
<1>2. IsFiniteSet(rs) /\ rs \subseteq Record
  BY <1>1, FS_Subset DEF DiskOK
<1>3. /\ list' \in [Procs -> SUBSET Record] /\ list'[p] = rs
      /\ \A q \in Procs \ {p} : list'[q] = list[q]
  BY <1>1, <1>2 DEF LoopOK
<1>4. /\ up' \in [Procs -> SUBSET Record] /\ IsFiniteSet(up'[p])
      /\ \A q \in Procs \ {p} : up'[q] = up[q]
  BY <1>1, FS_EmptySet DEF LoopOK, ControlAt
<1>5. stale' \in [Procs -> SUBSET Names] /\ \A q \in Procs \ {p} : stale'[q] = stale[q]
  BY <1>1, ReadsTo
<1>6. /\ PlaceOK' /\ ControlAt(p)' /\ cmd' = cmd
      /\ \A q \in Procs \ {p} : pc'[q] = pc[q] /\ todo'[q] = todo[q]
  BY <1>1, <1>2, <1>3, <1>4, AfterGoto
<1>7. LoopOK' /\ GhostOK' /\ SeenOK'
  BY <1>1, <1>3, <1>4, <1>5 DEF LoopOK, GhostOK, SeenOK
<1>8. Apart(p)
  BY <1>3, <1>4, <1>6 DEF Apart
<1> QED BY <1>5, <1>6, <1>7, <1>8, QuietStep

LEMMA RoomListTyped ==
    ASSUME Typed, NEW p \in Procs, RoomList(p) PROVE Typed' /\ Frame(p)
<1>1. /\ pc[p] = "room.list" /\ list' = [list EXCEPT ![p] = records]
      /\ up' = [up EXCEPT ![p] = {}]
      /\ Reads(p, Names \ {Own(p)}) /\ Goto(p, "room.look")
      /\ UNCHANGED <<machine, seen, canceled, adrift, crossed, overrun>>
  BY DEF RoomList, At
<1>2. missed' = missed \cup {p} \/ missed' = missed \ {p}
  BY DEF RoomList
<1>3. ControlAt(p) /\ GhostOK
  BY Parts DEF Typed, ControlOK
<1>4. cmd[p].name = "start"
  BY <1>1, <1>3 DEF ControlAt, Starting
<1>5. missed' \subseteq Procs /\ \A q \in Procs \ {p} : q \in missed' <=> q \in missed
  BY <1>2, <1>3 DEF GhostOK
<1>6. "room.look" \in Labels
  BY DEF Labels
<1> QED BY <1>1, <1>4, <1>5, <1>6, ListStep

LEMMA ListTyped ==
    ASSUME Typed, NEW p \in Procs, StopList(p) \/ RemoveList(p) PROVE Typed' /\ Frame(p)
<1>1. PICK label, then : /\ List(p, label, then)
                         /\ \/ label = "stop.list" /\ then = "stop.look"
                            \/ label = "remove.list" /\ then = "remove.look"
  BY DEF StopList, RemoveList
<1>2. /\ pc[p] = label /\ list' = [list EXCEPT ![p] = ClustersOf(Head(todo[p]))]
      /\ Reads(p, Names) /\ Goto(p, then)
      /\ UNCHANGED <<machine, seen, up, canceled, adrift, crossed, counts>>
  BY <1>1 DEF List, At
<1>3. ClustersOf(Head(todo[p])) \in SUBSET records
  BY DEF ClustersOf
<1>4. ControlAt(p) /\ GhostOK
  BY Parts DEF Typed, ControlOK
<1>5. /\ then = "stop.look" => cmd[p].name = "stop"
      /\ then = "remove.look" => cmd[p].name = "remove"
      /\ then \in {"stop.look", "remove.look"} /\ then \in Labels /\ pc[p] # "done"
  BY <1>1, <1>2, <1>4 DEF ControlAt, Labels
<1>6. missed' \subseteq Procs /\ \A q \in Procs \ {p} : q \in missed' <=> q \in missed
  BY <1>2, <1>4 DEF GhostOK, counts
<1>7. UNCHANGED <<machine, seen, canceled, adrift, crossed, overrun>>
  BY <1>2 DEF counts
<1> QED BY <1>2, <1>3, <1>5, <1>6, <1>7, ListStep

\* What is left of a loop.
LEMMA OthersTo ==
    ASSUME Typed, NEW p \in Procs, NEW S \in SUBSET Record, IsFiniteSet(S)
    PROVE  Others(S) \in SUBSET Record /\ IsFiniteSet(Others(S))
  BY FS_Subset DEF Others

LEMMA RoomLookTyped ==
    ASSUME Typed, NEW p \in Procs, RoomLook(p) PROVE Typed' /\ Frame(p)
<1> DEFINE c == Oldest(list[p])
<1>1. /\ pc[p] = "room.look" /\ list[p] # {} /\ Goto(p, "room.look") /\ UNCHANGED stale
      /\ list' = [list EXCEPT ![p] = Others(@)]
  BY DEF RoomLook, At
<1>2. PICK s \in Answers(p, c.name) :
         /\ Looks(p, c.name, s)
         /\ up' = [up EXCEPT ![p] = IF s = "up" /\ c.name # Own(p) THEN @ \cup {c} ELSE @]
  BY DEF RoomLook
<1>3. PlaceOK /\ GhostOK /\ LoopOK /\ ControlAt(p)
  BY Parts DEF Typed, ControlOK
<1>4. c \in list[p] /\ c.name \in Names /\ cmd[p].name = "start"
  BY <1>1, <1>3, LoopAt DEF ControlAt, Starting
<1>5. list[p] \in SUBSET Record /\ up[p] \in SUBSET Record
      /\ IsFiniteSet(list[p]) /\ IsFiniteSet(up[p])
  BY <1>3 DEF LoopOK, ControlAt
<1>6. Others(list[p]) \in SUBSET Record /\ IsFiniteSet(Others(list[p]))
  BY <1>5, OthersTo
<1>7. up[p] \cup {c} \in SUBSET Record /\ IsFiniteSet(up[p] \cup {c})
  BY <1>4, <1>5, FS_AddElement
<1>8. PICK u \in {up[p], up[p] \cup {c}} : up' = [up EXCEPT ![p] = u]
  BY <1>2
<1>9. /\ LoopOK' /\ IsFiniteSet(list'[p]) /\ IsFiniteSet(up'[p])
      /\ \A q \in Procs \ {p} : list'[q] = list[q] /\ up'[q] = up[q]
  <2> HIDE DEF c
  <2> QED BY <1>1, <1>3, <1>5, <1>6, <1>7, <1>8 DEF LoopOK
<1>10. /\ PlaceOK' /\ ControlAt(p)' /\ cmd' = cmd
       /\ \A q \in Procs \ {p} : pc'[q] = pc[q] /\ todo'[q] = todo[q]
  BY <1>1, <1>4, <1>9, AfterGoto DEF Labels
<1>11. stale' \in [Procs -> SUBSET Names] /\ \A q \in Procs \ {p} : stale'[q] = stale[q]
  BY <1>1, <1>3 DEF GhostOK
<1> QED BY <1>2, <1>4, <1>9, <1>10, <1>11, LookStep

\* A step that only moves the process on.
LEMMA MoveStep ==
    ASSUME Typed, NEW p \in Procs, PlaceOK', LoopOK', ControlAt(p)', cmd' = cmd,
           \A q \in Procs \ {p} : pc'[q] = pc[q] /\ todo'[q] = todo[q]
                                  /\ list'[q] = list[q] /\ up'[q] = up[q],
           UNCHANGED <<machine, seen, canceled, ghosts>>
    PROVE  Typed' /\ Frame(p)
<1>1. UNCHANGED <<stale, adrift, crossed, missed, overrun>>
  BY DEF ghosts, counts
<1>2. SeenOK' /\ GhostOK'
  BY <1>1, Parts DEF Typed, SeenOK, GhostOK
<1>3. Apart(p)
  BY DEF Apart
<1> QED BY <1>1, <1>2, <1>3, QuietStep

LEMMA RoomCountedTyped ==
    ASSUME Typed, NEW p \in Procs, RoomCounted(p) PROVE Typed' /\ Frame(p)
<1>1. /\ pc[p] = "room.look" /\ Goto(p, "room.made")
      /\ UNCHANGED <<machine, seen, list, up, canceled, ghosts>>
  BY DEF RoomCounted, At
<1>2. LoopOK /\ ControlAt(p)
  BY Parts DEF Typed, ControlOK
<1>3. /\ PlaceOK' /\ ControlAt(p)' /\ cmd' = cmd
      /\ \A q \in Procs \ {p} : pc'[q] = pc[q] /\ todo'[q] = todo[q]
  BY <1>1, <1>2, AfterGoto DEF Labels, ControlAt, Starting
<1> QED BY <1>1, <1>2, <1>3, MoveStep DEF LoopOK

LEMMA RoomMadeTyped ==
    ASSUME Typed, NEW p \in Procs, RoomMade(p) PROVE Typed' /\ Frame(p)
<1>1. /\ pc[p] = "room.made"
      /\ UNCHANGED <<machine, seen, list, up, canceled, ghosts>>
  BY DEF RoomMade, At
<1>2. LoopOK /\ ControlAt(p)
  BY Parts DEF Typed, ControlOK
<1>3. cmd[p].name = "start" /\ IsFiniteSet(list'[p]) /\ IsFiniteSet(up'[p])
  BY <1>1, <1>2 DEF ControlAt, Starting
<1>4. \/ Goto(p, "start.exists")
      \/ Cardinality(up[p]) >= clusterLimit /\ cmd[p].force /\ Goto(p, "room.delete")
      \/ NextTarget(p)
  <2>1. CASE Cardinality(up[p]) < clusterLimit
    BY <2>1 DEF RoomMade
  <2>2. CASE ~(Cardinality(up[p]) < clusterLimit)
    <3>1. Cardinality(up[p]) >= clusterLimit
      BY <1>2, <2>2, FS_CardinalityType, ClustersAssumption DEF ControlAt
    <3> QED BY <2>2, <3>1 DEF RoomMade
  <2> QED BY <2>1, <2>2
<1>5. /\ PlaceOK' /\ ControlAt(p)' /\ cmd' = cmd
      /\ \A q \in Procs \ {p} : pc'[q] = pc[q] /\ todo'[q] = todo[q]
  <2>1. CASE Goto(p, "start.exists")
    BY <1>1, <1>3, <2>1, AfterGoto DEF Labels
  <2>2. CASE Cardinality(up[p]) >= clusterLimit /\ cmd[p].force /\ Goto(p, "room.delete")
    <3>1. SUFFICES up[p] # {}
      BY <1>1, <1>3, <2>2, AfterGoto DEF Labels
    <3>2. up[p] = {} => Cardinality(up[p]) = 0
      BY FS_EmptySet
    <3> QED BY <2>2, <3>2, ClustersAssumption, SMT
  <2>3. CASE NextTarget(p)
    BY <1>1, <1>3, <2>3, AfterNextTarget
  <2> QED BY <1>4, <2>1, <2>2, <2>3
<1> QED BY <1>1, <1>2, <1>5, MoveStep DEF LoopOK

LEMMA ThroughTyped ==
    ASSUME Typed, NEW p \in Procs, Through(p) PROVE Typed' /\ Frame(p)
<1>1. /\ pc[p] \in {"stop.look", "remove.look"} /\ NextTarget(p)
      /\ UNCHANGED <<machine, seen, list, up, canceled, ghosts>>
  BY DEF Through
<1>2. LoopOK /\ ControlAt(p)
  BY Parts DEF Typed, ControlOK
<1>3. /\ PlaceOK' /\ ControlAt(p)' /\ cmd' = cmd
      /\ \A q \in Procs \ {p} : pc'[q] = pc[q] /\ todo'[q] = todo[q]
  BY <1>1, <1>2, AfterNextTarget DEF ControlAt
<1> QED BY <1>1, <1>2, <1>3, MoveStep DEF LoopOK

\* The loop goes on to the next cluster.
LEMMA AdvanceTo ==
    ASSUME Typed, NEW p \in Procs, list' = [list EXCEPT ![p] = Others(@)] \/ list' = list,
           up' = up
    PROVE  /\ LoopOK' /\ IsFiniteSet(list'[p]) /\ IsFiniteSet(up'[p])
           /\ \A q \in Procs \ {p} : list'[q] = list[q] /\ up'[q] = up[q]
           /\ list'[p] \subseteq list[p]
<1>1. LoopOK /\ ControlAt(p)
  BY Parts DEF Typed, ControlOK
<1>2. list[p] \in SUBSET Record /\ IsFiniteSet(list[p]) /\ IsFiniteSet(up[p])
  BY <1>1 DEF LoopOK, ControlAt
<1>3. Others(list[p]) \in SUBSET Record /\ IsFiniteSet(Others(list[p]))
      /\ Others(list[p]) \subseteq list[p]
  BY <1>2, OthersTo DEF Others
<1> QED BY <1>1, <1>2, <1>3 DEF LoopOK

\* A cluster of somebody else is passed over, or ends the command.
LEMMA NotYoursTo ==
    ASSUME Typed, NEW p \in Procs, NotYours(p), pc[p] \in {"stop.look", "remove.look"}, up' = up
    PROVE  /\ PlaceOK' /\ LoopOK' /\ ControlAt(p)' /\ cmd' = cmd
           /\ \A q \in Procs \ {p} : pc'[q] = pc[q] /\ todo'[q] = todo[q]
                                     /\ list'[q] = list[q] /\ up'[q] = up[q]
           /\ list'[p] \subseteq list[p]
           /\ pc'[p] \in {"done", "start.look", "stop.list", "remove.list", pc[p]}
<1>1. PlaceOK /\ ControlAt(p)
  BY Parts DEF Typed, ControlOK
<1>2. list' = [list EXCEPT ![p] = Others(@)] \/ list' = list
  BY DEF NotYours
<1>3. /\ LoopOK' /\ IsFiniteSet(list'[p]) /\ IsFiniteSet(up'[p])
      /\ \A q \in Procs \ {p} : list'[q] = list[q] /\ up'[q] = up[q]
      /\ list'[p] \subseteq list[p]
  BY <1>2, AdvanceTo
<1>4. CASE NextTarget(p)
  BY <1>3, <1>4, AfterNextTarget
<1>5. CASE UNCHANGED <<cmd, pc, todo>>
  BY <1>1, <1>3, <1>5 DEF PlaceOK, ControlAt, Starting
<1> QED BY <1>4, <1>5 DEF NotYours

LEMMA StopLookTyped ==
    ASSUME Typed, NEW p \in Procs, StopLook(p) PROVE Typed' /\ Frame(p)
<1> DEFINE c == Oldest(list[p])
<1>1. pc[p] = "stop.look" /\ list[p] # {} /\ up' = up
  BY DEF StopLook, At
<1>2. GhostOK /\ ControlAt(p)
  BY Parts DEF Typed, ControlOK
<1>3. c.name \in Names /\ cmd[p].name = "stop"
  BY <1>1, <1>2, LoopAt DEF ControlAt
<1>4. CASE ~MayTouch(p, c)
  <2>1. NotYours(p) /\ UNCHANGED <<machine, seen, canceled, ghosts>>
    BY <1>4 DEF StopLook
  <2>2. /\ PlaceOK' /\ LoopOK' /\ ControlAt(p)' /\ cmd' = cmd
        /\ \A q \in Procs \ {p} : pc'[q] = pc[q] /\ todo'[q] = todo[q]
                                  /\ list'[q] = list[q] /\ up'[q] = up[q]
    BY <1>1, <2>1, NotYoursTo
  <2> QED BY <2>1, <2>2, MoveStep
<1>5. CASE MayTouch(p, c)
  <2>1. PICK s \in Answers(p, c.name) :
           /\ Looks(p, c.name, s) /\ UNCHANGED stale
           /\ IF s = "up" THEN Goto(p, "stop.stop") /\ UNCHANGED list
              ELSE /\ list' = [list EXCEPT ![p] = Others(@)]
                   /\ Goto(p, "stop.look")
    BY <1>5 DEF StopLook
  <2>2. list' = [list EXCEPT ![p] = Others(@)] \/ list' = list
    BY <2>1
  <2>3. /\ LoopOK' /\ IsFiniteSet(list'[p]) /\ IsFiniteSet(up'[p])
        /\ \A q \in Procs \ {p} : list'[q] = list[q] /\ up'[q] = up[q]
    BY <1>1, <2>2, AdvanceTo
  <2>4. PICK label : /\ Goto(p, label)
                     /\ (label = "stop.stop" /\ list' = list) \/ label = "stop.look"
    BY <2>1
  <2>5. /\ PlaceOK' /\ ControlAt(p)' /\ cmd' = cmd
        /\ \A q \in Procs \ {p} : pc'[q] = pc[q] /\ todo'[q] = todo[q]
    BY <1>1, <1>3, <2>3, <2>4, AfterGoto DEF Labels
  <2>6. stale' \in [Procs -> SUBSET Names] /\ \A q \in Procs \ {p} : stale'[q] = stale[q]
    BY <1>2, <2>1 DEF GhostOK
  <2> QED BY <1>3, <2>1, <2>3, <2>5, <2>6, LookStep
<1> QED BY <1>4, <1>5

LEMMA RemoveLookTyped ==
    ASSUME Typed, NEW p \in Procs, RemoveLook(p) PROVE Typed' /\ Frame(p)
<1> DEFINE c == Oldest(list[p])
<1>1. pc[p] = "remove.look" /\ list[p] # {} /\ up' = up
  BY DEF RemoveLook, At
<1>2. GhostOK /\ LoopOK /\ ControlAt(p)
  BY Parts DEF Typed, ControlOK
<1>3. c.name \in Names /\ cmd[p].name = "remove"
  BY <1>1, <1>2, LoopAt DEF ControlAt
<1>4. PICK s \in Answers(p, c.name) :
         /\ Looks(p, c.name, s) /\ UNCHANGED stale
         /\ IF s = "up" /\ ~MayTouch(p, c) THEN NotYours(p)
            ELSE Goto(p, "remove.delete") /\ UNCHANGED list
  BY DEF RemoveLook
<1>5. /\ PlaceOK' /\ LoopOK' /\ ControlAt(p)' /\ cmd' = cmd
      /\ \A q \in Procs \ {p} : pc'[q] = pc[q] /\ todo'[q] = todo[q]
                                /\ list'[q] = list[q] /\ up'[q] = up[q]
  <2>1. CASE NotYours(p)
    BY <1>1, <2>1, NotYoursTo
  <2>2. CASE Goto(p, "remove.delete") /\ UNCHANGED list
    <3>1. IsFiniteSet(list'[p]) /\ IsFiniteSet(up'[p]) /\ list'[p] # {}
      BY <1>1, <1>2, <2>2 DEF ControlAt
    <3>2. /\ PlaceOK' /\ ControlAt(p)' /\ cmd' = cmd
          /\ \A q \in Procs \ {p} : pc'[q] = pc[q] /\ todo'[q] = todo[q]
      BY <1>1, <1>3, <2>2, <3>1, AfterGoto DEF Labels
    <3> QED BY <1>1, <1>2, <2>2, <3>2 DEF LoopOK
  <2> QED BY <1>4, <2>1, <2>2
<1>6. stale' \in [Procs -> SUBSET Names] /\ \A q \in Procs \ {p} : stale'[q] = stale[q]
  BY <1>2, <1>4 DEF GhostOK
<1> QED BY <1>3, <1>4, <1>5, <1>6, LookStep

\* A call to the runner or to kind.
LEMMA CallStep ==
    ASSUME Typed, NEW p \in Procs, NEW n \in Names, NEW s \in NodeStates, NodeBecomes(p, n, s),
           UNCHANGED <<disk, canceled>>,
           crossed \subseteq crossed', crossed' \subseteq Names,
           adrift \subseteq adrift', adrift' \subseteq Names,
           maker' \in [Names -> Procs \cup Owners],
           \A m \in Names : maker'[m] # maker[m] => m = n /\ s # node[n],
           PlaceOK', LoopOK', ControlAt(p)', cmd' = cmd,
           \A q \in Procs \ {p} : pc'[q] = pc[q] /\ todo'[q] = todo[q]
                                  /\ list'[q] = list[q] /\ up'[q] = up[q]
    PROVE  Typed' /\ Frame(p)
<1>1. DiskOK /\ NodesOK /\ SeenOK /\ GhostOK
  BY Parts DEF Typed
<1>2. records' = records /\ clock' = clock /\ canceled' = canceled
  BY DEF disk
<1>3. /\ node' \in [Names -> NodeStates] /\ SeenOK' /\ \A q \in Procs \ {p} : seen'[q] = seen[q]
      /\ stale' \in [Procs -> SUBSET Names] /\ missed' \subseteq Procs
  BY <1>1, BecomesTo
<1>4. overrun' \in BOOLEAN
  BY <1>1, BecomesCount
<1>5. DiskOK'
  BY <1>1, <1>2 DEF DiskOK, OneEach
<1>6. NodesOK'
  BY <1>3 DEF NodesOK
<1>7. GhostOK'
  BY <1>1, <1>2, <1>3, <1>4 DEF GhostOK
<1>8. Apart(p)
  BY <1>2, <1>3 DEF Apart
<1>9. Typed'
  BY <1>3, <1>5, <1>6, <1>7, <1>8, Together
<1>10. Marked(p) /\ OneWay
  BY <1>2, BecomesFrame
<1> QED BY <1>8, <1>9, <1>10 DEF Frame

\* The same, when nobody's record or node is marked on the way.
LEMMA PlainCallStep ==
    ASSUME Typed, NEW p \in Procs, NEW n \in Names, NEW s \in NodeStates, NodeBecomes(p, n, s),
           UNCHANGED <<disk, maker, canceled, adrift, crossed>>,
           PlaceOK', LoopOK', ControlAt(p)', cmd' = cmd,
           \A q \in Procs \ {p} : pc'[q] = pc[q] /\ todo'[q] = todo[q]
                                  /\ list'[q] = list[q] /\ up'[q] = up[q]
    PROVE  Typed' /\ Frame(p)
<1>1. /\ crossed' \subseteq Names /\ adrift' \subseteq Names
      /\ maker' \in [Names -> Procs \cup Owners]
  BY Parts DEF Typed, NodesOK, GhostOK
<1> QED BY <1>1, CallStep

\* A step of a start in one of its calls, which leaves the loops alone.
LEMMA StartGoes ==
    ASSUME Typed, NEW p \in Procs, pc[p] # "done", UNCHANGED <<list, up>>,
           \/ NextTarget(p)
           \/ \E label \in {"start.ready", "start.create", "start.making", "start.undo",
                            "start.forget", "room.rmdir", "room.made"} :
                 /\ Goto(p, label) /\ Starting(p)
                 /\ label = "room.rmdir" => pc[p] = "room.delete"
    PROVE  /\ PlaceOK' /\ LoopOK' /\ ControlAt(p)' /\ cmd' = cmd
           /\ \A q \in Procs \ {p} : pc'[q] = pc[q] /\ todo'[q] = todo[q]
                                     /\ list'[q] = list[q] /\ up'[q] = up[q]
<1>1. LoopOK /\ ControlAt(p)
  BY Parts DEF Typed, ControlOK
<1>2. LoopOK' /\ IsFiniteSet(list'[p]) /\ IsFiniteSet(up'[p])
  BY <1>1 DEF LoopOK, ControlAt
<1>3. CASE NextTarget(p)
  BY <1>2, <1>3, AfterNextTarget
<1>4. CASE ~NextTarget(p)
  <2>1. PICK label \in {"start.ready", "start.create", "start.making", "start.undo",
                        "start.forget", "room.rmdir", "room.made"} :
           /\ Goto(p, label) /\ Starting(p)
           /\ label = "room.rmdir" => pc[p] = "room.delete"
    BY <1>4
  <2>2. cmd[p].name = "start" /\ (label = "room.rmdir" => up'[p] # {} /\ cmd[p].force)
    BY <1>1, <2>1 DEF ControlAt
  <2>3. label \in Labels
    BY DEF Labels
  <2> QED BY <1>2, <2>1, <2>2, <2>3, AfterGoto
<1> QED BY <1>2, <1>3, <1>4

LEMMA StartRestartTyped ==
    ASSUME Typed, NEW p \in Procs, StartRestart(p) PROVE Typed' /\ Frame(p)
<1>1. pc[p] = "start.restart" /\ UNCHANGED <<disk, maker, list, up, canceled, adrift, crossed>>
  BY DEF StartRestart, At
<1>2. Own(p) \in Names /\ node[Own(p)] \in NodeStates
  BY <1>1, Parts, OwnType DEF Typed, NodesOK
<1>3. PICK s \in NodeStates : NodeBecomes(p, Own(p), s)
  BY <1>2 DEF StartRestart, NodeStates
<1>4. Goto(p, "start.ready") \/ NextTarget(p)
  BY DEF StartRestart
<1>5. /\ PlaceOK' /\ LoopOK' /\ ControlAt(p)' /\ cmd' = cmd
      /\ \A q \in Procs \ {p} : pc'[q] = pc[q] /\ todo'[q] = todo[q]
                                /\ list'[q] = list[q] /\ up'[q] = up[q]
  BY <1>1, <1>4, StartGoes DEF Starting
<1> QED BY <1>1, <1>2, <1>3, <1>5, PlainCallStep

LEMMA StartCreateTyped ==
    ASSUME Typed, NEW p \in Procs, StartCreate(p) PROVE Typed' /\ Frame(p)
<1>1. pc[p] = "start.create" /\ UNCHANGED <<disk, list, up, canceled, adrift>>
  BY DEF StartCreate, At
<1>2. Own(p) \in Names /\ NodesOK /\ GhostOK
  BY <1>1, Parts, OwnType DEF Typed
<1>3. Goto(p, "start.making") \/ Goto(p, "start.undo")
  BY DEF StartCreate
<1>4. /\ PlaceOK' /\ LoopOK' /\ ControlAt(p)' /\ cmd' = cmd
      /\ \A q \in Procs \ {p} : pc'[q] = pc[q] /\ todo'[q] = todo[q]
                                /\ list'[q] = list[q] /\ up'[q] = up[q]
  BY <1>1, <1>3, StartGoes DEF Starting
<1>5. PICK s \in NodeStates :
         /\ NodeBecomes(p, Own(p), s)
         /\ \/ s # node[Own(p)] /\ maker' = [maker EXCEPT ![Own(p)] = p]
            \/ maker' = maker
         /\ crossed' = crossed \/ crossed' = crossed \cup {Own(p)}
  BY <1>2 DEF StartCreate, NodesOK, NodeStates
<1>6. /\ maker' \in [Names -> Procs \cup Owners]
      /\ \A m \in Names : maker'[m] # maker[m] => m = Own(p) /\ s # node[Own(p)]
  BY <1>2, <1>5 DEF NodesOK
<1>7. /\ crossed \subseteq crossed' /\ crossed' \subseteq Names
      /\ adrift \subseteq adrift' /\ adrift' \subseteq Names
  BY <1>1, <1>2, <1>5 DEF GhostOK
<1> QED BY <1>1, <1>2, <1>4, <1>5, <1>6, <1>7, CallStep

LEMMA StartMakingTyped ==
    ASSUME Typed, NEW p \in Procs, StartMaking(p) PROVE Typed' /\ Frame(p)
<1>1. pc[p] = "start.making" /\ UNCHANGED <<disk, maker, list, up, canceled, adrift, crossed>>
  BY DEF StartMaking, At
<1>2. Own(p) \in Names /\ node[Own(p)] \in NodeStates
  BY <1>1, Parts, OwnType DEF Typed, NodesOK
<1>3. PICK s \in NodeStates : NodeBecomes(p, Own(p), s)
  BY <1>2 DEF StartMaking, NodeStates
<1>4. Goto(p, "start.ready") \/ Goto(p, "start.undo")
  BY DEF StartMaking
<1>5. /\ PlaceOK' /\ LoopOK' /\ ControlAt(p)' /\ cmd' = cmd
      /\ \A q \in Procs \ {p} : pc'[q] = pc[q] /\ todo'[q] = todo[q]
                                /\ list'[q] = list[q] /\ up'[q] = up[q]
  BY <1>1, <1>4, StartGoes DEF Starting
<1> QED BY <1>1, <1>2, <1>3, <1>5, PlainCallStep

LEMMA StartUndoTyped ==
    ASSUME Typed, NEW p \in Procs, StartUndo(p) PROVE Typed' /\ Frame(p)
<1>1. /\ pc[p] = "start.undo" /\ Goto(p, "start.forget")
      /\ UNCHANGED <<disk, maker, list, up, canceled, crossed>>
  BY DEF StartUndo, At
<1>2. Own(p) \in Names /\ NodesOK /\ GhostOK
  BY <1>1, Parts, OwnType DEF Typed
<1>3. PICK s \in NodeStates :
         NodeBecomes(p, Own(p), s) /\ (adrift' = adrift \/ adrift' = adrift \cup {Own(p)})
  BY <1>2 DEF StartUndo, NodesOK, NodeStates
<1>4. /\ PlaceOK' /\ LoopOK' /\ ControlAt(p)' /\ cmd' = cmd
      /\ \A q \in Procs \ {p} : pc'[q] = pc[q] /\ todo'[q] = todo[q]
                                /\ list'[q] = list[q] /\ up'[q] = up[q]
  BY <1>1, StartGoes DEF Starting
<1>5. /\ crossed \subseteq crossed' /\ crossed' \subseteq Names
      /\ adrift \subseteq adrift' /\ adrift' \subseteq Names
      /\ maker' \in [Names -> Procs \cup Owners]
  BY <1>1, <1>2, <1>3 DEF GhostOK, NodesOK
<1> QED BY <1>1, <1>2, <1>3, <1>4, <1>5, CallStep

LEMMA StopStopTyped ==
    ASSUME Typed, NEW p \in Procs, StopStop(p) PROVE Typed' /\ Frame(p)
<1> DEFINE n == Oldest(list[p]).name
<1>1. /\ pc[p] = "stop.stop" /\ list' = [list EXCEPT ![p] = Others(@)]
      /\ UNCHANGED <<disk, maker, up, canceled, adrift, crossed>>
  BY DEF StopStop, At
<1>2. ControlAt(p) /\ NodesOK
  BY Parts DEF Typed, ControlOK
<1>3. n \in Names /\ node[n] \in NodeStates /\ cmd[p].name = "stop"
  BY <1>1, <1>2, LoopAt DEF ControlAt, NodesOK
<1>4. PICK s \in NodeStates : NodeBecomes(p, n, s)
  BY <1>3 DEF StopStop, NodeStates
<1>5. Goto(p, "stop.look") \/ NextTarget(p)
  BY DEF StopStop
<1>6. /\ LoopOK' /\ IsFiniteSet(list'[p]) /\ IsFiniteSet(up'[p])
      /\ \A q \in Procs \ {p} : list'[q] = list[q] /\ up'[q] = up[q]
  BY <1>1, AdvanceTo
<1>7. /\ PlaceOK' /\ ControlAt(p)' /\ cmd' = cmd
      /\ \A q \in Procs \ {p} : pc'[q] = pc[q] /\ todo'[q] = todo[q]
  <2>1. CASE Goto(p, "stop.look")
    BY <1>1, <1>3, <1>6, <2>1, AfterGoto DEF Labels
  <2>2. CASE NextTarget(p)
    BY <1>1, <1>6, <2>2, AfterNextTarget
  <2> QED BY <1>5, <2>1, <2>2
<1> QED BY <1>1, <1>3, <1>4, <1>6, <1>7, PlainCallStep

\* What kind delete leaves, for makeRoomForCluster and for remove.
LEMMA DeleteStep ==
    ASSUME Typed, NEW p \in Procs, NEW n \in Names, NEW label, Delete(p, n, label),
           \/ pc[p] = "room.delete" /\ label = "room.rmdir"
           \/ pc[p] = "remove.delete" /\ label = "remove.rmdir"
    PROVE  Typed' /\ Frame(p)
<1>1. UNCHANGED <<disk, maker, list, up, canceled, adrift, crossed>>
  BY DEF Delete
<1>2. ControlAt(p) /\ NodesOK /\ LoopOK
  BY Parts DEF Typed, ControlOK
<1>3. PICK s \in NodeStates : NodeBecomes(p, n, s)
  BY <1>2 DEF Delete, NodesOK, NodeStates
<1>4. Goto(p, label) \/ NextTarget(p)
  BY DEF Delete
<1>5. LoopOK' /\ IsFiniteSet(list'[p]) /\ IsFiniteSet(up'[p])
  BY <1>1, <1>2 DEF LoopOK, ControlAt
<1>6. /\ PlaceOK' /\ ControlAt(p)' /\ cmd' = cmd
      /\ \A q \in Procs \ {p} : pc'[q] = pc[q] /\ todo'[q] = todo[q]
  <2>1. CASE Goto(p, label)
    <3>1. \/ label = "room.rmdir" /\ up'[p] # {} /\ cmd[p].force /\ cmd[p].name = "start"
          \/ label = "remove.rmdir" /\ list'[p] # {} /\ cmd[p].name = "remove"
      BY <1>1, <1>2 DEF ControlAt, Starting
    <3> QED BY <1>5, <2>1, <3>1, AfterGoto DEF Labels
  <2>2. CASE NextTarget(p)
    BY <1>5, <2>2, AfterNextTarget
  <2> QED BY <1>4, <2>1, <2>2
<1> QED BY <1>1, <1>3, <1>5, <1>6, PlainCallStep

LEMMA RoomDeleteTyped ==
    ASSUME Typed, NEW p \in Procs, RoomDelete(p) PROVE Typed' /\ Frame(p)
<1>1. pc[p] = "room.delete" /\ Delete(p, Oldest(up[p]).name, "room.rmdir")
  BY DEF RoomDelete, At
<1>2. ControlAt(p)
  BY DEF Typed, ControlOK
<1>3. Oldest(up[p]).name \in Names
  BY <1>1, <1>2, LoopAt DEF ControlAt
<1> QED BY <1>1, <1>3, DeleteStep

LEMMA RemoveDeleteTyped ==
    ASSUME Typed, NEW p \in Procs, RemoveDelete(p) PROVE Typed' /\ Frame(p)
<1>1. pc[p] = "remove.delete" /\ Delete(p, Oldest(list[p]).name, "remove.rmdir")
  BY DEF RemoveDelete, At
<1>2. ControlAt(p)
  BY DEF Typed, ControlOK
<1>3. Oldest(list[p]).name \in Names
  BY <1>1, <1>2, LoopAt DEF ControlAt
<1> QED BY <1>1, <1>3, DeleteStep

\* A directory that goes.
LEMMA ForgetStep ==
    ASSUME Typed, NEW p \in Procs, NEW n \in Names, Forgets(p, n),
           UNCHANGED <<seen, canceled>>,
           PlaceOK', LoopOK', ControlAt(p)', cmd' = cmd,
           \A q \in Procs \ {p} : pc'[q] = pc[q] /\ todo'[q] = todo[q]
                                  /\ list'[q] = list[q] /\ up'[q] = up[q]
    PROVE  Typed' /\ Frame(p)
<1>1. DiskOK /\ NodesOK /\ SeenOK /\ GhostOK
  BY Parts DEF Typed
<1>2. /\ DiskOK' /\ UNCHANGED <<node, maker, crossed, missed, overrun>>
      /\ stale' \in [Procs -> SUBSET Names] /\ adrift' \subseteq adrift \cup {n}
  BY <1>1, ForgetsTo
<1>3. NodesOK' /\ SeenOK' /\ GhostOK'
  BY <1>1, <1>2 DEF NodesOK, SeenOK, GhostOK
<1>4. Apart(p)
  BY DEF Apart
<1>5. Typed'
  BY <1>2, <1>3, <1>4, Together
<1> QED BY <1>4, <1>5, ForgetsFrame DEF Frame

LEMMA RoomRmdirTyped ==
    ASSUME Typed, NEW p \in Procs, RoomRmdir(p) PROVE Typed' /\ Frame(p)
<1> DEFINE n == Oldest(up[p]).name
<1>1. /\ pc[p] = "room.rmdir" /\ Rmdir(p, n, Goto(p, "room.made"))
      /\ up' = [up EXCEPT ![p] = Others(@)] /\ list' = list
  BY DEF RoomRmdir, At
<1>2. ControlAt(p) /\ LoopOK
  BY Parts DEF Typed, ControlOK
<1>3. n \in Names /\ cmd[p].name = "start"
  BY <1>1, <1>2, LoopAt DEF ControlAt, Starting
<1>4. up[p] \in SUBSET Record /\ IsFiniteSet(up[p]) /\ IsFiniteSet(list[p])
  BY <1>2 DEF LoopOK, ControlAt
<1>5. Others(up[p]) \in SUBSET Record /\ IsFiniteSet(Others(up[p]))
  BY <1>4, OthersTo
<1>6. /\ LoopOK' /\ IsFiniteSet(list'[p]) /\ IsFiniteSet(up'[p])
      /\ \A q \in Procs \ {p} : list'[q] = list[q] /\ up'[q] = up[q]
  BY <1>1, <1>2, <1>4, <1>5 DEF LoopOK
<1>7. /\ UNCHANGED <<seen, canceled>>
      /\ \/ Forgets(p, n) /\ Goto(p, "room.made")
         \/ NextTarget(p) /\ UNCHANGED <<machine, ghosts>>
  BY <1>1 DEF Rmdir
<1>8. /\ PlaceOK' /\ ControlAt(p)' /\ cmd' = cmd
      /\ \A q \in Procs \ {p} : pc'[q] = pc[q] /\ todo'[q] = todo[q]
  <2>1. CASE Goto(p, "room.made")
    BY <1>1, <1>3, <1>6, <2>1, AfterGoto DEF Labels
  <2>2. CASE NextTarget(p)
    BY <1>1, <1>6, <2>2, AfterNextTarget
  <2> QED BY <1>7, <2>1, <2>2
<1>9. CASE Forgets(p, n)
  BY <1>3, <1>6, <1>7, <1>8, <1>9, ForgetStep
<1>10. CASE UNCHANGED <<machine, ghosts>>
  BY <1>6, <1>7, <1>8, <1>10, MoveStep
<1> QED BY <1>7, <1>9, <1>10

LEMMA RemoveRmdirTyped ==
    ASSUME Typed, NEW p \in Procs, RemoveRmdir(p) PROVE Typed' /\ Frame(p)
<1> DEFINE n == Oldest(list[p]).name
<1>1. /\ pc[p] = "remove.rmdir" /\ Rmdir(p, n, Goto(p, "remove.look"))
      /\ list' = [list EXCEPT ![p] = Others(@)] /\ up' = up
  BY DEF RemoveRmdir, At
<1>2. ControlAt(p)
  BY DEF Typed, ControlOK
<1>3. n \in Names /\ cmd[p].name = "remove"
  BY <1>1, <1>2, LoopAt DEF ControlAt
<1>4. /\ LoopOK' /\ IsFiniteSet(list'[p]) /\ IsFiniteSet(up'[p])
      /\ \A q \in Procs \ {p} : list'[q] = list[q] /\ up'[q] = up[q]
  BY <1>1, AdvanceTo
<1>5. /\ UNCHANGED <<seen, canceled>>
      /\ \/ Forgets(p, n) /\ Goto(p, "remove.look")
         \/ NextTarget(p) /\ UNCHANGED <<machine, ghosts>>
  BY <1>1 DEF Rmdir
<1>6. /\ PlaceOK' /\ ControlAt(p)' /\ cmd' = cmd
      /\ \A q \in Procs \ {p} : pc'[q] = pc[q] /\ todo'[q] = todo[q]
  <2>1. CASE Goto(p, "remove.look")
    BY <1>1, <1>3, <1>4, <2>1, AfterGoto DEF Labels
  <2>2. CASE NextTarget(p)
    BY <1>1, <1>4, <2>2, AfterNextTarget
  <2> QED BY <1>5, <2>1, <2>2
<1>7. CASE Forgets(p, n)
  BY <1>3, <1>4, <1>5, <1>6, <1>7, ForgetStep
<1>8. CASE UNCHANGED <<machine, ghosts>>
  BY <1>4, <1>5, <1>6, <1>8, MoveStep
<1> QED BY <1>5, <1>7, <1>8

LEMMA StartForgetTyped ==
    ASSUME Typed, NEW p \in Procs, StartForget(p) PROVE Typed' /\ Frame(p)
<1>1. /\ pc[p] = "start.forget" /\ NextTarget(p) /\ UNCHANGED <<seen, list, up, canceled>>
      /\ Forgets(p, Own(p)) \/ UNCHANGED <<machine, ghosts>>
  BY DEF StartForget, At
<1>2. Own(p) \in Names
  BY <1>1, Parts, OwnType DEF Typed
<1>3. /\ PlaceOK' /\ LoopOK' /\ ControlAt(p)' /\ cmd' = cmd
      /\ \A q \in Procs \ {p} : pc'[q] = pc[q] /\ todo'[q] = todo[q]
                                /\ list'[q] = list[q] /\ up'[q] = up[q]
  BY <1>1, StartGoes
<1>4. CASE Forgets(p, Own(p))
  BY <1>1, <1>2, <1>3, <1>4, ForgetStep
<1>5. CASE UNCHANGED <<machine, ghosts>>
  BY <1>1, <1>3, <1>5, MoveStep
<1> QED BY <1>1, <1>4, <1>5

LEMMA StartWriteTyped ==
    ASSUME Typed, NEW p \in Procs, StartWrite(p) PROVE Typed' /\ Frame(p)
<1> DEFINE n == Own(p)
           new == [name |-> n, owner |-> Me(p), created |-> clock']
<1>1. pc[p] = "start.write" /\ UNCHANGED <<seen, list, up, canceled>>
  BY DEF StartWrite, At
<1>2. DiskOK /\ NodesOK /\ PlaceOK /\ SeenOK /\ GhostOK
  BY Parts DEF Typed
<1>3. n \in Names /\ Me(p) \in Owners
  BY <1>1, <1>2, OwnType
<1>4. Goto(p, "start.create") \/ NextTarget(p)
  BY DEF StartWrite
<1>5. /\ PlaceOK' /\ LoopOK' /\ ControlAt(p)' /\ cmd' = cmd
      /\ \A q \in Procs \ {p} : pc'[q] = pc[q] /\ todo'[q] = todo[q]
                                /\ list'[q] = list[q] /\ up'[q] = up[q]
  BY <1>1, <1>4, StartGoes DEF Starting
<1>6. CASE Forgets(p, n)
  BY <1>1, <1>3, <1>5, <1>6, ForgetStep
<1>7. CASE ~Forgets(p, n) /\ ~UNCHANGED <<machine, ghosts>>
  <2>1. /\ clock' = clock + 1 /\ records' = Without(n) \cup {new} /\ MarkStale(p, n)
        /\ crossed' = crossed \cup {n} \/ crossed' = crossed \ {n}
        /\ UNCHANGED <<node, maker, adrift, counts>>
    BY <1>7 DEF StartWrite
  <2>2. Without(n) \subseteq records /\ \A c \in Without(n) : c.name # n
    BY DEF Without
  <2>3. IsFiniteSet(records')
    BY <1>2, <2>1, <2>2, FS_Subset, FS_AddElement DEF DiskOK
  <2>4. new \in Record /\ new.name = n /\ new.created = clock'
    BY <1>2, <1>3, <2>1 DEF DiskOK, Record
  <2>5. clock' \in Nat /\ clock' > clock /\ \A c \in records : c.created \in Nat /\ c.created <= clock
    BY <1>2, <2>1 DEF DiskOK, Record
  <2>6. records' \subseteq Record /\ \A c \in records' : c.created <= clock'
    <3> HIDE DEF new
    <3> QED BY <1>2, <2>1, <2>2, <2>4, <2>5 DEF DiskOK
  <2>7. OneEach(records')
    <3> HIDE DEF new
    <3>1. ASSUME NEW c \in Without(n) PROVE c.name # new.name /\ c.created # new.created
      BY <1>2, <2>2, <2>4, <2>5 DEF DiskOK
    <3> QED BY <1>2, <2>1, <2>2, <3>1 DEF DiskOK, OneEach
  <2>8. DiskOK'
    BY <2>3, <2>5, <2>6, <2>7 DEF DiskOK
  <2>9. stale' \in [Procs -> SUBSET Names] /\ \A q \in Procs \ {p} : stale'[q] = stale[q] \cup {n}
    BY <1>2, <1>3, <2>1, MarkStaleTo
  <2>10. NodesOK' /\ SeenOK' /\ GhostOK'
    BY <1>1, <1>2, <1>3, <2>1, <2>9 DEF NodesOK, SeenOK, GhostOK, counts
  <2>11. Apart(p)
    BY <1>1, <1>5 DEF Apart
  <2>12. Typed'
    BY <1>5, <2>8, <2>10, <2>11, Together
  <2>13. OneWay
    BY <2>1 DEF OneWay
  <2>14. ASSUME NEW q \in Procs \ {p} PROVE StaleMarked(q)
    <3>1. \A c : (c \in records' <=> c \in records) \/ c.name = n
      <4> HIDE DEF new
      <4> QED BY <2>1, <2>4 DEF Without
    <3> QED BY <2>1, <2>9, <3>1 DEF StaleMarked
  <2>15. ASSUME NEW q \in Procs \ {p} PROVE MissedMarked(q)
    BY <2>1 DEF MissedMarked, counts
  <2>16. ASSUME NEW q \in Procs \ {p} PROVE AdriftMarked(q)
    <3>1. \A m : Recorded(m) => Recorded(m)'
      <4> HIDE DEF new
      <4> QED BY <2>1, <2>4 DEF Without, Recorded
    <3> QED BY <3>1 DEF AdriftMarked
  <2> QED BY <2>11, <2>12, <2>13, <2>14, <2>15, <2>16 DEF Frame, Marked
<1>8. CASE UNCHANGED <<machine, ghosts>>
  BY <1>1, <1>5, <1>8, MoveStep
<1> QED BY <1>6, <1>7, <1>8

LEMMA InterruptTyped ==
    ASSUME Typed, NEW p \in Procs, Interrupt(p) PROVE Typed' /\ Frame(p)
<1>1. /\ canceled' = canceled \cup {p}
      /\ UNCHANGED <<machine, control, pc, seen, list, up, ghosts>>
  BY DEF Interrupt
<1>2. UNCHANGED <<stale, adrift, crossed, missed, overrun, cmd, todo>>
  BY <1>1 DEF ghosts, counts, control
<1>3. PlaceOK /\ SeenOK /\ LoopOK /\ GhostOK /\ ControlAt(p)
  BY Parts DEF Typed, ControlOK
<1>4. PlaceOK' /\ SeenOK' /\ LoopOK' /\ ControlAt(p)'
  BY <1>1, <1>2, <1>3 DEF PlaceOK, SeenOK, LoopOK, ControlAt, Starting
<1>5. GhostOK'
  BY <1>1, <1>2, <1>3 DEF GhostOK
<1>6. Apart(p)
  BY <1>1, <1>2 DEF Apart
<1> QED BY <1>1, <1>2, <1>4, <1>5, <1>6, QuietStep

\* Every step keeps the types, and leaves to the others what is theirs.
LEMMA StepTyped ==
    ASSUME Typed, NEW p \in Procs, Step(p) \/ Interrupt(p)
    PROVE  Typed' /\ Frame(p)
  BY StartLookTyped, StartReadyTyped, StartExistsTyped, StartRestartTyped, StartWriteTyped,
     StartCreateTyped, StartMakingTyped, StartUndoTyped, StartForgetTyped, RoomListTyped,
     RoomLookTyped, RoomCountedTyped, RoomMadeTyped, RoomDeleteTyped, RoomRmdirTyped,
     ListTyped, StopLookTyped, StopStopTyped, RemoveLookTyped, RemoveDeleteTyped,
     RemoveRmdirTyped, ThroughTyped, InterruptTyped DEF Step

\* A step that changes nothing.
LEMMA StutterTyped ==
    ASSUME Typed, UNCHANGED vars
    PROVE  Typed'
<1>1. UNCHANGED <<records, clock, node, cmd, pc, todo, seen, list, up, canceled, maker, stale,
                  adrift, crossed, missed, overrun>>
  BY DEF vars
<1>2. TypeOK'
  BY <1>1 DEF Typed, TypeOK, OneEach
<1>3. ControlOK'
  BY <1>1 DEF Typed, ControlOK, ControlAt, Starting
<1> QED BY <1>2, <1>3 DEF Typed

LEMMA NextTyped == Typed /\ [Next]_vars => Typed'
<1> SUFFICES ASSUME Typed, [Next]_vars PROVE Typed'
  OBVIOUS
<1>1. CASE Next
  <2>1. PICK p \in Procs : Step(p) \/ Interrupt(p)
    BY <1>1 DEF Next
  <2> QED BY <2>1, StepTyped
<1>2. CASE UNCHANGED vars
  BY <1>2, StutterTyped
<1> QED BY <1>1, <1>2

LEMMA InitTyped == Init => Typed
<1> SUFFICES ASSUME Init PROVE Typed
  OBVIOUS
<1>1. PICK s \in Starts : records = s.records /\ node = s.node
  BY DEF Init
<1>2. s \in [records : SUBSET Record, node : [Names -> NodeStates]]
      /\ IsFiniteSet(s.records) /\ OneEach(s.records)
      /\ \A c \in s.records : c.created <= Cardinality(s.records)
  BY ClustersAssumption
<1>3. DiskOK
  <2>1. clock \in Nat
    BY <1>1, <1>2, FS_CardinalityType DEF Init
  <2> QED BY <1>1, <1>2, <2>1 DEF DiskOK, Init
<1>4. NodesOK
  BY <1>1, <1>2 DEF NodesOK, Init
<1>5. cmd \in [Procs -> CommandLine]
  <2>1. \A p \in Procs : cmd[p] \in CommandLine
    BY ClustersAssumption DEF Init
  <2>2. PICK T : cmd \in [Procs -> T]
    BY DEF Init
  <2> QED BY <2>1, <2>2
<1>6. /\ todo = [p \in Procs |-> cmd[p].picked]
      /\ \A p \in Procs : todo[p] = cmd[p].picked /\ todo[p] \in Seq(Releases)
  BY <1>5 DEF Init, CommandLine
<1>7. \A p \in Procs : pc[p] = IF todo[p] = <<>> THEN "done" ELSE Entry(cmd[p].name)
  BY DEF Init
<1>8. \A p \in Procs : pc[p] \in {"done", "start.look", "stop.list", "remove.list"}
  BY <1>5, <1>7, EntryType
<1>9. PlaceOK
  <2>1. pc \in [Procs -> Labels]
    <3>1. \A p \in Procs : pc[p] \in Labels
      BY <1>8 DEF Labels
    <3>2. DOMAIN pc = Procs /\ pc = [p \in Procs |-> pc[p]]
      BY DEF Init
    <3> QED BY <3>1, <3>2
  <2> QED BY <1>5, <1>6, <1>7, <2>1 DEF PlaceOK
<1>10. SeenOK /\ LoopOK
  BY DEF SeenOK, LoopOK, Init
<1>11. GhostOK
  BY DEF GhostOK, Init
<1>12. ASSUME NEW p \in Procs PROVE ControlAt(p)
  <2>1. IsFiniteSet(list[p]) /\ IsFiniteSet(up[p])
    BY FS_EmptySet DEF Init
  <2> QED BY <1>5, <1>7, <1>8, <2>1, EntryType DEF ControlAt, Starting
<1> QED BY <1>3, <1>4, <1>9, <1>10, <1>11, <1>12, Parts DEF Typed, ControlOK

LEMMA AlwaysTyped == Spec => []Typed
<1> QED BY InitTyped, NextTyped, PTL DEF Spec

\* The types hold of every run.
THEOREM TypeCorrect == Spec => []TypeOK
<1>1. Typed => TypeOK
  BY DEF Typed
<1> QED BY <1>1, AlwaysTyped, PTL

---------------------------------------------------------------------------
(* What a process remembers of the nodes. *)

\* What p read of n is not old.
Fresh(p, n) == n \notin stale[p]

\* What a process remembers of a node is so, unless somebody changed it since.
CacheAt(p) == \A n \in Names : seen[p][n] # "unknown" /\ Fresh(p, n) => seen[p][n] = node[n]

CacheOK == \A p \in Procs : CacheAt(p)

\* What a process remembers after its own step.
View(p) ==
    \A n \in Names :
       \/ seen'[p][n] = "unknown"
       \/ seen'[p][n] = seen[p][n] /\ node'[n] = node[n] /\ (n \in stale[p] => n \in stale'[p])
       \/ seen'[p][n] = node'[n]

LEMMA LooksView ==
    ASSUME Typed, NEW p \in Procs, NEW n \in Names, NEW s, Looks(p, n, s),
           stale' = stale \/ Reads(p, {n})
    PROVE  View(p)
<1>1. NodesOK /\ SeenOK /\ GhostOK
  BY Parts DEF Typed
<1>2. /\ s \in Answers(p, n) /\ node' = node
      /\ seen'[p][n] = (IF s = "absent" THEN seen[p][n] ELSE s)
      /\ \A m \in Names \ {n} : seen'[p][m] = seen[p][m]
  BY <1>1, LooksTo
<1>3. \A m \in Names : seen[p][m] # "unknown" /\ m \in stale[p] => m \in stale'[p]
  <2>1. CASE stale' = stale
    BY <2>1
  <2>2. CASE Reads(p, {n})
    BY <1>1, <2>2, ReadsTo
  <2> QED BY <2>1, <2>2
<1>4. /\ seen[p][n] # "unknown" => s = seen[p][n]
      /\ seen[p][n] = "unknown" /\ s # "absent" => s = node[n]
  BY <1>1, <1>2, AnswersTo
<1> QED BY <1>2, <1>3, <1>4 DEF View

LEMMA CallsView ==
    ASSUME Typed, NEW p \in Procs, NEW n \in Names, NEW s \in NodeStates, NodeBecomes(p, n, s)
    PROVE  View(p)
<1>1. NodesOK /\ SeenOK /\ GhostOK
  BY Parts DEF Typed
<1>2. /\ node' = [node EXCEPT ![n] = s] /\ seen'[p][n] = "unknown"
      /\ \A m \in Names \ {n} : seen'[p][m] = seen[p][m]
      /\ stale'[p] = stale[p]
  BY <1>1, BecomesTo
<1>3. \A m \in Names \ {n} : node'[m] = node[m]
  BY <1>1, <1>2 DEF NodesOK
<1> QED BY <1>2, <1>3 DEF View

\* A step that hears nothing of the nodes.
LEMMA DeafView ==
    ASSUME Typed, NEW p \in Procs, UNCHANGED <<seen, node>>,
           \/ stale'[p] = stale[p]
           \/ \E n \in Names : Forgets(p, n) \/ MarkStale(p, n)
           \/ \E ns : Reads(p, ns)
    PROVE  View(p)
<1>1. GhostOK /\ DiskOK
  BY Parts DEF Typed
<1>2. \A n \in Names : seen[p][n] # "unknown" /\ n \in stale[p] => n \in stale'[p]
  <2>1. CASE stale'[p] = stale[p]
    BY <2>1
  <2>2. ASSUME NEW n \in Names, Forgets(p, n) \/ MarkStale(p, n)
        PROVE  stale'[p] = stale[p]
    BY <1>1, <2>2, MarkStaleTo DEF Forgets
  <2>3. ASSUME NEW ns, Reads(p, ns)
        PROVE  stale'[p] = stale[p] \ { n \in ns : seen[p][n] = "unknown" }
    BY <1>1, <2>3, ReadsTo
  <2> QED BY <2>1, <2>2, <2>3
<1> QED BY <1>2 DEF View

\* The labels at which a process has a cluster of its own, or of its loop.
LEMMA NamesAt ==
    ASSUME Typed, NEW p \in Procs
    PROVE  /\ pc[p] # "done" => Own(p) \in Names
           /\ pc[p] \in {"stop.stop", "remove.delete", "remove.rmdir"}
                 => Oldest(list[p]) \in list[p] /\ Oldest(list[p]).name \in Names
           /\ pc[p] \in {"room.delete", "room.rmdir"}
                 => Oldest(up[p]) \in up[p] /\ Oldest(up[p]).name \in Names
<1>1. PlaceOK /\ ControlAt(p)
  BY Parts DEF Typed, ControlOK
<1> QED BY <1>1, OwnType, LoopAt DEF ControlAt

LEMMA StepView ==
    ASSUME Typed, NEW p \in Procs, Step(p) \/ Interrupt(p)
    PROVE  View(p)
<1>0. SeenOK /\ GhostOK /\ NodesOK
  BY Parts DEF Typed
<1>1. CASE StartLook(p)
  <2>1. PICK s : Looks(p, Own(p), s) /\ Reads(p, {Own(p)})
    BY <1>1 DEF StartLook
  <2> QED BY <1>1, <2>1, NamesAt, LooksView DEF StartLook, At
<1>2. CASE StartReady(p)
  <2>1. /\ UNCHANGED <<node, stale>> /\ pc[p] = "start.ready"
        /\ seen' = [seen EXCEPT ![p][Own(p)] = "unknown"]
    BY <1>2 DEF StartReady, At, machine, ghosts
  <2>2. Own(p) \in Names
    BY <2>1, NamesAt
  <2> QED BY <1>0, <2>1, <2>2 DEF View, SeenOK
<1>3. CASE StartExists(p)
  <2>1. PICK s : Looks(p, Own(p), s) /\ stale' = stale
    BY <1>3 DEF StartExists
  <2> QED BY <1>3, <2>1, NamesAt, LooksView DEF StartExists, At
<1>4. CASE StartRestart(p) \/ StartCreate(p) \/ StartMaking(p) \/ StartUndo(p)
  <2>1. pc[p] # "done"
    BY <1>4 DEF StartRestart, StartCreate, StartMaking, StartUndo, At
  <2>2. Own(p) \in Names /\ node[Own(p)] \in NodeStates
    BY <1>0, <2>1, NamesAt DEF NodesOK
  <2>3. PICK s \in NodeStates : NodeBecomes(p, Own(p), s)
    BY <1>4, <2>2 DEF StartRestart, StartCreate, StartMaking, StartUndo, NodeStates
  <2> QED BY <2>2, <2>3, CallsView
<1>5. CASE StartWrite(p)
  <2>1. /\ pc[p] # "done" /\ UNCHANGED <<seen, node>>
        /\ MarkStale(p, Own(p)) \/ Forgets(p, Own(p)) \/ stale' = stale
    BY <1>5 DEF StartWrite, At, Forgets, machine, ghosts
  <2> QED BY <2>1, NamesAt, DeafView
<1>6. CASE StartForget(p)
  <2>1. /\ pc[p] # "done" /\ UNCHANGED <<seen, node>>
        /\ Forgets(p, Own(p)) \/ stale' = stale
    BY <1>6 DEF StartForget, At, Forgets, machine, ghosts
  <2> QED BY <2>1, NamesAt, DeafView
<1>7. CASE RoomList(p) \/ StopList(p) \/ RemoveList(p)
  <2>1. UNCHANGED <<seen, node>> /\ \E ns : Reads(p, ns)
    BY <1>7 DEF RoomList, StopList, RemoveList, List, machine
  <2> QED BY <2>1, DeafView
<1>8. CASE RoomLook(p) \/ (StopLook(p) /\ MayTouch(p, Oldest(list[p]))) \/ RemoveLook(p)
  <2>1. list[p] # {} /\ \E s : Looks(p, Oldest(list[p]).name, s) /\ stale' = stale
    BY <1>8 DEF RoomLook, StopLook, RemoveLook
  <2> QED BY <2>1, LoopAt, LooksView
<1>9. CASE RoomCounted(p) \/ RoomMade(p) \/ Through(p) \/ Interrupt(p)
           \/ (StopLook(p) /\ ~MayTouch(p, Oldest(list[p])))
  <2>1. UNCHANGED <<machine, seen, ghosts>>
    BY <1>9 DEF RoomCounted, RoomMade, Through, Interrupt, StopLook
  <2> QED BY <2>1, DeafView DEF machine, ghosts
<1>10. CASE RoomDelete(p) \/ RemoveDelete(p)
  <2>1. PICK n \in Names : \E label : Delete(p, n, label)
    BY <1>10, NamesAt DEF RoomDelete, RemoveDelete, At
  <2>2. PICK s \in NodeStates : NodeBecomes(p, n, s)
    BY <1>0, <2>1 DEF Delete, NodesOK, NodeStates
  <2> QED BY <2>2, CallsView
<1>11. CASE StopStop(p)
  <2>1. Oldest(list[p]).name \in Names /\ node[Oldest(list[p]).name] \in NodeStates
    BY <1>0, <1>11, NamesAt DEF StopStop, At, NodesOK
  <2>2. PICK s \in NodeStates : NodeBecomes(p, Oldest(list[p]).name, s)
    BY <1>11, <2>1 DEF StopStop, NodeStates
  <2> QED BY <2>1, <2>2, CallsView
<1>12. CASE RoomRmdir(p) \/ RemoveRmdir(p)
  <2>1. PICK n \in Names : /\ UNCHANGED seen
                           /\ Forgets(p, n) \/ UNCHANGED <<machine, ghosts>>
    BY <1>12, NamesAt DEF RoomRmdir, RemoveRmdir, Rmdir, At
  <2>2. UNCHANGED node /\ (Forgets(p, n) \/ stale' = stale)
    BY <2>1 DEF Forgets, machine, ghosts
  <2> QED BY <2>1, <2>2, DeafView
<1> QED BY <1>1, <1>2, <1>3, <1>4, <1>5, <1>6, <1>7, <1>8, <1>9, <1>10, <1>11, <1>12 DEF Step

LEMMA StepCache ==
    ASSUME Typed, CacheOK, NEW p \in Procs, Step(p) \/ Interrupt(p)
    PROVE  CacheOK'
<1>1. View(p) /\ Frame(p)
  BY StepView, StepTyped
<1>2. CacheAt(p)'
  BY <1>1 DEF View, CacheOK, CacheAt, Fresh
<1>3. ASSUME NEW q \in Procs, q # p PROVE CacheAt(q)'
  <2>1. seen'[q] = seen[q] /\ StaleMarked(q)
    BY <1>1, <1>3 DEF Frame, Apart, Marked
  <2> QED BY <2>1 DEF StaleMarked, CacheOK, CacheAt, Fresh
<1> QED BY <1>2, <1>3 DEF CacheOK

---------------------------------------------------------------------------
(* Which steps come to which label. *)

LEMMA GoesTo ==
    ASSUME Typed, NEW p \in Procs
    PROVE  /\ \A label : Goto(p, label) => pc'[p] = label
           /\ pc[p] # "done" /\ NextTarget(p)
                => pc'[p] \in {"done", "start.look", "stop.list", "remove.list"}
<1>1. PlaceOK
  BY Parts DEF Typed
<1> QED BY <1>1, NextTargetTo DEF Goto, PlaceOK

LEMMA Lands ==
    ASSUME Typed, NEW p \in Procs, Step(p)
    PROVE  /\ pc[p] # "done"
           /\ pc'[p] \in {"start.write", "start.restart"} => StartExists(p)
           /\ pc'[p] = "start.create" => StartWrite(p) /\ Goto(p, "start.create")
           /\ pc'[p] = "start.making" => StartCreate(p) /\ Goto(p, "start.making")
           /\ pc'[p] = "start.undo" => StartCreate(p) \/ StartMaking(p)
           /\ pc'[p] = "start.forget" => StartUndo(p)
           /\ pc'[p] = "room.rmdir" => RoomDelete(p) /\ Goto(p, "room.rmdir")
           /\ pc'[p] = "remove.rmdir" => RemoveDelete(p) /\ Goto(p, "remove.rmdir")
           /\ pc'[p] = "stop.stop" => StopLook(p) /\ Goto(p, "stop.stop")
           /\ pc'[p] = "remove.delete" => RemoveLook(p) /\ Goto(p, "remove.delete")
           /\ pc'[p] = "room.look" => RoomList(p) \/ RoomLook(p)
           /\ pc'[p] = "room.made" => RoomCounted(p) \/ (RoomRmdir(p) /\ Goto(p, "room.made"))
           /\ pc'[p] \in {"room.delete", "start.exists"} => RoomMade(p)
           /\ pc'[p] = "stop.look" => StopList(p) \/ StopLook(p) \/ StopStop(p)
           /\ pc'[p] = "remove.look" => RemoveList(p) \/ RemoveLook(p) \/ RemoveRmdir(p)
<1>1. CASE StartLook(p)
  <2>1. Goto(p, "start.ready") \/ Goto(p, "room.list")
    BY <1>1 DEF StartLook
  <2> QED BY <1>1, <2>1, GoesTo DEF StartLook, At
<1>2. CASE StartReady(p) \/ StartForget(p) \/ Through(p)
  <2>1. pc[p] # "done" /\ NextTarget(p)
    BY <1>2 DEF StartReady, StartForget, Through, At
  <2> QED BY <2>1, GoesTo
<1>3. CASE StartExists(p)
  <2>1. Goto(p, "start.write") \/ Goto(p, "start.restart")
    BY <1>3 DEF StartExists
  <2> QED BY <1>3, <2>1, GoesTo DEF StartExists, At
<1>4. CASE StartRestart(p)
  <2>1. Goto(p, "start.ready") \/ NextTarget(p)
    BY <1>4 DEF StartRestart
  <2> QED BY <1>4, <2>1, GoesTo DEF StartRestart, At
<1>5. CASE StartWrite(p)
  <2>1. Goto(p, "start.create") \/ NextTarget(p)
    BY <1>5 DEF StartWrite
  <2> QED BY <1>5, <2>1, GoesTo DEF StartWrite, At
<1>6. CASE StartCreate(p)
  <2>1. Goto(p, "start.making") \/ Goto(p, "start.undo")
    BY <1>6 DEF StartCreate
  <2> QED BY <1>6, <2>1, GoesTo DEF StartCreate, At
<1>7. CASE StartMaking(p)
  <2>1. Goto(p, "start.ready") \/ Goto(p, "start.undo")
    BY <1>7 DEF StartMaking
  <2> QED BY <1>7, <2>1, GoesTo DEF StartMaking, At
<1>8. CASE StartUndo(p)
  BY <1>8, GoesTo DEF StartUndo, At
<1>9. CASE RoomList(p)
  BY <1>9, GoesTo DEF RoomList, At
<1>10. CASE RoomLook(p)
  BY <1>10, GoesTo DEF RoomLook, At
<1>11. CASE RoomCounted(p)
  BY <1>11, GoesTo DEF RoomCounted, At
<1>12. CASE RoomMade(p)
  <2>1. Goto(p, "start.exists") \/ Goto(p, "room.delete") \/ NextTarget(p)
    BY <1>12 DEF RoomMade
  <2> QED BY <1>12, <2>1, GoesTo DEF RoomMade, At
<1>13. CASE RoomDelete(p)
  <2>1. Goto(p, "room.rmdir") \/ NextTarget(p)
    BY <1>13 DEF RoomDelete, Delete
  <2> QED BY <1>13, <2>1, GoesTo DEF RoomDelete, At
<1>14. CASE RoomRmdir(p)
  <2>1. Goto(p, "room.made") \/ NextTarget(p)
    BY <1>14 DEF RoomRmdir, Rmdir
  <2> QED BY <1>14, <2>1, GoesTo DEF RoomRmdir, At
<1>15. CASE StopList(p)
  BY <1>15, GoesTo DEF StopList, List, At
<1>16. CASE RemoveList(p)
  BY <1>16, GoesTo DEF RemoveList, List, At
<1>17. CASE StopLook(p)
  <2>1. Goto(p, "stop.stop") \/ Goto(p, "stop.look") \/ NextTarget(p) \/ pc' = pc
    <3>1. CASE MayTouch(p, Oldest(list[p]))
      BY <1>17, <3>1 DEF StopLook
    <3>2. CASE ~MayTouch(p, Oldest(list[p]))
      BY <1>17, <3>2 DEF StopLook, NotYours
    <3> QED BY <3>1, <3>2
  <2> QED BY <1>17, <2>1, GoesTo DEF StopLook, At
<1>18. CASE RemoveLook(p)
  <2>1. Goto(p, "remove.delete") \/ NextTarget(p) \/ pc' = pc
    BY <1>18 DEF RemoveLook, NotYours
  <2> QED BY <1>18, <2>1, GoesTo DEF RemoveLook, At
<1>19. CASE StopStop(p)
  <2>1. Goto(p, "stop.look") \/ NextTarget(p)
    BY <1>19 DEF StopStop
  <2> QED BY <1>19, <2>1, GoesTo DEF StopStop, At
<1>20. CASE RemoveDelete(p)
  <2>1. Goto(p, "remove.rmdir") \/ NextTarget(p)
    BY <1>20 DEF RemoveDelete, Delete
  <2> QED BY <1>20, <2>1, GoesTo DEF RemoveDelete, At
<1>21. CASE RemoveRmdir(p)
  <2>1. Goto(p, "remove.look") \/ NextTarget(p)
    BY <1>21 DEF RemoveRmdir, Rmdir
  <2> QED BY <1>21, <2>1, GoesTo DEF RemoveRmdir, At
<1> QED BY <1>1, <1>2, <1>3, <1>4, <1>5, <1>6, <1>7, <1>8, <1>9, <1>10, <1>11, <1>12,
           <1>13, <1>14, <1>15, <1>16, <1>17, <1>18, <1>19, <1>20, <1>21 DEF Step

---------------------------------------------------------------------------
(* A node has its record. *)

\* What the name of a start is, at each step of the start.
OwnAt(p) ==
    /\ pc[p] \in {"start.write", "start.create"} /\ Fresh(p, Own(p)) /\ p \notin canceled
          => node[Own(p)] = "absent"
    /\ pc[p] = "start.create" => Recorded(Own(p)) \/ Own(p) \in adrift
    /\ pc[p] = "start.create" /\ Fresh(p, Own(p))
          => \A c \in records : c.name = Own(p) => c.owner = Me(p)
    /\ pc[p] = "start.making" /\ Fresh(p, Own(p)) => maker[Own(p)] = p
    /\ pc[p] = "start.undo" /\ Fresh(p, Own(p)) /\ p \notin canceled
          => node[Own(p)] = "absent" \/ maker[Own(p)] = p
    /\ pc[p] = "start.forget" /\ Fresh(p, Own(p)) /\ Own(p) \notin adrift
          => node[Own(p)] = "absent"

\* The cluster a process is about to forget has no node.
GoneAt(p) ==
    /\ pc[p] = "room.rmdir" /\ Fresh(p, Oldest(up[p]).name)
          => node[Oldest(up[p]).name] = "absent"
    /\ pc[p] = "remove.rmdir" /\ Fresh(p, Oldest(list[p]).name)
          => node[Oldest(list[p]).name] = "absent"

OwnOK == \A p \in Procs : OwnAt(p)
GoneOK == \A p \in Procs : GoneAt(p)

\* A step of p takes nothing from what the others know.
LEMMA OthersOwn ==
    ASSUME Typed, Typed', OwnOK, GoneOK, NEW p \in Procs, Frame(p), NEW q \in Procs, q # p
    PROVE  OwnAt(q)' /\ GoneAt(q)'
<1>1. /\ pc'[q] = pc[q] /\ todo'[q] = todo[q] /\ list'[q] = list[q] /\ up'[q] = up[q]
      /\ q \in canceled' <=> q \in canceled
      /\ StaleMarked(q) /\ AdriftMarked(q) /\ OneWay
  BY DEF Frame, Apart, Marked
<1>2. OwnAt(q) /\ GoneAt(q)
  BY DEF OwnOK, GoneOK
<1>3. /\ pc[q] # "done" => Own(q) \in Names
      /\ pc[q] = "remove.rmdir" => Oldest(list[q]).name \in Names
      /\ pc[q] = "room.rmdir" => Oldest(up[q]).name \in Names
  BY NamesAt
<1>4. ASSUME NEW n \in Names, n \notin stale'[q]
      PROVE  n \notin stale[q] /\ node'[n] = node[n] /\ maker'[n] = maker[n]
  BY <1>1, <1>4 DEF StaleMarked, OneWay
<1>5. GoneAt(q)'
  BY <1>1, <1>2, <1>3, <1>4 DEF GoneAt, Fresh
<1>6. Own(q)' = Own(q) /\ Me(q)' = Me(q)
  BY <1>1 DEF Own, Me
<1>7. pc[q] = "start.create" => (Recorded(Own(q)) \/ Own(q) \in adrift)'
  <2> SUFFICES ASSUME NEW n, n = Own(q), pc[q] = "start.create"
               PROVE  Recorded(n)' \/ n \in adrift'
    BY <1>6 DEF Recorded
  <2>1. n \in Making(q)
    BY DEF Making
  <2>2. Recorded(n) \/ n \in adrift
    BY <1>2 DEF OwnAt
  <2> QED BY <1>1, <2>1, <2>2 DEF AdriftMarked, OneWay
<1>8. pc[q] = "start.create" /\ Own(q) \notin stale'[q]
         => \A c \in records' : c.name = Own(q) => c.owner = Me(q)
  <2> SUFFICES ASSUME pc[q] = "start.create", Own(q) \notin stale'[q],
                      NEW c \in records', c.name = Own(q)
               PROVE  c.owner = Me(q)
    OBVIOUS
  <2>1. c \in Record
    BY DEF Typed, TypeOK
  <2> QED BY <1>1, <1>2, <1>3, <1>4, <2>1 DEF OwnAt, StaleMarked, Fresh
<1>9. OwnAt(q)'
  BY <1>1, <1>2, <1>3, <1>4, <1>6, <1>7, <1>8 DEF OwnAt, Fresh, OneWay
<1> QED BY <1>5, <1>9

\* What p itself knows of the name of its start.
LEMMA OwnStep ==
    ASSUME "inspect" \notin Faults, Typed, OwnOK, NEW p \in Procs, Step(p)
    PROVE  OwnAt(p)'
<1>1. SeenOK /\ NodesOK /\ GhostOK /\ DiskOK /\ PlaceOK /\ OwnAt(p)
  BY Parts DEF Typed, OwnOK
<1>2. pc[p] # "done" /\ Own(p) \in Names /\ Me(p) \in Owners
  BY <1>1, Lands, OwnType
<1>3. \A label : Goto(p, label) => Own(p)' = Own(p) /\ Me(p)' = Me(p)
  BY DEF Goto, control, Own, Me
<1>4. CASE pc'[p] = "start.write"
  <2>1. StartExists(p)
    BY <1>4, Lands
  <2>2. PICK s \in Answers(p, Own(p)) :
           /\ Looks(p, Own(p), s)
           /\ Goto(p, IF s = "absent" THEN "start.write" ELSE "start.restart")
    BY <2>1 DEF StartExists
  <2>3. UNCHANGED <<stale, node, canceled>> /\ Own(p)' = Own(p)
    BY <1>3, <2>1, <2>2 DEF StartExists, Looks, machine
  <2>4. s = "absent"
    <3>1. ASSUME s # "absent" PROVE Goto(p, "start.restart")
      BY <2>2, <3>1
    <3> QED BY <1>4, <3>1, GoesTo
  <2>5. p \notin canceled => node[Own(p)] = "absent"
    BY <1>1, <1>2, <2>4, AnswersTo DEF SeenOK
  <2> QED BY <1>4, <2>3, <2>5 DEF OwnAt
<1>5. CASE pc'[p] = "start.create"
  <2>1. StartWrite(p) /\ Goto(p, "start.create")
    BY <1>5, Lands
  <2>2. ~NextTarget(p)
    BY <1>2, <1>5, GoesTo
  <2>3. /\ pc[p] = "start.write" /\ MarkStale(p, Own(p))
        /\ records' = Without(Own(p))
                        \cup {[name |-> Own(p), owner |-> Me(p), created |-> clock']}
        /\ UNCHANGED <<node, canceled>>
    BY <2>1, <2>2 DEF StartWrite, At
  <2>4. stale'[p] = stale[p]
    BY <1>1, <1>2, <2>3, MarkStaleTo
  <2>5. Own(p)' = Own(p) /\ Me(p)' = Me(p)
    BY <1>3, <2>1
  <2>6. ASSUME NEW n, n = Own(p)
        PROVE  Recorded(n)' /\ \A c \in records' : c.name = n => c.owner = Me(p)
    <3> DEFINE new == [name |-> Own(p), owner |-> Me(p), created |-> clock']
    <3>1. new.name = n /\ new.owner = Me(p)
      BY <2>6
    <3>2. records' = Without(n) \cup {new}
      BY <2>3, <2>6
    <3> HIDE DEF new
    <3> QED BY <3>1, <3>2 DEF Recorded, Without
  <2>7. (Recorded(Own(p)))'
    BY <2>5, <2>6 DEF Recorded
  <2> QED BY <1>1, <1>5, <2>3, <2>4, <2>5, <2>6, <2>7 DEF OwnAt, Fresh
<1>6. CASE pc'[p] = "start.making"
  <2>1. StartCreate(p) /\ Goto(p, "start.making")
    BY <1>6, Lands
  <2>2. ~Goto(p, "start.undo")
    BY <1>6, GoesTo
  <2>3. maker' = [maker EXCEPT ![Own(p)] = p]
    BY <2>1, <2>2 DEF StartCreate
  <2> QED BY <1>1, <1>2, <1>3, <1>6, <2>1, <2>3 DEF OwnAt, NodesOK
<1>7. CASE pc'[p] = "start.undo"
  <2>1. /\ Goto(p, "start.undo") /\ UNCHANGED <<maker, canceled>>
        /\ \E s \in NodeStates :
              /\ NodeBecomes(p, Own(p), s)
              /\ s = node[Own(p)] \/ s = "absent"
        /\ pc[p] \in {"start.create", "start.making"}
    <3>1. CASE StartCreate(p)
      <4>1. ~Goto(p, "start.making")
        BY <1>7, GoesTo
      <4> QED BY <1>1, <1>2, <3>1, <4>1 DEF StartCreate, NodesOK, At
    <3>2. CASE StartMaking(p)
      <4>1. ~Goto(p, "start.ready")
        BY <1>7, GoesTo
      <4> QED BY <1>1, <1>2, <3>2, <4>1 DEF StartMaking, NodesOK, NodeStates, At
    <3> QED BY <1>7, <3>1, <3>2, Lands
  <2>2. PICK s \in NodeStates : NodeBecomes(p, Own(p), s) /\ (s = node[Own(p)] \/ s = "absent")
    BY <2>1
  <2>3. node' = [node EXCEPT ![Own(p)] = s] /\ stale'[p] = stale[p]
    BY <1>1, <1>2, <2>2, BecomesTo
  <2>4. node'[Own(p)] = node[Own(p)] \/ node'[Own(p)] = "absent"
    BY <1>1, <1>2, <2>2, <2>3 DEF NodesOK
  <2>5. Own(p)' = Own(p)
    BY <1>3, <2>1
  <2> QED BY <1>1, <1>7, <2>1, <2>3, <2>4, <2>5 DEF OwnAt, Fresh
<1>8. CASE pc'[p] = "start.forget"
  <2>1. StartUndo(p) /\ Goto(p, "start.forget")
    BY <1>8, Lands DEF StartUndo
  <2>2. \/ NodeBecomes(p, Own(p), "absent")
        \/ /\ NodeBecomes(p, Own(p), node[Own(p)])
           /\ node[Own(p)] = "absent" \/ Own(p) \in adrift'
    BY <2>1 DEF StartUndo
  <2>3. node'[Own(p)] = "absent" \/ Own(p) \in adrift'
    BY <1>1, <1>2, <2>2 DEF NodeBecomes, NodesOK
  <2>4. Own(p)' = Own(p)
    BY <1>3, <2>1
  <2> QED BY <1>8, <2>3, <2>4 DEF OwnAt
<1>9. CASE pc'[p] \notin {"start.write", "start.create", "start.making", "start.undo",
                          "start.forget"}
  BY <1>9 DEF OwnAt
<1> QED BY <1>4, <1>5, <1>6, <1>7, <1>8, <1>9

\* kind delete says it has deleted, and it has.
LEMMA GoneStep ==
    ASSUME Typed, NEW p \in Procs, Step(p)
    PROVE  GoneAt(p)'
<1>1. NodesOK /\ LoopOK
  BY Parts DEF Typed
<1>2. ASSUME NEW n \in Names, NEW label, Delete(p, n, label), Goto(p, label),
             label \in {"room.rmdir", "remove.rmdir"}
      PROVE  node'[n] = "absent" /\ UNCHANGED <<list, up>>
  <2>1. pc'[p] = label /\ pc[p] # "done"
    BY <1>2, Lands, GoesTo
  <2>2. ~NextTarget(p)
    BY <1>2, <2>1, GoesTo
  <2>3. NodeBecomes(p, n, "absent") /\ UNCHANGED <<list, up>>
    BY <1>2, <2>2 DEF Delete
  <2> QED BY <1>1, <2>3 DEF NodeBecomes, NodesOK
<1>3. CASE pc'[p] = "room.rmdir"
  <2>1. /\ pc[p] = "room.delete" /\ Goto(p, "room.rmdir")
        /\ Delete(p, Oldest(up[p]).name, "room.rmdir")
    BY <1>3, Lands DEF RoomDelete, At
  <2>2. Oldest(up[p]).name \in Names
    BY <2>1, NamesAt
  <2>3. node'[Oldest(up[p]).name] = "absent" /\ up' = up
    BY <1>2, <2>1, <2>2
  <2> QED BY <1>3, <2>3 DEF GoneAt
<1>4. CASE pc'[p] = "remove.rmdir"
  <2>1. /\ pc[p] = "remove.delete" /\ Goto(p, "remove.rmdir")
        /\ Delete(p, Oldest(list[p]).name, "remove.rmdir")
    BY <1>4, Lands DEF RemoveDelete, At
  <2>2. Oldest(list[p]).name \in Names
    BY <2>1, NamesAt
  <2>3. node'[Oldest(list[p]).name] = "absent" /\ list' = list
    BY <1>2, <2>1, <2>2
  <2> QED BY <1>4, <2>3 DEF GoneAt
<1>5. CASE pc'[p] \notin {"room.rmdir", "remove.rmdir"}
  BY <1>5 DEF GoneAt
<1> QED BY <1>3, <1>4, <1>5

\* The calls that change a node, and what each of them makes of it.
LEMMA NodeChanges ==
    ASSUME Typed, NEW p \in Procs, Step(p) \/ Interrupt(p), NEW n \in Names, node'[n] # node[n]
    PROVE  /\ records' = records
           /\ \/ StartRestart(p) /\ n = Own(p) /\ node[n] # "absent" /\ node'[n] = "up"
              \/ StartCreate(p) /\ n = Own(p) /\ node[n] = "absent" /\ node'[n] = "up"
              \/ StartMaking(p) /\ n = Own(p) /\ node'[n] = "absent"
              \/ StartUndo(p) /\ n = Own(p) /\ node'[n] = "absent" /\ p \notin canceled
              \/ RoomDelete(p) /\ n = Oldest(up[p]).name /\ node'[n] = "absent"
              \/ StopStop(p) /\ n = Oldest(list[p]).name /\ node'[n] = "down"
                    /\ node[n] # "absent"
              \/ RemoveDelete(p) /\ n = Oldest(list[p]).name /\ node'[n] = "absent"
                    /\ p \notin canceled
<1>0. NodesOK
  BY Parts DEF Typed
<1>1. ASSUME NEW m \in Names, NEW s, NodeBecomes(p, m, s)
      PROVE  m = n /\ s # node[m] /\ node'[n] = s
  BY <1>0, <1>1 DEF NodeBecomes, NodesOK
<1>2. CASE StartLook(p) \/ StartReady(p) \/ StartExists(p) \/ StartWrite(p) \/ StartForget(p)
           \/ RoomList(p) \/ RoomLook(p) \/ RoomCounted(p) \/ RoomMade(p) \/ RoomRmdir(p)
           \/ StopList(p) \/ RemoveList(p) \/ RemoveLook(p) \/ RemoveRmdir(p)
           \/ Through(p) \/ Interrupt(p)
  <2>1. node' = node
    BY <1>2 DEF StartLook, StartReady, StartExists, StartWrite, StartForget, RoomList, RoomLook,
                RoomCounted, RoomMade, RoomRmdir, StopList, RemoveList, List, RemoveLook,
                RemoveRmdir, Rmdir, Through, Interrupt, Looks, Forgets, machine
  <2> QED BY <2>1
<1>3. CASE StopLook(p)
  <2>1. node' = node
    BY <1>3 DEF StopLook, Looks, machine
  <2> QED BY <2>1
<1>4. CASE StartRestart(p)
  <2>1. pc[p] # "done" /\ records' = records
    BY <1>4 DEF StartRestart, At, disk
  <2>2. Own(p) \in Names
    BY <2>1, NamesAt
  <2>3. CASE NodeBecomes(p, Own(p), node[Own(p)])
    BY <1>1, <2>2, <2>3
  <2>4. CASE node[Own(p)] # "absent" /\ NodeBecomes(p, Own(p), "up")
    <3>1. Own(p) = n /\ node'[n] = "up"
      BY <1>1, <2>2, <2>4
    <3> QED BY <1>4, <2>1, <2>4, <3>1
  <2> QED BY <1>4, <2>3, <2>4 DEF StartRestart
<1>5. CASE StartCreate(p)
  <2>1. pc[p] # "done" /\ records' = records
    BY <1>5 DEF StartCreate, At, disk
  <2>2. Own(p) \in Names
    BY <2>1, NamesAt
  <2>3. CASE NodeBecomes(p, Own(p), node[Own(p)])
    BY <1>1, <2>2, <2>3
  <2>4. CASE node[Own(p)] = "absent" /\ NodeBecomes(p, Own(p), "up")
    <3>1. Own(p) = n /\ node'[n] = "up"
      BY <1>1, <2>2, <2>4
    <3> QED BY <1>5, <2>1, <2>4, <3>1
  <2> QED BY <1>5, <2>3, <2>4 DEF StartCreate
<1>6. CASE StartMaking(p)
  <2>1. pc[p] # "done" /\ records' = records
    BY <1>6 DEF StartMaking, At, disk
  <2>2. Own(p) \in Names
    BY <2>1, NamesAt
  <2>3. CASE NodeBecomes(p, Own(p), node[Own(p)])
    BY <1>1, <2>2, <2>3
  <2>4. CASE NodeBecomes(p, Own(p), "absent")
    <3>1. Own(p) = n /\ node'[n] = "absent"
      BY <1>1, <2>2, <2>4
    <3> QED BY <1>6, <2>1, <3>1
  <2> QED BY <1>6, <2>3, <2>4 DEF StartMaking
<1>7. CASE StartUndo(p)
  <2>1. pc[p] # "done" /\ records' = records
    BY <1>7 DEF StartUndo, At, disk
  <2>2. Own(p) \in Names
    BY <2>1, NamesAt
  <2>3. CASE NodeBecomes(p, Own(p), node[Own(p)])
    BY <1>1, <2>2, <2>3
  <2>4. CASE p \notin canceled /\ NodeBecomes(p, Own(p), "absent")
    <3>1. Own(p) = n /\ node'[n] = "absent"
      BY <1>1, <2>2, <2>4
    <3> QED BY <1>7, <2>1, <2>4, <3>1
  <2> QED BY <1>7, <2>3, <2>4 DEF StartUndo
<1>8. ASSUME NEW m \in Names, NEW label, Delete(p, m, label)
      PROVE  records' = records /\ m = n /\ node'[n] = "absent" /\ p \notin canceled
  <2>1. CASE NodeBecomes(p, m, node[m])
    BY <1>1, <2>1
  <2>2. CASE p \notin canceled /\ NodeBecomes(p, m, "absent")
    <3>1. m = n /\ node'[n] = "absent"
      BY <1>1, <2>2
    <3> QED BY <1>8, <2>2, <3>1 DEF Delete, disk
  <2> QED BY <1>8, <2>1, <2>2 DEF Delete
<1>9. CASE RoomDelete(p)
  <2>1. pc[p] = "room.delete" /\ Delete(p, Oldest(up[p]).name, "room.rmdir")
    BY <1>9 DEF RoomDelete, At
  <2>2. Oldest(up[p]).name \in Names
    BY <2>1, NamesAt
  <2> QED BY <1>8, <1>9, <2>1, <2>2
<1>10. CASE RemoveDelete(p)
  <2>1. pc[p] = "remove.delete" /\ Delete(p, Oldest(list[p]).name, "remove.rmdir")
    BY <1>10 DEF RemoveDelete, At
  <2>2. Oldest(list[p]).name \in Names
    BY <2>1, NamesAt
  <2> QED BY <1>8, <1>10, <2>1, <2>2
<1>11. CASE StopStop(p)
  <2> DEFINE m == Oldest(list[p]).name
  <2>1. pc[p] = "stop.stop" /\ records' = records
    BY <1>11 DEF StopStop, At, disk
  <2>2. m \in Names
    BY <2>1, NamesAt
  <2>3. CASE NodeBecomes(p, m, node[m])
    BY <1>1, <2>2, <2>3
  <2>4. CASE node[m] # "absent" /\ NodeBecomes(p, m, "down")
    <3>1. m = n /\ node'[n] = "down"
      BY <1>1, <2>2, <2>4
    <3> QED BY <1>11, <2>1, <2>4, <3>1
  <2> QED BY <1>11, <2>3, <2>4 DEF StopStop
<1> QED BY <1>2, <1>3, <1>4, <1>5, <1>6, <1>7, <1>9, <1>10, <1>11 DEF Step

\* The steps that take a record away.
LEMMA RecordGoes ==
    ASSUME Typed, NEW p \in Procs, Step(p) \/ Interrupt(p), NEW n \in Names,
           Recorded(n), ~Recorded(n)'
    PROVE  /\ Forgets(p, n)
           /\ \/ pc[p] \in {"start.write", "start.forget"} /\ n = Own(p)
              \/ pc[p] = "room.rmdir" /\ n = Oldest(up[p]).name
              \/ pc[p] = "remove.rmdir" /\ n = Oldest(list[p]).name
<1>0. records' # records
  BY DEF Recorded
<1>1. ASSUME NEW m, records' = Without(m) \/ (\E c : records' = Without(m) \cup {c} /\ c.name = m)
      PROVE  m = n /\ records' = Without(m)
  BY <1>1 DEF Recorded, Without
<1>2. CASE StartWrite(p)
  <2>1. CASE Forgets(p, Own(p))
    <3>1. Own(p) = n
      BY <1>1, <2>1 DEF Forgets
    <3> QED BY <1>2, <2>1, <3>1 DEF StartWrite, At
  <2>2. CASE ~Forgets(p, Own(p))
    <3> DEFINE new == [name |-> Own(p), owner |-> Me(p), created |-> clock']
    <3>1. records' = Without(Own(p)) \cup {new} /\ new.name = Own(p)
      BY <1>0, <1>2, <2>2 DEF StartWrite, machine, disk
    <3> HIDE DEF new
    <3>2. Own(p) = n /\ new \in records'
      BY <1>1, <3>1
    <3> QED BY <3>1, <3>2 DEF Recorded
  <2> QED BY <2>1, <2>2
<1>3. CASE StartForget(p)
  <2>1. Forgets(p, Own(p)) /\ pc[p] = "start.forget"
    BY <1>0, <1>3 DEF StartForget, At, machine, disk
  <2>2. Own(p) = n
    BY <1>1, <2>1 DEF Forgets
  <2> QED BY <2>1, <2>2
<1>4. CASE RoomRmdir(p)
  <2>1. Forgets(p, Oldest(up[p]).name) /\ pc[p] = "room.rmdir"
    BY <1>0, <1>4 DEF RoomRmdir, Rmdir, At, machine, disk
  <2>2. Oldest(up[p]).name = n
    BY <1>1, <2>1 DEF Forgets
  <2> QED BY <2>1, <2>2
<1>5. CASE RemoveRmdir(p)
  <2>1. Forgets(p, Oldest(list[p]).name) /\ pc[p] = "remove.rmdir"
    BY <1>0, <1>5 DEF RemoveRmdir, Rmdir, At, machine, disk
  <2>2. Oldest(list[p]).name = n
    BY <1>1, <2>1 DEF Forgets
  <2> QED BY <2>1, <2>2
<1>6. CASE StartLook(p) \/ StartReady(p) \/ StartExists(p) \/ StartRestart(p) \/ StartCreate(p)
           \/ StartMaking(p) \/ StartUndo(p)
  <2>1. records' = records
    BY <1>6 DEF StartLook, StartReady, StartExists, StartRestart, StartCreate, StartMaking,
                StartUndo, Looks, machine, disk
  <2> QED BY <1>0, <2>1
<1>7. CASE RoomList(p) \/ RoomLook(p) \/ RoomCounted(p) \/ RoomMade(p) \/ RoomDelete(p)
           \/ StopList(p) \/ StopLook(p) \/ StopStop(p) \/ RemoveList(p) \/ RemoveLook(p)
           \/ RemoveDelete(p) \/ Through(p) \/ Interrupt(p)
  <2>1. records' = records
    BY <1>7 DEF RoomList, RoomLook, RoomCounted, RoomMade, RoomDelete, Delete, StopList,
                StopLook, StopStop, RemoveList, List, RemoveLook, RemoveDelete, Through,
                Interrupt, Looks, machine, disk
  <2> QED BY <1>0, <2>1
<1> QED BY <1>2, <1>3, <1>4, <1>5, <1>6, <1>7 DEF Step

LEMMA ExplainedStep ==
    ASSUME Typed, OwnOK, GoneOK, Explained, NEW p \in Procs, Step(p) \/ Interrupt(p)
    PROVE  Explained'
<1> SUFFICES ASSUME NEW n \in Names, node'[n] # "absent", n \notin adrift'
             PROVE  Recorded(n)'
  BY DEF Explained
<1>1. adrift \subseteq adrift'
  BY StepTyped DEF Frame, OneWay
<1>2. OwnAt(p) /\ GoneAt(p) /\ DiskOK /\ GhostOK
  BY Parts DEF OwnOK, GoneOK, Typed
<1>3. Recorded(n)
  <2>1. CASE node[n] # "absent"
    BY <1>1, <2>1 DEF Explained
  <2>2. CASE node[n] = "absent"
    <3>1. pc[p] = "start.create" /\ n = Own(p)
      BY <2>2, NodeChanges DEF StartCreate, At
    <3> QED BY <1>1, <1>2, <3>1 DEF OwnAt
  <2> QED BY <2>1, <2>2
<1>4. SUFFICES ASSUME ~Recorded(n)' PROVE FALSE
  OBVIOUS
<1>5. /\ Forgets(p, n)
      /\ \/ pc[p] \in {"start.write", "start.forget"} /\ n = Own(p)
         \/ pc[p] = "room.rmdir" /\ n = Oldest(up[p]).name
         \/ pc[p] = "remove.rmdir" /\ n = Oldest(list[p]).name
  BY <1>3, <1>4, RecordGoes
<1>6. p \notin canceled /\ Fresh(p, n) /\ node' = node
  BY <1>2, <1>5, ForgetsTo DEF Fresh
<1>7. node[n] = "absent"
  BY <1>1, <1>2, <1>5, <1>6 DEF OwnAt, GoneAt
<1> QED BY <1>6, <1>7

---------------------------------------------------------------------------
(* Together, over a whole run. *)

\* Each node on the machine has its record when the processes begin.
StartsExplained ==
    \A s \in Starts, n \in Names : s.node[n] # "absent" => \E c \in s.records : c.name = n

Kept == Typed /\ CacheOK /\ OwnOK /\ GoneOK /\ Explained

LEMMA InitKept ==
    ASSUME StartsExplained, Init
    PROVE  Kept
<1>1. Typed
  BY InitTyped
<1>2. Explained
  BY DEF Init, StartsExplained, Explained, Recorded
<1>3. \A p \in Procs : pc[p] \in {"done", "start.look", "stop.list", "remove.list"}
  <2> TAKE p \in Procs
  <2>1. pc[p] = "done" \/ pc[p] = Entry(cmd[p].name)
    BY DEF Init
  <2>2. cmd[p] \in CommandLine
    BY <1>1 DEF Typed, TypeOK
  <2> QED BY <2>1, <2>2, EntryType
<1>4. OwnOK /\ GoneOK
  BY <1>3 DEF OwnOK, OwnAt, GoneOK, GoneAt
<1>5. CacheOK
  BY DEF Init, CacheOK, CacheAt
<1> QED BY <1>1, <1>2, <1>4, <1>5 DEF Kept

LEMMA InterruptOwn ==
    ASSUME Typed, OwnOK, GoneOK, NEW p \in Procs, Interrupt(p)
    PROVE  OwnAt(p)' /\ GoneAt(p)'
<1>1. /\ UNCHANGED <<records, node, maker, cmd, todo, pc, list, up, stale, adrift>>
      /\ canceled' = canceled \cup {p}
  BY DEF Interrupt, machine, disk, control, ghosts
<1>2. Own(p)' = Own(p) /\ Me(p)' = Me(p)
  BY <1>1 DEF Own, Me
<1>3. pc[p] = "start.create" => (Recorded(Own(p)) \/ Own(p) \in adrift)'
  BY <1>1, <1>2 DEF OwnOK, OwnAt, Recorded
<1>4. GoneAt(p)'
  BY <1>1 DEF GoneOK, GoneAt, Fresh
<1> QED BY <1>1, <1>2, <1>3, <1>4 DEF OwnOK, OwnAt, Fresh

LEMMA StepKept ==
    ASSUME "inspect" \notin Faults, Kept, NEW p \in Procs, Step(p) \/ Interrupt(p)
    PROVE  Kept'
<1>1. Typed' /\ Frame(p)
  BY StepTyped DEF Kept
<1>2. CacheOK' /\ Explained'
  BY StepCache, ExplainedStep DEF Kept
<1>3. OwnAt(p)' /\ GoneAt(p)'
  BY OwnStep, GoneStep, InterruptOwn DEF Kept
<1>4. \A q \in Procs : q # p => OwnAt(q)' /\ GoneAt(q)'
  BY <1>1, OthersOwn DEF Kept
<1> QED BY <1>1, <1>2, <1>3, <1>4 DEF Kept, OwnOK, GoneOK

LEMMA StutterKept ==
    ASSUME Kept, UNCHANGED vars
    PROVE  Kept'
<1>1. Typed'
  BY StutterTyped DEF Kept
<1>2. UNCHANGED <<records, clock, node, cmd, pc, todo, seen, list, up, canceled, maker, stale,
                  adrift, crossed, missed, overrun>>
  BY DEF vars
<1>3. Explained' /\ CacheOK'
  BY <1>2 DEF Kept, Explained, Recorded, CacheOK, CacheAt, Fresh
<1>4. GoneOK'
  BY <1>2 DEF Kept, GoneOK, GoneAt, Fresh
<1>5. OwnOK'
  <2> SUFFICES ASSUME NEW p \in Procs PROVE OwnAt(p)'
    BY DEF OwnOK
  <2>1. Own(p)' = Own(p) /\ Me(p)' = Me(p)
    BY <1>2 DEF Own, Me
  <2>2. pc[p] = "start.create" => (Recorded(Own(p)) \/ Own(p) \in adrift)'
    BY <1>2, <2>1 DEF Kept, OwnOK, OwnAt, Recorded
  <2> QED BY <1>2, <2>1, <2>2 DEF Kept, OwnOK, OwnAt, Fresh
<1> QED BY <1>1, <1>3, <1>4, <1>5 DEF Kept

LEMMA NextKept ==
    ASSUME "inspect" \notin Faults
    PROVE  Kept /\ [Next]_vars => Kept'
  BY StepKept, StutterKept DEF Next

LEMMA AlwaysKept ==
    ASSUME "inspect" \notin Faults, StartsExplained
    PROVE  Spec => []Kept
<1>1. Init => Kept
  BY InitKept
<1>2. Kept /\ [Next]_vars => Kept'
  BY NextKept
<1> QED BY <1>1, <1>2, PTL DEF Spec

\* On a machine whose runner answers, every node keeps the record that says
\* whose it is, unless an undo was cut short or a directory was removed while
\* somebody else was making the cluster again.
THEOREM ExplainedCorrect ==
    ASSUME "inspect" \notin Faults, StartsExplained
    PROVE  Spec => []Explained
<1>1. Kept => Explained
  BY DEF Kept
<1> QED BY <1>1, AlwaysKept, PTL

---------------------------------------------------------------------------
(* The count that a start goes by. *)

\* The clusters that the limit is about.
Running == { n \in Names \ adrift : Recorded(n) /\ node[n] = "up" }

NamesOf(cs) == { c.name : c \in cs }

\* What the count of p is, while nobody started a cluster that it missed.
CountAt(p) ==
    Counting(p) /\ p \notin missed /\ p \notin canceled =>
       /\ \A n \in Names : seen[p][n] = "down" => node[n] # "up"
       /\ pc[p] = "room.look" => Running \ {Own(p)} \subseteq NamesOf(list[p] \cup up[p])
       /\ pc[p] \in {"room.made", "room.delete"} => Running \ {Own(p)} \subseteq NamesOf(up[p])
       /\ pc[p] = "room.rmdir" => Running \ {Own(p)} \subseteq NamesOf(Others(up[p]))
       /\ pc[p] \in {"start.exists", "start.restart", "start.write", "start.create"}
             => Cardinality(Running \ {Own(p)}) < clusterLimit

CountOK == \A p \in Procs : CountAt(p)

\* There are no more names than clusters.
LEMMA NamesFinite ==
    ASSUME NEW S, IsFiniteSet(S)
    PROVE  IsFiniteSet(NamesOf(S)) /\ Cardinality(NamesOf(S)) <= Cardinality(S)
<1> DEFINE f == [c \in S |-> c.name]
<1>1. f \in Surjection(S, NamesOf(S))
  BY DEF Surjection, NamesOf
<1> QED BY <1>1, FS_Surjection

LEMMA RunningFinite ==
    ASSUME Typed
    PROVE  IsFiniteSet(Running) /\ Cardinality(Running) \in Nat
<1>1. Running \subseteq NamesOf(records)
  BY DEF Running, NamesOf, Recorded
<1>2. IsFiniteSet(NamesOf(records))
  BY NamesFinite DEF Typed, TypeOK
<1>3. IsFiniteSet(Running)
  BY <1>1, <1>2, FS_Subset
<1> QED BY <1>3, FS_CardinalityType

\* Fewer of them run when some are left out.
LEMMA SmallerRuns ==
    ASSUME NEW S, IsFiniteSet(S), NEW T \in SUBSET S
    PROVE  /\ Cardinality(S) \in Nat /\ Cardinality(T) \in Nat
           /\ Cardinality(T) <= Cardinality(S) /\ IsFiniteSet(T)
  BY FS_Subset, FS_CardinalityType

\* A cluster begins to run only when a start makes or starts its node.
LEMMA Started ==
    ASSUME Typed, NEW p \in Procs, Step(p) \/ Interrupt(p), NEW n \in Names,
           node[n] # "up", node'[n] = "up"
    PROVE  /\ pc[p] \in {"start.restart", "start.create"} /\ n = Own(p)
           /\ p \notin canceled /\ NodeBecomes(p, Own(p), "up")
<1>1. /\ n = Own(p) /\ (StartRestart(p) \/ StartCreate(p))
      /\ pc[p] \in {"start.restart", "start.create"}
  BY NodeChanges DEF StartRestart, StartCreate, At
<1>2. NodesOK
  BY Parts DEF Typed
<1>3. ~NodeBecomes(p, Own(p), node[Own(p)])
  BY <1>1, <1>2 DEF NodeBecomes, NodesOK
<1> QED BY <1>1, <1>3 DEF StartRestart, StartCreate

\* Nothing else adds to what runs.
LEMMA RunsMore ==
    ASSUME Kept, NEW p \in Procs, Step(p) \/ Interrupt(p), NEW n \in Running', n \notin Running
    PROVE  n \in Names /\ node[n] # "up" /\ node'[n] = "up"
<1>1. n \in Names \ adrift' /\ Recorded(n)' /\ node'[n] = "up"
  BY DEF Running
<1>2. n \notin adrift
  BY <1>1, StepTyped DEF Kept, Frame, OneWay
<1>3. node[n] = "up" => Recorded(n)
  BY <1>1, <1>2 DEF Kept, Explained
<1> QED BY <1>1, <1>2, <1>3 DEF Running

\* What p does to the count of the others.
LEMMA OthersCount ==
    ASSUME Kept, CountOK, NEW p \in Procs, Step(p) \/ Interrupt(p), NEW q \in Procs, q # p
    PROVE  CountAt(q)'
<1>1. Typed /\ Frame(p)
  BY StepTyped DEF Kept
<1>2. /\ pc'[q] = pc[q] /\ todo'[q] = todo[q] /\ list'[q] = list[q] /\ up'[q] = up[q]
      /\ q \in canceled' <=> q \in canceled
      /\ seen'[q] = seen[q] /\ MissedMarked(q)
  BY <1>1 DEF Frame, Apart, Marked
<1>3. Own(q)' = Own(q)
  BY <1>2 DEF Own, Me
<1>4. SUFFICES ASSUME Counting(q), q \notin missed', q \notin canceled
               PROVE  CountAt(q)'
  BY <1>2 DEF CountAt, Counting
<1>5. q \notin missed
  BY <1>2, <1>4 DEF MissedMarked
<1>6. Running' \subseteq Running
  BY <1>2, <1>4, RunsMore DEF MissedMarked
<1>7. \A n \in Names : seen'[q][n] = "down" => node'[n] # "up"
  BY <1>2, <1>4, <1>5 DEF CountOK, CountAt, MissedMarked
<1>8. Running' \ {Own(q)} \subseteq Running \ {Own(q)}
  BY <1>6
<1>9. Cardinality(Running' \ {Own(q)}) <= Cardinality(Running \ {Own(q)})
      /\ Cardinality(Running' \ {Own(q)}) \in Nat /\ Cardinality(Running \ {Own(q)}) \in Nat
  <2>1. IsFiniteSet(Running)
    BY <1>1, RunningFinite
  <2>2. IsFiniteSet(Running \ {Own(q)})
    BY <2>1, SmallerRuns
  <2> QED BY <1>8, <2>2, SmallerRuns
<1>10. pc[q] \in {"start.exists", "start.restart", "start.write", "start.create"}
         => Cardinality(Running' \ {Own(q)}) < clusterLimit
  <2>1. pc[q] \in {"start.exists", "start.restart", "start.write", "start.create"}
          => Cardinality(Running \ {Own(q)}) < clusterLimit
    BY <1>4, <1>5 DEF CountOK, CountAt
  <2> QED BY <1>9, <2>1, ClustersAssumption
<1> QED BY <1>2, <1>3, <1>4, <1>5, <1>7, <1>8, <1>10 DEF CountOK, CountAt

\* What p counts, and goes by.
LEMMA CountStep ==
    ASSUME "inspect" \notin Faults, Kept, CountOK, NEW p \in Procs, Step(p)
    PROVE  CountAt(p)'
<1>1. SeenOK /\ NodesOK /\ GhostOK /\ DiskOK /\ LoopOK /\ Typed /\ CountAt(p) /\ ControlAt(p)
  BY Parts DEF Kept, Typed, CountOK, ControlOK
<1>2. pc[p] # "done" /\ Own(p) \in Names
  BY <1>1, Lands, NamesAt
<1>3. \A label : Goto(p, label) => Own(p)' = Own(p)
  BY DEF Goto, control, Own, Me
<1>4. CASE pc'[p] = "room.look" /\ RoomList(p)
  <2>1. /\ list' = [list EXCEPT ![p] = records] /\ UNCHANGED <<records, seen, node, adrift>>
        /\ missed' = IF \E n \in Names : seen[p][n] = "down" /\ node[n] = "up"
                     THEN missed \cup {p} ELSE missed \ {p}
    BY <1>4 DEF RoomList, machine, disk
  <2>2. list'[p] = records
    BY <1>1, <2>1 DEF LoopOK
  <2>3. p \notin missed' => \A n \in Names : seen'[p][n] = "down" => node'[n] # "up"
    BY <2>1
  <2>4. Running' \subseteq NamesOf(list'[p] \cup up'[p])
    BY <2>1, <2>2 DEF Running, Recorded, NamesOf
  <2> QED BY <1>4, <2>3, <2>4 DEF CountAt
<1>5. CASE pc'[p] = "room.look" /\ RoomLook(p)
  <2> DEFINE c == Oldest(list[p])
  <2>1. /\ pc[p] = "room.look" /\ list[p] # {} /\ Goto(p, "room.look")
        /\ list' = [list EXCEPT ![p] = Others(@)]
    BY <1>5 DEF RoomLook, At
  <2>2. PICK s \in Answers(p, c.name) :
           /\ Looks(p, c.name, s)
           /\ up' = [up EXCEPT ![p] = IF s = "up" /\ c.name # Own(p) THEN @ \cup {c} ELSE @]
    BY <1>5 DEF RoomLook
  <2>3. c \in list[p] /\ c.name \in Names
    BY <1>1, <2>1, LoopAt
  <2>4. /\ UNCHANGED <<records, node, canceled, adrift, missed>>
        /\ seen'[p][c.name] = (IF s = "absent" THEN seen[p][c.name] ELSE s)
        /\ \A m \in Names \ {c.name} : seen'[p][m] = seen[p][m]
    BY <1>1, <2>2, <2>3, LooksTo
  <2>5. /\ list'[p] = list[p] \ {c} /\ Running' = Running /\ Own(p)' = Own(p)
        /\ up[p] \subseteq up'[p]
        /\ s = "up" /\ c.name # Own(p) => c \in up'[p]
    <3> HIDE DEF c
    <3>1. list'[p] = Others(list[p])
      BY <1>1, <2>1 DEF LoopOK
    <3>2. Running' = Running
      BY <2>4 DEF Running, Recorded
    <3> QED BY <1>1, <1>3, <2>1, <2>2, <3>1, <3>2 DEF LoopOK, Others, c
  <2>6. SUFFICES ASSUME p \notin missed, p \notin canceled
                 PROVE  /\ \A n \in Names : seen'[p][n] = "down" => node'[n] # "up"
                        /\ Running \ {Own(p)} \subseteq NamesOf(list'[p] \cup up'[p])
    BY <1>5, <2>4, <2>5 DEF CountAt
  <2>7. /\ \A n \in Names : seen[p][n] = "down" => node[n] # "up"
        /\ Running \ {Own(p)} \subseteq NamesOf(list[p] \cup up[p])
    BY <1>1, <2>1, <2>6 DEF CountAt, Counting
  <2>8. /\ seen[p][c.name] # "unknown" => s = seen[p][c.name]
        /\ seen[p][c.name] = "unknown" => s = node[c.name]
    BY <1>1, <2>2, <2>3, <2>6, AnswersTo
  <2>9. seen[p][c.name] \in {"unknown", "up", "down"} /\ node[c.name] \in NodeStates
    BY <1>1, <2>3 DEF SeenOK, NodesOK
  <2>10. ASSUME NEW n \in Names, seen'[p][n] = "down" PROVE node'[n] # "up"
    <3> HIDE DEF c
    <3> QED BY <2>4, <2>7, <2>8, <2>9, <2>10
  <2>11. node[c.name] = "up" => s = "up"
    <3> HIDE DEF c
    <3> QED BY <2>3, <2>7, <2>8, <2>9
  <2>12. ASSUME NEW n \in Running \ {Own(p)} PROVE n \in NamesOf(list'[p] \cup up'[p])
    <3>1. PICK d \in list[p] \cup up[p] : d.name = n
      BY <2>7 DEF NamesOf
    <3>2. node[n] = "up" /\ n # Own(p)
      BY DEF Running
    <3>3. d \in list'[p] \cup up'[p]
      <4> HIDE DEF c
      <4> QED BY <2>5, <2>11, <3>1, <3>2
    <3> QED BY <3>1, <3>3 DEF NamesOf
  <2> QED BY <2>10, <2>12
<1>6. CASE pc'[p] = "room.made" /\ RoomCounted(p)
  <2>1. /\ pc[p] = "room.look" /\ list[p] = {} /\ Goto(p, "room.made")
        /\ UNCHANGED <<records, node, seen, list, up, canceled, adrift, missed>>
    BY <1>6 DEF RoomCounted, At, machine, disk, ghosts, counts
  <2>2. Running' = Running /\ Own(p)' = Own(p) /\ list[p] \cup up[p] = up'[p]
    BY <1>3, <2>1 DEF Running, Recorded
  <2> QED BY <1>1, <1>6, <2>1, <2>2 DEF CountAt, Counting
<1>7. CASE pc'[p] = "room.made" /\ RoomRmdir(p) /\ Goto(p, "room.made")
  <2> DEFINE n == Oldest(up[p]).name
  <2>1. /\ pc[p] = "room.rmdir" /\ Forgets(p, n)
        /\ up' = [up EXCEPT ![p] = Others(@)] /\ UNCHANGED <<seen, canceled>>
    <3>1. ~NextTarget(p)
      BY <1>1, <1>2, <1>7, GoesTo
    <3> QED BY <1>7, <3>1 DEF RoomRmdir, Rmdir, At
  <2>2. n \in Names
    BY <1>1, <2>1, NamesAt
  <2>3. /\ records' = { c \in records : c.name # n } /\ UNCHANGED <<node, missed>>
        /\ adrift \subseteq adrift'
    BY <1>1, <2>1, <2>2, ForgetsTo
  <2>4. Running' \subseteq Running
    BY <2>3 DEF Running, Recorded
  <2>5. up'[p] = Others(up[p]) /\ Own(p)' = Own(p)
    BY <1>1, <1>3, <1>7, <2>1 DEF LoopOK
  <2>6. Running' \ {Own(p)} \subseteq Running \ {Own(p)}
    BY <2>4
  <2> QED BY <1>1, <1>7, <2>1, <2>3, <2>5, <2>6 DEF CountAt, Counting
<1>8. CASE pc'[p] \in {"room.delete", "start.exists"}
  <2>1. RoomMade(p) /\ pc[p] = "room.made"
    BY <1>1, <1>8, Lands DEF RoomMade, At
  <2>2. UNCHANGED <<records, node, seen, list, up, canceled, adrift, missed>>
    BY <2>1 DEF RoomMade, machine, disk, ghosts, counts
  <2>3. /\ Goto(p, pc'[p]) \/ NextTarget(p)
        /\ pc'[p] = "start.exists" => Cardinality(up[p]) < clusterLimit
    <3>1. CASE Cardinality(up[p]) < clusterLimit
      <4>1. Goto(p, "start.exists")
        BY <2>1, <3>1 DEF RoomMade
      <4> QED BY <3>1, <4>1, GoesTo, <1>1
    <3>2. CASE ~(Cardinality(up[p]) < clusterLimit)
      <4>1. Goto(p, "room.delete") \/ NextTarget(p)
        BY <2>1, <3>2 DEF RoomMade
      <4> QED BY <1>1, <1>2, <4>1, GoesTo
    <3> QED BY <3>1, <3>2
  <2>4. Own(p)' = Own(p)
    BY <1>1, <1>2, <1>3, <1>8, <2>3, GoesTo
  <2>5. Running' = Running
    BY <2>2 DEF Running, Recorded
  <2>6. SUFFICES ASSUME p \notin missed, p \notin canceled
                 PROVE  /\ Running \ {Own(p)} \subseteq NamesOf(up[p])
                        /\ \A n \in Names : seen[p][n] = "down" => node[n] # "up"
                        /\ pc'[p] = "start.exists"
                             => Cardinality(Running \ {Own(p)}) < clusterLimit
    BY <1>8, <2>2, <2>4, <2>5 DEF CountAt
  <2>7. /\ Running \ {Own(p)} \subseteq NamesOf(up[p])
        /\ \A n \in Names : seen[p][n] = "down" => node[n] # "up"
    BY <1>1, <2>1, <2>6 DEF CountAt, Counting
  <2>8. ASSUME pc'[p] = "start.exists" PROVE Cardinality(Running \ {Own(p)}) < clusterLimit
    <3>1. IsFiniteSet(up[p])
      BY <1>1 DEF ControlAt
    <3>2. IsFiniteSet(NamesOf(up[p])) /\ Cardinality(NamesOf(up[p])) <= Cardinality(up[p])
      BY <3>1, NamesFinite
    <3>3. /\ Cardinality(Running \ {Own(p)}) <= Cardinality(NamesOf(up[p]))
          /\ Cardinality(Running \ {Own(p)}) \in Nat /\ Cardinality(NamesOf(up[p])) \in Nat
      BY <2>7, <3>2, SmallerRuns
    <3>4. Cardinality(up[p]) \in Nat
      BY <3>1, FS_CardinalityType
    <3> QED BY <2>3, <2>8, <3>2, <3>3, <3>4, ClustersAssumption
  <2> QED BY <2>7, <2>8
<1>9. CASE pc'[p] = "room.rmdir"
  <2> DEFINE n == Oldest(up[p]).name
  <2>1. /\ pc[p] = "room.delete" /\ Delete(p, n, "room.rmdir") /\ Goto(p, "room.rmdir")
    BY <1>1, <1>9, Lands DEF RoomDelete, At
  <2>2. ~NextTarget(p) /\ n \in Names
    BY <1>1, <1>2, <1>9, <2>1, GoesTo, NamesAt
  <2>3. NodeBecomes(p, n, "absent") /\ UNCHANGED <<records, up, canceled, adrift>>
    BY <2>1, <2>2 DEF Delete, disk
  <2>4. /\ node' = [node EXCEPT ![n] = "absent"] /\ seen'[p][n] = "unknown"
        /\ \A m \in Names \ {n} : seen'[p][m] = seen[p][m]
        /\ missed \subseteq missed'
    BY <1>1, <2>2, <2>3, BecomesTo DEF NodeStates
  <2>5. Own(p)' = Own(p)
    BY <1>3, <2>1
  <2>6. Running' \subseteq Running \ {n}
    BY <1>1, <2>2, <2>3, <2>4 DEF Running, Recorded, NodesOK
  <2>7. SUFFICES ASSUME p \notin missed, p \notin canceled
                 PROVE  /\ \A m \in Names : seen'[p][m] = "down" => node'[m] # "up"
                        /\ Running' \ {Own(p)} \subseteq NamesOf(Others(up[p]))
    BY <1>9, <2>3, <2>4, <2>5 DEF CountAt
  <2>8. /\ Running \ {Own(p)} \subseteq NamesOf(up[p])
        /\ \A m \in Names : seen[p][m] = "down" => node[m] # "up"
    BY <1>1, <2>1, <2>7 DEF CountAt, Counting
  <2>9. \A m \in Names : seen'[p][m] = "down" => node'[m] # "up"
    BY <1>1, <2>2, <2>4, <2>8 DEF NodesOK
  <2>10. ASSUME NEW m \in Running', m # Own(p) PROVE m \in NamesOf(Others(up[p]))
    <3>1. m \in Running \ {Own(p)} /\ m # n
      BY <2>6, <2>10
    <3>2. PICK d \in up[p] : d.name = m
      BY <2>8, <3>1 DEF NamesOf
    <3>3. d # Oldest(up[p])
      BY <3>1, <3>2
    <3> QED BY <3>2, <3>3 DEF NamesOf, Others
  <2> QED BY <2>9, <2>10
<1>10. CASE pc'[p] \in {"start.restart", "start.write"}
  <2>1. pc[p] = "start.exists" /\ StartExists(p)
    BY <1>1, <1>10, Lands DEF StartExists, At
  <2>2. PICK s : Looks(p, Own(p), s) /\ \E label : Goto(p, label)
    BY <2>1 DEF StartExists
  <2>3. /\ UNCHANGED <<records, node, canceled, adrift, missed>> /\ Own(p)' = Own(p)
        /\ s \in Answers(p, Own(p))
        /\ seen'[p][Own(p)] = (IF s = "absent" THEN seen[p][Own(p)] ELSE s)
        /\ \A m \in Names \ {Own(p)} : seen'[p][m] = seen[p][m]
    BY <1>1, <1>2, <1>3, <2>2, LooksTo
  <2>4. Running' = Running
    BY <2>3 DEF Running, Recorded
  <2>5. SUFFICES ASSUME p \notin missed, p \notin canceled
                 PROVE  /\ \A n \in Names : seen'[p][n] = "down" => node'[n] # "up"
                        /\ Cardinality(Running \ {Own(p)}) < clusterLimit
    BY <1>10, <2>3, <2>4 DEF CountAt
  <2>6. /\ \A n \in Names : seen[p][n] = "down" => node[n] # "up"
        /\ Cardinality(Running \ {Own(p)}) < clusterLimit
    BY <1>1, <2>1, <2>5 DEF CountAt, Counting
  <2>7. /\ seen[p][Own(p)] # "unknown" => s = seen[p][Own(p)]
        /\ seen[p][Own(p)] = "unknown" /\ s # "absent" => s = node[Own(p)]
    BY <1>1, <1>2, <2>3, AnswersTo
  <2> QED BY <2>3, <2>6, <2>7
<1>11. CASE pc'[p] = "start.create"
  <2>1. StartWrite(p) /\ Goto(p, "start.create") /\ ~NextTarget(p)
    BY <1>1, <1>2, <1>11, Lands, GoesTo
  <2> DEFINE new == [name |-> Own(p), owner |-> Me(p), created |-> clock']
  <2>2. /\ pc[p] = "start.write" /\ records' = Without(Own(p)) \cup {new}
        /\ UNCHANGED <<node, seen, canceled, adrift, missed>>
    BY <2>1 DEF StartWrite, At, counts
  <2>3. new.name = Own(p) /\ Own(p)' = Own(p)
    BY <1>3, <2>1
  <2>4. Running' \ {Own(p)} = Running \ {Own(p)}
    <3> HIDE DEF new
    <3>1. \A m : m # Own(p) => (Recorded(m)' <=> Recorded(m))
      BY <2>2, <2>3 DEF Recorded, Without
    <3> QED BY <2>2, <3>1 DEF Running
  <2>5. SUFFICES ASSUME p \notin missed, p \notin canceled
                 PROVE  /\ \A n \in Names : seen[p][n] = "down" => node[n] # "up"
                        /\ Cardinality(Running \ {Own(p)}) < clusterLimit
    BY <1>11, <2>2, <2>3, <2>4 DEF CountAt
  <2> QED BY <1>1, <2>2, <2>5 DEF CountAt, Counting
<1>12. CASE pc'[p] \notin {"room.look", "room.made", "room.delete", "room.rmdir",
                           "start.exists", "start.restart", "start.write", "start.create"}
  BY <1>12 DEF CountAt, Counting
<1> QED BY <1>4, <1>5, <1>6, <1>7, <1>8, <1>9, <1>10, <1>11, <1>12, <1>1, Lands

LEMMA OverrunStays ==
    ASSUME Typed, NEW p \in Procs, Step(p) \/ Interrupt(p)
    PROVE  overrun => overrun'
<1>1. NodesOK /\ GhostOK
  BY Parts DEF Typed
<1>2. CASE StartLook(p) \/ StartReady(p) \/ StartExists(p) \/ StartWrite(p) \/ StartForget(p)
           \/ RoomList(p) \/ RoomLook(p) \/ RoomCounted(p) \/ RoomMade(p) \/ RoomRmdir(p)
           \/ StopList(p) \/ RemoveList(p) \/ RemoveLook(p) \/ RemoveRmdir(p)
           \/ Through(p) \/ Interrupt(p)
  <2>1. overrun' = overrun
    BY <1>2 DEF StartLook, StartReady, StartExists, StartWrite, StartForget, RoomList, RoomLook,
                RoomCounted, RoomMade, RoomRmdir, StopList, RemoveList, List, RemoveLook,
                RemoveRmdir, Rmdir, Through, Interrupt, Looks, Forgets, ghosts, counts
  <2> QED BY <2>1
<1>3. CASE StopLook(p)
  <2>1. overrun' = overrun
    BY <1>3 DEF StopLook, Looks, ghosts, counts
  <2> QED BY <2>1
<1>4. CASE StartRestart(p) \/ StartCreate(p) \/ StartMaking(p) \/ StartUndo(p)
  <2>1. pc[p] # "done"
    BY <1>4 DEF StartRestart, StartCreate, StartMaking, StartUndo, At
  <2>2. Own(p) \in Names /\ node[Own(p)] \in NodeStates
    BY <1>1, <2>1, NamesAt DEF NodesOK
  <2>3. PICK s \in NodeStates : NodeBecomes(p, Own(p), s)
    BY <1>4, <2>2 DEF StartRestart, StartCreate, StartMaking, StartUndo, NodeStates
  <2> QED BY <1>1, <2>2, <2>3, BecomesCount
<1>5. CASE RoomDelete(p) \/ RemoveDelete(p)
  <2>1. PICK n \in Names : \E label : Delete(p, n, label)
    BY <1>5, NamesAt DEF RoomDelete, RemoveDelete, At
  <2>2. PICK s \in NodeStates : NodeBecomes(p, n, s)
    BY <1>1, <2>1 DEF Delete, NodesOK, NodeStates
  <2> QED BY <1>1, <2>2, BecomesCount
<1>6. CASE StopStop(p)
  <2>1. Oldest(list[p]).name \in Names /\ node[Oldest(list[p]).name] \in NodeStates
    BY <1>1, <1>6, NamesAt DEF StopStop, At, NodesOK
  <2>2. PICK s \in NodeStates : NodeBecomes(p, Oldest(list[p]).name, s)
    BY <1>6, <2>1 DEF StopStop, NodeStates
  <2> QED BY <1>1, <2>1, <2>2, BecomesCount
<1> QED BY <1>2, <1>3, <1>4, <1>5, <1>6 DEF Step

LEMMA LimitStep ==
    ASSUME Kept, CountOK, WithinClusterLimit, NEW p \in Procs, Step(p) \/ Interrupt(p)
    PROVE  WithinClusterLimit'
<1>1. Typed /\ GhostOK /\ NodesOK
  BY Parts DEF Kept, Typed
<1>2. Typed'
  BY <1>1, StepTyped
<1>3. WithinClusterLimit <=> (~overrun => Cardinality(Running) <= clusterLimit)
  BY DEF WithinClusterLimit, Running
<1>4. WithinClusterLimit' <=> (~overrun' => Cardinality(Running') <= clusterLimit)
  BY DEF WithinClusterLimit, Running
<1>5. IsFiniteSet(Running) /\ Cardinality(Running) \in Nat
  BY <1>1, RunningFinite
<1>6. overrun => overrun'
  BY <1>1, OverrunStays
<1>7. CASE Running' \subseteq Running
  <2>1. Cardinality(Running') <= Cardinality(Running) /\ Cardinality(Running') \in Nat
    BY <1>5, <1>7, SmallerRuns
  <2> QED BY <1>3, <1>4, <1>5, <1>6, <2>1, ClustersAssumption
<1>8. CASE ~(Running' \subseteq Running)
  <2>1. PICK n \in Running' : n \notin Running
    BY <1>8
  <2>2. n \in Names /\ node[n] # "up" /\ node'[n] = "up"
    BY <2>1, RunsMore
  <2>3. /\ pc[p] \in {"start.restart", "start.create"} /\ n = Own(p)
        /\ p \notin canceled /\ NodeBecomes(p, Own(p), "up")
    BY <1>1, <2>2, Started
  <2>4. p \in missed => overrun'
    BY <1>1, <2>2, <2>3, BecomesCount DEF NodeStates
  <2>5. p \notin missed => Cardinality(Running \ {Own(p)}) < clusterLimit
    BY <2>3 DEF CountOK, CountAt, Counting
  <2>6. Running' \subseteq (Running \ {Own(p)}) \cup {Own(p)}
    <3> SUFFICES ASSUME NEW m \in Running', m # Own(p) PROVE m \in Running
      OBVIOUS
    <3>1. m \notin Running => node[m] # "up" /\ node'[m] = "up" /\ m \in Names
      BY RunsMore
    <3> QED BY <1>1, <3>1, Started
  <2>7. IsFiniteSet(Running \ {Own(p)}) /\ Cardinality(Running \ {Own(p)}) \in Nat
    BY <1>5, SmallerRuns
  <2>8. /\ IsFiniteSet((Running \ {Own(p)}) \cup {Own(p)})
        /\ Cardinality((Running \ {Own(p)}) \cup {Own(p)})
             <= Cardinality(Running \ {Own(p)}) + 1
    <3> DEFINE S == Running \ {Own(p)}
    <3>1. IsFiniteSet(S) /\ Cardinality(S) \in Nat
      BY <2>7
    <3> HIDE DEF S
    <3>2. /\ IsFiniteSet(S \cup {Own(p)})
          /\ Cardinality(S \cup {Own(p)}) =
               IF Own(p) \in S THEN Cardinality(S) ELSE Cardinality(S) + 1
      BY <3>1, FS_AddElement
    <3> QED BY <3>1, <3>2 DEF S
  <2>9. /\ Cardinality(Running') \in Nat
        /\ Cardinality((Running \ {Own(p)}) \cup {Own(p)}) \in Nat
        /\ Cardinality(Running') <= Cardinality((Running \ {Own(p)}) \cup {Own(p)})
    BY <2>6, <2>8, SmallerRuns
  <2> QED BY <1>4, <2>4, <2>5, <2>7, <2>8, <2>9, ClustersAssumption
<1> QED BY <1>7, <1>8

\* No more run than may when the processes begin.
StartsWithin ==
    \A s \in Starts :
       Cardinality({ n \in Names : (\E c \in s.records : c.name = n) /\ s.node[n] = "up" })
          <= clusterLimit

Counted == Kept /\ CountOK /\ WithinClusterLimit

LEMMA InitCounted ==
    ASSUME StartsExplained, StartsWithin, Init
    PROVE  Counted
<1>1. Kept
  BY InitKept
<1>2. CountOK
  <2>1. \A p \in Procs : pc[p] \in {"done", "start.look", "stop.list", "remove.list"}
    <3> TAKE p \in Procs
    <3>1. pc[p] = "done" \/ pc[p] = Entry(cmd[p].name)
      BY DEF Init
    <3>2. cmd[p] \in CommandLine
      BY <1>1 DEF Kept, Typed, TypeOK
    <3> QED BY <3>1, <3>2, EntryType
  <2> QED BY <2>1 DEF CountOK, CountAt, Counting
<1>3. PICK s \in Starts : records = s.records /\ node = s.node
  BY DEF Init
<1>4. Running = { n \in Names : (\E c \in s.records : c.name = n) /\ s.node[n] = "up" }
  BY <1>3 DEF Init, Running, Recorded
<1>5. Cardinality(Running) <= clusterLimit
  BY <1>4 DEF StartsWithin
<1> QED BY <1>1, <1>2, <1>5 DEF Counted, WithinClusterLimit, Running

LEMMA StepCounted ==
    ASSUME "inspect" \notin Faults, Counted, NEW p \in Procs, Step(p) \/ Interrupt(p)
    PROVE  Counted'
<1>1. Kept' /\ WithinClusterLimit'
  BY StepKept, LimitStep DEF Counted
<1>2. CountAt(p)'
  <2>1. CASE Step(p)
    BY <2>1, CountStep DEF Counted
  <2>2. CASE Interrupt(p)
    BY <2>2 DEF Interrupt, CountAt
  <2> QED BY <2>1, <2>2
<1>3. \A q \in Procs : q # p => CountAt(q)'
  BY OthersCount DEF Counted
<1> QED BY <1>1, <1>2, <1>3 DEF Counted, CountOK

LEMMA StutterCounted ==
    ASSUME Counted, UNCHANGED vars
    PROVE  Counted'
<1>1. Kept'
  BY StutterKept DEF Counted
<1>2. UNCHANGED <<records, clock, node, cmd, pc, todo, seen, list, up, canceled, maker, stale,
                  adrift, crossed, missed, overrun>>
  BY DEF vars
<1>3. Running' = Running /\ \A p \in Procs : Own(p)' = Own(p)
  BY <1>2 DEF Running, Recorded, Own, Me
<1>4. WithinClusterLimit'
  BY <1>2 DEF Counted, WithinClusterLimit, Recorded
<1>5. CountOK'
  <2> SUFFICES ASSUME NEW p \in Procs PROVE CountAt(p)'
    BY DEF CountOK
  <2> QED BY <1>2, <1>3 DEF Counted, CountOK, CountAt, Counting
<1> QED BY <1>1, <1>4, <1>5 DEF Counted

LEMMA NextCounted ==
    ASSUME "inspect" \notin Faults
    PROVE  Counted /\ [Next]_vars => Counted'
  BY StepCounted, StutterCounted DEF Next

\* On a machine whose runner answers, no more clusters run than may, however many
\* processes start one, as long as none was started on a count that missed another.
THEOREM LimitCorrect ==
    ASSUME "inspect" \notin Faults, StartsExplained, StartsWithin
    PROVE  Spec => []WithinClusterLimit
<1>1. Init => Counted
  BY InitCounted
<1>2. Counted /\ [Next]_vars => Counted'
  BY NextCounted
<1>3. Counted => WithinClusterLimit
  BY DEF Counted
<1> QED BY <1>1, <1>2, <1>3, PTL DEF Spec

---------------------------------------------------------------------------
(* Whose a cluster is. *)

\* Whose a node is, as the record says.
Tells(c) == c.name \notin crossed /\ node[c.name] # "absent" => MadeBy(c.name) = c.owner

RecordsTell == \A c \in records : Tells(c)

ListTells(p) ==
    pc[p] \in {"stop.look", "stop.stop", "remove.look", "remove.delete", "remove.rmdir"}
       => \A c \in list[p] : Fresh(p, c.name) => Tells(c)

\* What a process stops or removes it may.
Decided(p) ==
    /\ pc[p] = "stop.stop" => MayTouch(p, Oldest(list[p]))
    /\ pc[p] = "remove.delete" /\ Fresh(p, Oldest(list[p]).name) /\ p \notin canceled
          => MayTouch(p, Oldest(list[p])) \/ node[Oldest(list[p]).name] # "up"

Owned == Kept /\ RecordsTell /\ \A p \in Procs : ListTells(p) /\ Decided(p)

\* A node that stands keeps its maker.
LEMMA MakerStays ==
    ASSUME Typed, NEW p \in Procs, Step(p) \/ Interrupt(p), NEW n \in Names,
           node[n] # "absent", node'[n] # "absent"
    PROVE  maker'[n] = maker[n] /\ MadeBy(n)' = MadeBy(n)
<1>1. maker'[n] = maker[n]
  <2>1. maker'[n] # maker[n] => node'[n] # node[n]
    BY StepTyped DEF Frame, OneWay
  <2>2. CASE node'[n] # node[n]
    <3>1. StartRestart(p) \/ StopStop(p)
      BY <2>2, NodeChanges
    <3> QED BY <3>1 DEF StartRestart, StopStop
  <2> QED BY <2>1, <2>2
<1> QED BY <1>1 DEF MadeBy, Me

\* A node that comes is its maker's, and its record is its maker's too unless
\* the start went by an old look.
LEMMA MakerComes ==
    ASSUME Typed, OwnOK, NEW p \in Procs, Step(p) \/ Interrupt(p), NEW n \in Names,
           node[n] = "absent", node'[n] # "absent"
    PROVE  /\ n \in crossed' \/ \A c \in records : c.name = n => c.owner = Me(p)
           /\ records' = records /\ MadeBy(n)' = Me(p)
<1>1. StartCreate(p) /\ n = Own(p) /\ records' = records /\ node'[n] # node[n]
  BY NodeChanges
<1>2. NodesOK
  BY Parts DEF Typed
<1>3. ~NodeBecomes(p, Own(p), node[Own(p)])
  BY <1>1, <1>2 DEF NodeBecomes, NodesOK
<1>4. /\ maker' = [maker EXCEPT ![Own(p)] = p]
      /\ crossed' = IF Own(p) \in stale[p] THEN crossed \cup {Own(p)} ELSE crossed
      /\ pc[p] = "start.create"
  BY <1>1, <1>3 DEF StartCreate, At
<1>5. maker'[n] = p
  BY <1>1, <1>2, <1>4 DEF NodesOK
<1>6. n \notin stale[p] => \A c \in records : c.name = n => c.owner = Me(p)
  BY <1>1, <1>4 DEF OwnOK, OwnAt, Fresh
<1> QED BY <1>1, <1>4, <1>5, <1>6 DEF MadeBy, Me

\* Only writeCluster ends a crossing, with a record that is new.
LEMMA CrossedStays ==
    ASSUME Typed, NEW p \in Procs, Step(p) \/ Interrupt(p)
    PROVE  \/ crossed \subseteq crossed'
           \/ StartWrite(p) /\ crossed' = crossed \ {Own(p)} /\ p \notin canceled
                 /\ Fresh(p, Own(p))
<1>1. CASE StartLook(p) \/ StartReady(p) \/ StartExists(p) \/ StartRestart(p) \/ StartMaking(p)
           \/ StartUndo(p) \/ StartForget(p)
  <2>1. crossed' = crossed
    BY <1>1 DEF StartLook, StartReady, StartExists, StartRestart, StartMaking, StartUndo,
                StartForget, Looks, Forgets, ghosts
  <2> QED BY <2>1
<1>2. CASE StartCreate(p)
  BY <1>2 DEF StartCreate
<1>3. CASE StartWrite(p)
  BY <1>3 DEF StartWrite, Forgets, Fresh, ghosts
<1>4. CASE RoomList(p) \/ RoomLook(p) \/ RoomCounted(p) \/ RoomMade(p) \/ RoomDelete(p)
           \/ RoomRmdir(p) \/ StopList(p) \/ StopStop(p) \/ RemoveList(p) \/ RemoveLook(p)
           \/ RemoveDelete(p) \/ RemoveRmdir(p) \/ Through(p) \/ Interrupt(p)
  <2>1. crossed' = crossed
    BY <1>4 DEF RoomList, RoomLook, RoomCounted, RoomMade, RoomDelete, RoomRmdir, Delete, Rmdir,
                StopList, StopStop, RemoveList, List, RemoveLook, RemoveDelete, RemoveRmdir,
                Through, Interrupt, Looks, Forgets, ghosts
  <2> QED BY <2>1
<1>5. CASE StopLook(p)
  <2>1. crossed' = crossed
    BY <1>5 DEF StopLook, Looks, ghosts
  <2> QED BY <2>1
<1> QED BY <1>1, <1>2, <1>3, <1>4, <1>5 DEF Step

\* Only writeCluster makes a record.
LEMMA RecordComes ==
    ASSUME Typed, NEW p \in Procs, Step(p) \/ Interrupt(p), NEW c \in records', c \notin records
    PROVE  StartWrite(p) /\ ~Forgets(p, Own(p))
<1>1. CASE StartWrite(p)
  BY <1>1 DEF Forgets, Without
<1>2. CASE StartForget(p)
  <2>1. records' = records \/ records' = Without(Own(p))
    BY <1>2 DEF StartForget, Forgets, machine, disk
  <2> QED BY <2>1 DEF Without
<1>3. CASE RoomRmdir(p) \/ RemoveRmdir(p)
  <2>1. records' = records \/ \E n : records' = Without(n)
    BY <1>3 DEF RoomRmdir, RemoveRmdir, Rmdir, Forgets, machine, disk
  <2> QED BY <2>1 DEF Without
<1>4. CASE StartLook(p) \/ StartReady(p) \/ StartExists(p) \/ StartRestart(p) \/ StartCreate(p)
           \/ StartMaking(p) \/ StartUndo(p)
  <2>1. records' = records
    BY <1>4 DEF StartLook, StartReady, StartExists, StartRestart, StartCreate, StartMaking,
                StartUndo, Looks, machine, disk
  <2> QED BY <2>1
<1>5. CASE RoomList(p) \/ RoomLook(p) \/ RoomCounted(p) \/ RoomMade(p) \/ RoomDelete(p)
           \/ StopList(p) \/ StopLook(p) \/ StopStop(p) \/ RemoveList(p) \/ RemoveLook(p)
           \/ RemoveDelete(p) \/ Through(p) \/ Interrupt(p)
  <2>1. records' = records
    BY <1>5 DEF RoomList, RoomLook, RoomCounted, RoomMade, RoomDelete, Delete, StopList,
                StopLook, StopStop, RemoveList, List, RemoveLook, RemoveDelete, Through,
                Interrupt, Looks, machine, disk
  <2> QED BY <2>1
<1> QED BY <1>1, <1>2, <1>3, <1>4, <1>5 DEF Step

LEMMA RecordsTellStep ==
    ASSUME Kept, RecordsTell, NEW p \in Procs, Step(p) \/ Interrupt(p)
    PROVE  RecordsTell'
<1> SUFFICES ASSUME NEW c \in records', c.name \notin crossed', node'[c.name] # "absent"
             PROVE  MadeBy(c.name)' = c.owner
  BY DEF RecordsTell, Tells, MadeBy
<1>1. Typed /\ Typed' /\ OwnOK
  BY StepTyped DEF Kept
<1>2. c \in Record /\ c.name \in Names
  BY <1>1 DEF Typed, TypeOK, Record
<1>3. CASE node[c.name] = "absent"
  BY <1>1, <1>2, <1>3, MakerComes
<1>4. CASE node[c.name] # "absent" /\ c \in records
  <2>1. MadeBy(c.name)' = MadeBy(c.name)
    BY <1>1, <1>2, <1>4, MakerStays
  <2>2. c.name \notin crossed
    <3>1. CASE crossed \subseteq crossed'
      BY <3>1
    <3>2. CASE StartWrite(p) /\ crossed' = crossed \ {Own(p)} /\ p \notin canceled
                  /\ Fresh(p, Own(p))
      <4>1. pc[p] = "start.write"
        BY <3>2 DEF StartWrite, At
      <4>2. node[Own(p)] = "absent"
        BY <1>1, <3>2, <4>1 DEF OwnOK, OwnAt
      <4> QED BY <1>4, <3>2, <4>2
    <3> QED BY <1>1, <3>1, <3>2, CrossedStays
  <2> QED BY <1>4, <2>1, <2>2 DEF RecordsTell, Tells
<1>5. CASE node[c.name] # "absent" /\ c \notin records
  <2>1. StartWrite(p) /\ ~Forgets(p, Own(p))
    BY <1>1, <1>5, RecordComes
  <2>2. /\ pc[p] = "start.write" /\ c.name = Own(p)
        /\ crossed' = IF p \in canceled \/ Own(p) \in stale[p]
                      THEN crossed \cup {Own(p)} ELSE crossed \ {Own(p)}
    <3> DEFINE new == [name |-> Own(p), owner |-> Me(p), created |-> clock']
    <3>1. /\ records' = Without(Own(p)) \cup {new}
          /\ crossed' = IF p \in canceled \/ Own(p) \in stale[p]
                        THEN crossed \cup {Own(p)} ELSE crossed \ {Own(p)}
      BY <1>5, <2>1 DEF StartWrite, machine, disk
    <3>2. c = new
      <4> HIDE DEF new
      <4> QED BY <1>5, <3>1 DEF Without
    <3> QED BY <2>1, <3>1, <3>2 DEF StartWrite, At
  <2>3. node[Own(p)] = "absent"
    BY <1>1, <2>2 DEF OwnOK, OwnAt, Fresh
  <2> QED BY <1>5, <2>2, <2>3
<1> QED BY <1>3, <1>4, <1>5

\* What p knows of the cluster at hand, another process's step may only make old.
LEMMA OthersOwned ==
    ASSUME Owned, NEW p \in Procs, Step(p) \/ Interrupt(p), NEW q \in Procs, q # p
    PROVE  ListTells(q)' /\ Decided(q)'
<1>1. Typed /\ Frame(p) /\ ListTells(q) /\ Decided(q)
  BY StepTyped DEF Owned, Kept
<1>2. /\ pc'[q] = pc[q] /\ cmd' = cmd /\ list'[q] = list[q]
      /\ q \in canceled' <=> q \in canceled
      /\ StaleMarked(q) /\ OneWay
  BY <1>1 DEF Frame, Apart, Marked
<1>3. ASSUME NEW n \in Names, n \notin stale'[q]
      PROVE  /\ n \notin stale[q] /\ node'[n] = node[n] /\ maker'[n] = maker[n]
             /\ n \notin crossed' => n \notin crossed
  BY <1>2, <1>3 DEF StaleMarked, OneWay
<1>4. ListTells(q)'
  <2> SUFFICES ASSUME pc[q] \in {"stop.look", "stop.stop", "remove.look", "remove.delete",
                                 "remove.rmdir"},
                      NEW c \in list[q], c.name \notin stale'[q]
               PROVE  Tells(c)'
    BY <1>2 DEF ListTells, Fresh
  <2>1. c.name \in Names
    BY <1>1 DEF Typed, TypeOK, Record
  <2>2. Tells(c)
    BY <1>1, <1>3, <2>1 DEF ListTells, Fresh
  <2> QED BY <1>3, <2>1, <2>2 DEF Tells, MadeBy, Me
<1>5. Decided(q)'
  <2>1. MayTouch(q, Oldest(list[q])) => MayTouch(q, Oldest(list[q]))'
    BY <1>2 DEF MayTouch, Me
  <2>2. pc[q] = "remove.delete" => Oldest(list[q]).name \in Names
    BY <1>1, NamesAt
  <2> QED BY <1>1, <1>2, <1>3, <2>1, <2>2 DEF Decided, Fresh
<1> QED BY <1>4, <1>5

\* A cluster that p has still to look at is what its record says, after p's step too.
LEMMA TellsStays ==
    ASSUME Kept, NEW p \in Procs, Step(p), cmd[p].name # "start",
           NEW c \in Record, Tells(c)
    PROVE  Tells(c)'
<1>1. Typed /\ ControlAt(p) /\ c.name \in Names
  BY DEF Kept, Typed, ControlOK, Record
<1>2. crossed \subseteq crossed'
  BY <1>1, CrossedStays DEF StartWrite, At, ControlAt, Starting
<1>3. node[c.name] = "absent" => node'[c.name] = "absent"
  BY <1>1, NodeChanges DEF StartCreate, At, ControlAt, Starting
<1>4. node[c.name] # "absent" /\ node'[c.name] # "absent"
         => MadeBy(c.name)' = MadeBy(c.name)
  BY <1>1, MakerStays
<1> QED BY <1>2, <1>3, <1>4 DEF Tells, MadeBy

LEMMA ListTellsStep ==
    ASSUME Owned, NEW p \in Procs, Step(p)
    PROVE  ListTells(p)'
<1>1. /\ Typed /\ Typed' /\ ControlAt(p) /\ ControlAt(p)' /\ ListTells(p) /\ RecordsTell
      /\ LoopOK /\ DiskOK /\ GhostOK /\ cmd' = cmd
  BY StepTyped, Parts DEF Owned, Kept, Typed, ControlOK, Frame, Apart
<1> DEFINE labels == {"stop.look", "stop.stop", "remove.look", "remove.delete", "remove.rmdir"}
<1>2. SUFFICES ASSUME pc'[p] \in labels, NEW c \in list'[p], c.name \notin stale'[p]
               PROVE  Tells(c)'
  BY DEF ListTells, Fresh
<1>3. cmd[p].name # "start" /\ c \in Record
  BY <1>1, <1>2 DEF ControlAt, Typed, TypeOK
<1>4. CASE StopList(p) \/ RemoveList(p)
  <2>1. list' = [list EXCEPT ![p] = ClustersOf(Head(todo[p]))]
    BY <1>4 DEF StopList, RemoveList, List
  <2>2. c \in records
    BY <1>1, <1>2, <2>1 DEF LoopOK, ClustersOf
  <2>3. Tells(c)
    BY <1>1, <2>2 DEF RecordsTell
  <2> QED BY <1>3, <2>3, TellsStays DEF Owned
<1>5. CASE ~(StopList(p) \/ RemoveList(p))
  <2>1. /\ pc[p] \in labels
        /\ StopLook(p) \/ RemoveLook(p) \/ StopStop(p) \/ RemoveDelete(p) \/ RemoveRmdir(p)
    BY <1>1, <1>2, <1>5, Lands DEF StopLook, RemoveLook, StopStop, RemoveDelete, RemoveRmdir, At
  <2>2. list' = list \/ list' = [list EXCEPT ![p] = Others(@)]
    <3>1. CASE StopLook(p)
      <4>1. CASE MayTouch(p, Oldest(list[p]))
        BY <3>1, <4>1 DEF StopLook
      <4>2. CASE ~MayTouch(p, Oldest(list[p]))
        BY <3>1, <4>2 DEF StopLook, NotYours
      <4> QED BY <4>1, <4>2
    <3>2. CASE RemoveLook(p)
      BY <3>2 DEF RemoveLook, NotYours
    <3>3. CASE StopStop(p) \/ RemoveDelete(p) \/ RemoveRmdir(p)
      BY <3>3 DEF StopStop, RemoveDelete, Delete, RemoveRmdir
    <3> QED BY <2>1, <3>1, <3>2, <3>3
  <2>3. c \in list[p]
    BY <1>1, <1>2, <2>2 DEF LoopOK, Others
  <2>4. stale'[p] = stale[p]
    <3>1. CASE StopLook(p)
      <4>1. CASE MayTouch(p, Oldest(list[p]))
        BY <3>1, <4>1 DEF StopLook
      <4>2. CASE ~MayTouch(p, Oldest(list[p]))
        BY <3>1, <4>2 DEF StopLook, ghosts
      <4> QED BY <4>1, <4>2
    <3>2. CASE RemoveLook(p)
      BY <3>2 DEF RemoveLook
    <3>3. CASE StopStop(p) \/ RemoveDelete(p) \/ RemoveRmdir(p)
      <4>1. UNCHANGED stale \/ \E n : MarkStale(p, n)
        BY <3>3 DEF StopStop, RemoveDelete, Delete, RemoveRmdir, Rmdir, Forgets, NodeBecomes,
                    ghosts
      <4> QED BY <1>1, <4>1 DEF MarkStale, GhostOK
    <3> QED BY <2>1, <3>1, <3>2, <3>3
  <2>5. Tells(c)
    BY <1>1, <1>2, <2>1, <2>3, <2>4 DEF ListTells, Fresh
  <2> QED BY <1>3, <2>5, TellsStays DEF Owned
<1> QED BY <1>4, <1>5

LEMMA DecidedStep ==
    ASSUME "inspect" \notin Faults, Owned, NEW p \in Procs, Step(p)
    PROVE  Decided(p)'
<1>1. Typed /\ SeenOK /\ NodesOK /\ LoopOK /\ cmd' = cmd /\ CacheAt(p)
  BY StepTyped, Parts DEF Owned, Kept, Typed, Frame, Apart, CacheOK
<1>2. CASE pc'[p] = "stop.stop"
  <2> DEFINE c == Oldest(list[p])
  <2>1. StopLook(p) /\ pc[p] = "stop.look"
    BY <1>1, <1>2, Lands DEF StopLook, At
  <2>2. MayTouch(p, c)
    <3>1. ASSUME ~MayTouch(p, c) PROVE pc'[p] # "stop.stop"
      <4>1. NextTarget(p) \/ pc' = pc
        BY <2>1, <3>1 DEF StopLook, NotYours
      <4> QED BY <1>1, <2>1, <4>1, GoesTo
    <3> QED BY <1>2, <3>1
  <2>3. list' = list
    <3>1. PICK s : IF s = "up" THEN Goto(p, "stop.stop") /\ UNCHANGED list
                   ELSE /\ list' = [list EXCEPT ![p] = Others(@)]
                        /\ Goto(p, "stop.look")
      BY <2>1, <2>2 DEF StopLook
    <3>2. ~Goto(p, "stop.look")
      BY <1>1, <1>2, GoesTo
    <3> QED BY <3>1, <3>2
  <2> QED BY <1>1, <1>2, <2>2, <2>3 DEF Decided, MayTouch, Me
<1>3. CASE pc'[p] = "remove.delete"
  <2> DEFINE c == Oldest(list[p])
  <2>1. RemoveLook(p) /\ pc[p] = "remove.look" /\ list[p] # {}
    BY <1>1, <1>3, Lands DEF RemoveLook, At
  <2>2. PICK s \in Answers(p, c.name) :
           /\ Looks(p, c.name, s) /\ UNCHANGED stale
           /\ IF s = "up" /\ ~MayTouch(p, c) THEN NotYours(p)
              ELSE Goto(p, "remove.delete") /\ UNCHANGED list
    BY <2>1 DEF RemoveLook
  <2>3. ~NotYours(p)
    <3>1. NotYours(p) => NextTarget(p) \/ pc' = pc
      BY DEF NotYours
    <3> QED BY <1>1, <1>3, <2>1, <3>1, GoesTo
  <2>4. ~(s = "up" /\ ~MayTouch(p, c)) /\ list' = list
    BY <2>2, <2>3
  <2>5. c.name \in Names
    BY <1>1, <2>1, LoopAt
  <2>6. node' = node /\ canceled' = canceled /\ stale' = stale
    BY <2>2 DEF Looks, machine
  <2>7. Fresh(p, c.name) /\ p \notin canceled => s = node[c.name]
    <3>1. /\ seen[p][c.name] # "unknown" => s = seen[p][c.name]
          /\ p \notin canceled /\ seen[p][c.name] = "unknown" => s = node[c.name]
      BY <1>1, <2>2, <2>5, AnswersTo
    <3>2. seen[p][c.name] # "unknown" /\ Fresh(p, c.name) => seen[p][c.name] = node[c.name]
      BY <1>1, <2>5 DEF CacheAt
    <3> QED BY <3>1, <3>2
  <2> QED BY <1>1, <1>3, <2>4, <2>6, <2>7 DEF Decided, MayTouch, Me, Fresh
<1>4. CASE pc'[p] \notin {"stop.stop", "remove.delete"}
  BY <1>4 DEF Decided
<1> QED BY <1>2, <1>3, <1>4

LEMMA InitOwned ==
    ASSUME StartsExplained, Init
    PROVE  Owned
<1>1. Kept
  BY InitKept
<1>2. RecordsTell
  <2> SUFFICES ASSUME NEW c \in records PROVE MadeBy(c.name) = c.owner
    BY DEF RecordsTell, Tells
  <2>1. maker[c.name] = c.owner /\ c.owner \in Owners
    BY <1>1 DEF Init, Kept, Typed, TypeOK, Record
  <2>2. c.owner \notin Procs
    BY <2>1, ClustersAssumption
  <2> QED BY <2>1, <2>2 DEF MadeBy
<1>3. ASSUME NEW p \in Procs PROVE ListTells(p) /\ Decided(p)
  <2>1. pc[p] = "done" \/ pc[p] = Entry(cmd[p].name)
    BY DEF Init
  <2>2. cmd[p] \in CommandLine
    BY <1>1 DEF Kept, Typed, TypeOK
  <2> QED BY <2>1, <2>2, EntryType DEF ListTells, Decided
<1> QED BY <1>1, <1>2, <1>3 DEF Owned

LEMMA InterruptOwned ==
    ASSUME Owned, NEW p \in Procs, Interrupt(p)
    PROVE  ListTells(p)' /\ Decided(p)'
<1>1. /\ UNCHANGED <<records, node, maker, cmd, pc, list, stale, crossed>>
      /\ canceled' = canceled \cup {p}
  BY DEF Interrupt, machine, disk, control, ghosts
<1>2. ListTells(p)'
  BY <1>1 DEF Owned, ListTells, Tells, MadeBy, Me, Fresh
<1>3. Decided(p)'
  BY <1>1 DEF Owned, Decided, MayTouch, Me, Fresh
<1> QED BY <1>2, <1>3

LEMMA StepOwned ==
    ASSUME "inspect" \notin Faults, Owned, NEW p \in Procs, Step(p) \/ Interrupt(p)
    PROVE  Owned'
<1>1. Kept' /\ RecordsTell'
  BY StepKept, RecordsTellStep DEF Owned
<1>2. ListTells(p)' /\ Decided(p)'
  BY ListTellsStep, DecidedStep, InterruptOwned
<1>3. \A q \in Procs : q # p => ListTells(q)' /\ Decided(q)'
  BY OthersOwned
<1> QED BY <1>1, <1>2, <1>3 DEF Owned

LEMMA StutterOwned ==
    ASSUME Owned, UNCHANGED vars
    PROVE  Owned'
<1>1. Kept'
  BY StutterKept DEF Owned
<1>2. UNCHANGED <<records, node, maker, cmd, pc, list, canceled, stale, crossed>>
  BY DEF vars
<1>3. RecordsTell'
  BY <1>2 DEF Owned, RecordsTell, Tells, MadeBy, Me
<1>4. ASSUME NEW p \in Procs PROVE ListTells(p)' /\ Decided(p)'
  <2>1. ListTells(p)'
    BY <1>2 DEF Owned, ListTells, Tells, MadeBy, Me, Fresh
  <2>2. Decided(p)'
    BY <1>2 DEF Owned, Decided, MayTouch, Me, Fresh
  <2> QED BY <2>1, <2>2
<1> QED BY <1>1, <1>3, <1>4 DEF Owned

LEMMA NextOwned ==
    ASSUME "inspect" \notin Faults
    PROVE  Owned /\ [Next]_vars => Owned'
  BY StepOwned, StutterOwned DEF Next

\* What a step takes down, its process may, unless it went by an old look.
MayTakeDown ==
    \A p \in Procs, n \in Names :
       pc'[p] # pc[p] /\ TakesDown(n) /\ ~cmd[p].force =>
          \/ n \in stale[p] \cup crossed
          \/ cmd[p].name # "start" /\ MadeBy(n) = Me(p)
          \/ cmd[p].name = "start" /\ maker[n] = p

LEMMA StepTakesDown ==
    ASSUME Owned, NEW p \in Procs, Step(p) \/ Interrupt(p)
    PROVE  MayTakeDown
<1>1. /\ Typed /\ ControlAt(p) /\ OwnAt(p) /\ ListTells(p) /\ Decided(p) /\ LoopOK
      /\ \A q \in Procs \ {p} : pc'[q] = pc[q]
  BY StepTyped, Parts DEF Owned, Kept, Typed, ControlOK, OwnOK, Frame, Apart
<1>2. SUFFICES ASSUME NEW n \in Names, node[n] = "up", node'[n] # "up", ~cmd[p].force,
                      Fresh(p, n), n \notin crossed
               PROVE  \/ cmd[p].name # "start" /\ MadeBy(n) = Me(p)
                      \/ cmd[p].name = "start" /\ maker[n] = p
  BY <1>1 DEF MayTakeDown, TakesDown, Fresh
<1>3. \A c \in Record : c.name = n /\ Tells(c) => MadeBy(n) = c.owner
  BY <1>2 DEF Tells
<1>4. CASE StartMaking(p) \/ StartUndo(p)
  <2>1. \/ pc[p] = "start.making" /\ n = Own(p)
        \/ pc[p] = "start.undo" /\ n = Own(p) /\ p \notin canceled
    BY <1>1, <1>2, <1>4, NodeChanges DEF StartMaking, StartUndo, StartRestart, StartCreate,
       RoomDelete, RemoveDelete, StopStop, At
  <2> QED BY <1>1, <1>2, <2>1 DEF ControlAt, Starting, OwnAt
<1>5. CASE RoomDelete(p)
  BY <1>1, <1>2, <1>5 DEF RoomDelete, At, ControlAt
<1>6. CASE StopStop(p) \/ RemoveDelete(p)
  <2> DEFINE c == Oldest(list[p])
  <2>1. /\ pc[p] = "stop.stop" \/ (pc[p] = "remove.delete" /\ p \notin canceled)
        /\ n = c.name
    BY <1>1, <1>2, <1>6, NodeChanges DEF StartMaking, StartUndo, StartRestart, StartCreate,
       RoomDelete, RemoveDelete, StopStop, At
  <2>2. c \in list[p] /\ c \in Record
    BY <1>1, <2>1, NamesAt DEF LoopOK
  <2>3. MayTouch(p, c) /\ cmd[p].name # "start"
    BY <1>1, <1>2, <2>1 DEF Decided, ControlAt
  <2>4. Tells(c)
    BY <1>1, <1>2, <2>1, <2>2 DEF ListTells
  <2> HIDE DEF c
  <2> QED BY <1>2, <1>3, <2>1, <2>2, <2>3, <2>4 DEF MayTouch
<1>7. CASE ~(StartMaking(p) \/ StartUndo(p) \/ RoomDelete(p) \/ StopStop(p) \/ RemoveDelete(p))
  BY <1>1, <1>2, <1>7, NodeChanges
<1> QED BY <1>4, <1>5, <1>6, <1>7

\* On a machine whose runner answers, a running cluster is taken down by its owner
\* or by the start that made it, by --force, or on a look that somebody has made
\* old, or where two starts of one name crossed.
THEOREM TakesDownCorrect ==
    ASSUME "inspect" \notin Faults, StartsExplained
    PROVE  Spec => TakesDownItsOwn
<1>1. Init => Owned
  BY InitOwned
<1>2. Owned /\ [Next]_vars => Owned'
  BY NextOwned
<1>3. Owned /\ [Next]_vars => [MayTakeDown]_vars
  BY StepTakesDown DEF Next
<1> QED BY <1>1, <1>2, <1>3, PTL DEF Spec, TakesDownItsOwn, MayTakeDown
=============================================================================
