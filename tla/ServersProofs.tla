--------------------------- MODULE ServersProofs ---------------------------
(***************************************************************************)
(* What every process of dbrun may rely on, however many processes, owners *)
(* and servers there are, whatever fails and whatever stops by itself: the *)
(* types, and that what a process remembers is what is there unless        *)
(* somebody else changed it.  Then, while inspects answer, whom it takes   *)
(* down; how many are up beside a lone process and which it stops to make  *)
(* room; and what the commands of one session promise the others.          *)
(***************************************************************************)
EXTENDS Servers, FiniteSetTheorems, WellFoundedInduction, TLAPS

Found == Container \cup {Absent}

RunnerOK == cont \in [Targets -> Found] /\ older \subseteq Targets \X Targets
SeenOK   == seen \in [Procs -> [Targets -> Found \cup {NotSeen}]]
StaleOK  == stale \in [Procs -> [Targets -> BOOLEAN]]
ControlOK ==
    /\ pc \in [Procs -> Labels]
    /\ todo \in [Procs -> Seq(Targets)]
    /\ \A p \in Procs : pc[p] \notin {"remember", "done"} => todo[p] # <<>>
LocalOK == owner \in [Procs -> Whose] /\ wasUp \in [Procs -> BOOLEAN]
RoomOK ==
    /\ names \in [Procs -> SUBSET [name : Containers, rank : Nat]]
    /\ up \in [Procs -> SUBSET [name : Containers, owner : Whose, rank : Nat]]
    /\ after \in [Procs -> {"start.start", "start.create"}]

\* The parts of the type invariant, which most steps leave alone but one or two.
LEMMA Parts ==
    TypeOK <=> /\ RunnerOK /\ SeenOK /\ StaleOK /\ ControlOK /\ LocalOK /\ RoomOK
               /\ cmd \in [Procs -> CommandLine]
<1>1. Found \cup {NotSeen} = Container \cup {Absent, NotSeen}
  BY DEF Found
<1> QED BY <1>1 DEF TypeOK, RunnerOK, SeenOK, StaleOK, ControlOK, LocalOK, RoomOK, Found

---------------------------------------------------------------------------
(* Calls to the runner. *)

LEMMA OutcomeTo == \A c : Outcome(TRUE, c).to = c /\ Outcome(FALSE, c).to = c
  BY DEF Outcome

\* A command of the runner leaves a container or none.
LEMMA SwitchType ==
    ASSUME RunnerOK, NEW t \in Targets, cont[t] # Absent, NEW r \in BOOLEAN
    PROVE  [cont[t] EXCEPT !.running = r] \in Found
  BY DEF RunnerOK, Found, Container

LEMMA StopType ==
    ASSUME RunnerOK, NEW t \in Targets
    PROVE  \A o \in StopOutcomes(t) : o.to \in Found
<1>1. cont[t] \in Found /\ Absent \in Found
  BY DEF RunnerOK, Found
<1>2. CASE cont[t] = Absent
  BY <1>1, <1>2, OutcomeTo DEF StopOutcomes
<1>3. CASE cont[t] # Absent
  <2> DEFINE c == [cont[t] EXCEPT !.running = FALSE]
  <2>1. c \in Found
    BY <1>3, SwitchType
  <2>2. StopOutcomes(t) \subseteq {Outcome(TRUE, c), Outcome(FALSE, cont[t])}
    BY <1>3 DEF StopOutcomes, MayFail
  <2> HIDE DEF c
  <2> QED BY <1>1, <2>1, <2>2, OutcomeTo
<1> QED BY <1>2, <1>3

LEMMA StartType ==
    ASSUME RunnerOK, NEW t \in Targets
    PROVE  \A o \in StartOutcomes(t) : o.to \in Found
<1>1. cont[t] \in Found /\ Absent \in Found
  BY DEF RunnerOK, Found
<1>2. CASE cont[t] = Absent
  BY <1>1, <1>2, OutcomeTo DEF StartOutcomes
<1>3. CASE cont[t] # Absent
  <2> DEFINE c == [cont[t] EXCEPT !.running = TRUE]
  <2>1. c \in Found
    BY <1>3, SwitchType
  <2>2. StartOutcomes(t) \subseteq {Outcome(TRUE, c), Outcome(FALSE, cont[t])}
    BY <1>3 DEF StartOutcomes, MayFail
  <2> HIDE DEF c
  <2> QED BY <1>1, <2>1, <2>2, OutcomeTo
<1> QED BY <1>2, <1>3

LEMMA RmType ==
    ASSUME RunnerOK, NEW t \in Targets
    PROVE  \A o \in RmOutcomes(t) : o.to \in Found
<1>1. cont[t] \in Found /\ Absent \in Found
  BY DEF RunnerOK, Found
<1> QED BY <1>1, OutcomeTo DEF RmOutcomes, MayFail

LEMMA RunType ==
    ASSUME RunnerOK, NEW p \in Procs, NEW t \in Targets
    PROVE  \A o \in RunOutcomes(p, t) : o.to \in Found
<1>1. cont[t] \in Found /\ Absent \in Found
  BY DEF RunnerOK, Found
<1> DEFINE made(r) == [owner |-> Me(p), ports |-> TRUE, running |-> r]
<1>2. made(TRUE) \in Found /\ made(FALSE) \in Found
  BY ServersAssumption DEF Found, Container, Me
<1>3. RunOutcomes(p, t) \subseteq
         {Outcome(FALSE, cont[t]), Outcome(FALSE, Absent),
          Outcome(TRUE, made(TRUE)), Outcome(FALSE, made(FALSE))}
  BY DEF RunOutcomes, MayFail
<1> HIDE DEF made
<1>4. \A o \in {Outcome(FALSE, cont[t]), Outcome(FALSE, Absent),
               Outcome(TRUE, made(TRUE)), Outcome(FALSE, made(FALSE))} : o.to \in Found
  BY <1>1, <1>2, OutcomeTo
<1> QED BY <1>3, <1>4

\* What a look answers is a container or none.
LEMMA AnswersType ==
    ASSUME RunnerOK, SeenOK, NEW p \in Procs, NEW t \in Targets, NEW v \in Answers(p, t)
    PROVE  v \in Found
<1>1. cont[t] \in Found /\ seen[p][t] \in Found \cup {NotSeen} /\ Absent \in Found
  BY DEF RunnerOK, SeenOK, Found
<1> QED BY <1>1 DEF Answers, Asks, MayFail

\* A container that becomes another keeps the types of the runner.
LEMMA BecomesType ==
    ASSUME RunnerOK, NEW t \in Targets, NEW c \in Found, Becomes(t, c)
    PROVE  RunnerOK'
<1>1. cont' \in [Targets -> Found]
  BY DEF RunnerOK, Becomes
<1>2. older' \subseteq Targets \X Targets
  <2>1. { u \in Targets \ {t} : Running(u) } \X {t} \subseteq Targets \X Targets
    OBVIOUS
  <2>2. older' \subseteq older \cup ({ u \in Targets \ {t} : Running(u) } \X {t})
    BY DEF Becomes
  <2> QED BY <2>1, <2>2 DEF RunnerOK
<1> QED BY <1>1, <1>2 DEF RunnerOK

\* What the cache invariant needs of a call.
Sound(p, t) == seen[p][t] # NotSeen /\ ~stale[p][t] => seen[p][t] = cont[t]

LEMMA CacheParts == CacheSound <=> \A p \in Procs, t \in Targets : Sound(p, t)
  BY DEF CacheSound, Sound

Cache == RunnerOK /\ SeenOK /\ StaleOK /\ CacheSound

\* A command that names a container forgets what the caller remembers of it, and
\* everybody else's answer is old from then on.
LEMMA RunsCommandKeeps ==
    ASSUME Cache, NEW p \in Procs, NEW t \in Targets, NEW o, o.to \in Found, RunsCommand(p, t, o)
    PROVE  Cache'
<1>1. RunnerOK'
  BY BecomesType DEF Cache, RunsCommand
<1>2. seen' = [seen EXCEPT ![p][t] = NotSeen]
  BY DEF RunsCommand
<1>3. SeenOK'
  BY <1>2 DEF Cache, SeenOK
<1> DEFINE others == IF o.to = cont[t] THEN {} ELSE Procs \ {p}
<1>4. stale' = [q \in Procs |-> [stale[q] EXCEPT ![t] = stale[q][t] \/ q \in others]]
  BY DEF RunsCommand, MarkStale
<1>5. StaleOK'
  BY <1>4 DEF Cache, StaleOK
<1>6. ASSUME NEW q \in Procs, NEW u \in Targets PROVE Sound(q, u)'
  <2>1. Sound(q, u)
    BY CacheParts DEF Cache
  <2>2. cont' = [cont EXCEPT ![t] = o.to] /\ cont \in [Targets -> Found]
    BY DEF RunsCommand, Becomes, Cache, RunnerOK
  <2>3. CASE u # t
    <3>1. cont'[u] = cont[u] /\ seen'[q][u] = seen[q][u] /\ stale'[q][u] = stale[q][u]
      BY <1>2, <1>4, <2>2, <2>3 DEF Cache, SeenOK, StaleOK
    <3> QED BY <2>1, <3>1 DEF Sound
  <2>4. CASE u = t /\ q = p
    BY <1>2, <2>4 DEF Cache, SeenOK, Sound
  <2>5. CASE u = t /\ q # p
    <3>1. cont'[u] = o.to /\ seen'[q][u] = seen[q][u]
      BY <1>2, <2>2, <2>5 DEF Cache, SeenOK
    <3>2. stale'[q][u] <=> stale[q][u] \/ q \in others
      BY <1>4, <2>5 DEF Cache, StaleOK
    <3>3. q \in others \/ o.to = cont[t]
      BY <2>5
    <3> HIDE DEF others
    <3> QED BY <2>1, <2>5, <3>1, <3>2, <3>3 DEF Sound
  <2> QED BY <2>3, <2>4, <2>5
<1>7. CacheSound'
  BY <1>6 DEF CacheSound, Sound
<1> QED BY <1>1, <1>3, <1>5, <1>7 DEF Cache

\* A look remembers what is there, or what it remembers already.
LEMMA LooksKeeps ==
    ASSUME Cache, NEW p \in Procs, NEW t \in Targets, NEW v, Looks(p, t, v),
           \/ UNCHANGED stale
           \/ stale' = [stale EXCEPT ![p][t] = stale[p][t] /\ ~Asks(p, t)]
    PROVE  Cache' /\ v \in Found
<1>1. v \in Found
  BY AnswersType DEF Cache, Looks
<1>2. RunnerOK' /\ UNCHANGED cont
  BY DEF Cache, RunnerOK, Looks, runnerVars
<1>3. seen' = [seen EXCEPT ![p][t] = IF v = Absent THEN seen[p][t] ELSE v]
  BY DEF Looks
<1>4. SeenOK'
  BY <1>1, <1>3 DEF Cache, SeenOK
<1>5. StaleOK'
  <2>1. stale \in [Procs -> [Targets -> BOOLEAN]]
    BY DEF Cache, StaleOK
  <2>2. CASE UNCHANGED stale
    BY <2>1, <2>2 DEF StaleOK
  <2>3. ASSUME NEW b \in BOOLEAN, stale' = [stale EXCEPT ![p][t] = b] PROVE StaleOK'
    BY <2>1, <2>3 DEF StaleOK
  <2>4. (stale[p][t] /\ ~Asks(p, t)) \in BOOLEAN
    OBVIOUS
  <2> QED BY <2>2, <2>3, <2>4, Zenon
<1>6. ASSUME NEW q \in Procs, NEW u \in Targets PROVE Sound(q, u)'
  <2>1. Sound(q, u)
    BY CacheParts DEF Cache
  <2>2. CASE q # p \/ u # t
    <3>1. seen'[q][u] = seen[q][u] /\ stale'[q][u] = stale[q][u]
      BY <1>3, <2>2 DEF Cache, SeenOK, StaleOK
    <3> QED BY <1>2, <2>1, <3>1 DEF Sound
  <2>3. CASE q = p /\ u = t
    <3>1. seen'[p][t] = IF v = Absent THEN seen[p][t] ELSE v
      BY <1>3 DEF Cache, SeenOK
    <3>2. CASE Asks(p, t)
      <4>1. v = cont[t] \/ v = Absent
        BY <3>2 DEF Looks, Answers, MayFail
      <4> QED BY <1>2, <2>3, <3>1, <3>2, <4>1 DEF Sound, Asks
    <3>3. CASE ~Asks(p, t)
      <4>1. v = seen[p][t]
        BY <3>3 DEF Looks, Answers
      <4>2. stale'[p][t] <=> stale[p][t]
        BY <3>3 DEF Cache, StaleOK
      <4> QED BY <1>2, <2>1, <2>3, <3>1, <4>1, <4>2 DEF Sound
    <3> QED BY <3>2, <3>3
  <2> QED BY <2>2, <2>3
<1>7. CacheSound'
  BY <1>6 DEF CacheSound, Sound
<1> QED BY <1>1, <1>2, <1>4, <1>5, <1>7 DEF Cache

\* A step that leaves the runner and the cache alone leaves them sound.
LEMMA CacheUntouched == Cache /\ UNCHANGED <<cont, older, seen, stale>> => Cache'
  BY DEF Cache, RunnerOK, SeenOK, StaleOK, CacheSound

---------------------------------------------------------------------------
(* The control of a process. *)

LEMMA TargetType ==
    ASSUME ControlOK, NEW p \in Procs, pc[p] \notin {"remember", "done"}
    PROVE  todo[p] # <<>> /\ Target(p) \in Targets /\ Tail(todo[p]) \in Seq(Targets)
  BY DEF ControlOK, Target

LEMMA EntryType ==
    ASSUME NEW c \in CommandLine, NEW t \in Targets
    PROVE  Entry(c.name, t) \in Labels /\ Entry(c.name, t) \notin {"remember", "done"}
<1>1. c.name \in {"start", "stop", "remove", "test"}
  BY DEF CommandLine, Commands
<1>2. StartEntry(t) \in {"start.exists", "start.owner"}
  BY DEF StartEntry
<1>3. Entry(c.name, t) \in {"start.exists", "start.owner", "stop.look", "remove.owner", "test.wasup"}
  BY <1>1, <1>2 DEF Entry
<1> QED BY <1>3 DEF Labels

LEMMA GotoKeeps ==
    ASSUME ControlOK, NEW p \in Procs, NEW label \in Labels, Goto(p, label),
           todo[p] # <<>> \/ label \in {"remember", "done"}
    PROVE  ControlOK'
  BY DEF ControlOK, Goto

LEMMA NextTargetKeeps ==
    ASSUME ControlOK, cmd \in [Procs -> CommandLine],
           NEW p \in Procs, pc[p] \notin {"remember", "done"}, NextTarget(p)
    PROVE  ControlOK'
<1>1. todo' = [todo EXCEPT ![p] = Tail(todo[p])] /\ Tail(todo[p]) \in Seq(Targets)
  BY TargetType DEF NextTarget
<1>2. CASE Tail(todo[p]) = <<>>
  <2>1. pc' = [pc EXCEPT ![p] = "done"]
    BY <1>2 DEF NextTarget
  <2>2. "done" \in Labels
    BY DEF Labels
  <2> QED BY <1>1, <2>1, <2>2 DEF ControlOK
<1>3. CASE Tail(todo[p]) # <<>>
  <2> DEFINE entry == Entry(cmd[p].name, Head(Tail(todo[p])))
  <2>1. pc' = [pc EXCEPT ![p] = entry]
    BY <1>3 DEF NextTarget
  <2>2. entry \in Labels
    <3>1. Head(Tail(todo[p])) \in Targets /\ cmd[p] \in CommandLine
      BY <1>1, <1>3
    <3> QED BY <3>1, EntryType
  <2> HIDE DEF entry
  <2> QED BY <1>1, <1>3, <2>1, <2>2 DEF ControlOK
<1> QED BY <1>2, <1>3

---------------------------------------------------------------------------
(* The invariant. *)

Other == LocalOK /\ RoomOK /\ cmd \in [Procs -> CommandLine]

IInv == Cache /\ ControlOK /\ Other

LEMMA IInvIs == IInv <=> TypeOK /\ CacheSound
  BY Parts DEF IInv, Cache, Other

LEMMA OwnerInType ==
    ASSUME NEW v \in Found
    PROVE  OwnerIn(v) \in Whose
  BY DEF OwnerIn, Found, Container, Whose

LEMMA IsUpType ==
    ASSUME NEW v \in Found
    PROVE  IsUp(v) \in BOOLEAN
  BY DEF IsUp, Found, Container

LEMMA OtherUntouched == Other /\ UNCHANGED <<cmd, owner, wasUp, roomVars>> => Other'
  BY DEF Other, LocalOK, RoomOK, roomVars

LEMMA InvInit == Init => IInv
<1> SUFFICES ASSUME Init PROVE IInv
  OBVIOUS
<1>1. cont \in [Targets -> Found] /\ older \subseteq Targets \X Targets
  BY ServersAssumption DEF Init, Found
<1>2. cmd \in [Procs -> CommandLine]
  BY ServersAssumption DEF Init
<1>3. \A p \in Procs : pc[p] = "remember" /\ "remember" \in Labels
  BY DEF Init, Labels
<1>4. pc \in [Procs -> Labels]
  BY DEF Init, Labels
<1>5. todo \in [Procs -> Seq(Targets)]
  BY <1>2 DEF Init, CommandLine
<1>6. ControlOK
  BY <1>3, <1>4, <1>5 DEF ControlOK
<1>7. SeenOK /\ StaleOK
  BY DEF Init, SeenOK, StaleOK
<1>8. LocalOK
  BY DEF Init, LocalOK, Whose
<1>9. RoomOK
  BY DEF Init, RoomOK
<1>10. CacheSound
  BY DEF Init, CacheSound
<1> QED BY <1>1, <1>2, <1>6, <1>7, <1>8, <1>9, <1>10 DEF IInv, Cache, Other, RunnerOK

\* What the cases below have in common: a step that looks, or commands the
\* runner, or does neither, and goes to a label or to the next target.
LEMMA LookStep ==
    ASSUME IInv, NEW p \in Procs, pc[p] \notin {"remember", "done"}
    PROVE  /\ Target(p) \in Targets /\ todo[p] # <<>>
           /\ \A next \in Labels : Goto(p, next) => ControlOK'
           /\ NextTarget(p) => ControlOK'
           /\ \A t \in Targets : \A v \in Answers(p, t) :
                 (LooksOnly(p, t, v) \/ LooksForOwner(p, t, v)) => Cache' /\ v \in Found
<1>1. Cache /\ ControlOK /\ Other
  BY DEF IInv
<1>2. Target(p) \in Targets /\ todo[p] # <<>>
  BY <1>1, TargetType
<1>3. \A next \in Labels : Goto(p, next) => ControlOK'
  BY <1>1, <1>2, GotoKeeps
<1>4. NextTarget(p) => ControlOK'
  BY <1>1, NextTargetKeeps DEF Other
<1>5. ASSUME NEW t \in Targets, NEW v \in Answers(p, t), LooksOnly(p, t, v) \/ LooksForOwner(p, t, v)
      PROVE  Cache' /\ v \in Found
  <2>1. Looks(p, t, v)
    BY <1>5 DEF LooksOnly, LooksForOwner
  <2>2. UNCHANGED stale \/ stale' = [stale EXCEPT ![p][t] = stale[p][t] /\ ~Asks(p, t)]
    BY <1>5 DEF LooksOnly, LooksForOwner
  <2> QED BY <1>1, <2>1, <2>2, LooksKeeps
<1> QED BY <1>2, <1>3, <1>4, <1>5

LEMMA CommandStep ==
    ASSUME IInv, NEW p \in Procs, NEW t \in Targets,
           NEW o \in UNION {StopOutcomes(t), StartOutcomes(t), RmOutcomes(t), RunOutcomes(p, t)},
           RunsCommand(p, t, o)
    PROVE  Cache'
<1>1. Cache /\ RunnerOK
  BY DEF IInv, Cache
<1>2. o.to \in Found
  BY <1>1, StopType, StartType, RmType, RunType
<1> QED BY <1>1, <1>2, RunsCommandKeeps

\* Asking a server inside its container whether it is ready forgets what is
\* remembered of it.
LEMMA AsksReadyKeeps ==
    ASSUME Cache, NEW p \in Procs, NEW t \in Targets, AsksReady(p, t)
    PROVE  Cache'
<1>1. \E v \in {NotSeen, seen[p][t]} : seen' = [seen EXCEPT ![p][t] = v]
  BY DEF AsksReady
<1>2. SeenOK'
  BY <1>1 DEF Cache, SeenOK
<1>3. \A q \in Procs, u \in Targets : seen'[q][u] \in {seen[q][u], NotSeen}
  BY <1>1 DEF Cache, SeenOK
<1>4. CacheSound'
  BY <1>3 DEF AsksReady, Cache, CacheSound
<1> QED BY <1>2, <1>4 DEF AsksReady, Cache, RunnerOK, StaleOK

---------------------------------------------------------------------------
(* The steps of a process. *)

\* doStart keeps the types and the cache.
LEMMA StartKeeps ==
    ASSUME IInv, NEW p \in Procs, StartStep(p)
    PROVE  IInv'
<1>1. pc[p] \notin {"remember", "done"}
  BY DEF StartStep, StartExists, StartOwner, StartPorts, StartClaimable, StartRebuild,
     StartRunning, StartClaim, StartTake, StartNoImage, StartAgain, StartStart, StartGiveUp,
     StartMissing, StartCreate, StartReady, At
<1>2. /\ Target(p) \in Targets /\ todo[p] # <<>>
      /\ \A next \in Labels : Goto(p, next) => ControlOK'
      /\ NextTarget(p) => ControlOK'
  BY <1>1, LookStep
<1>3. \A v \in Answers(p, Target(p)) :
         LooksOnly(p, Target(p), v) \/ LooksForOwner(p, Target(p), v) => Cache' /\ v \in Found
  BY <1>1, LookStep
<1>4. \A o \in UNION {StopOutcomes(Target(p)), StartOutcomes(Target(p)),
                       RmOutcomes(Target(p)), RunOutcomes(p, Target(p))} :
         RunsCommand(p, Target(p), o) => Cache'
  BY <1>2, CommandStep
<1>5. UNCHANGED <<cmd, owner, wasUp, roomVars>> => Other'
  BY OtherUntouched DEF IInv
<1>6. UNCHANGED <<runnerVars, cacheVars>> => Cache'
  BY CacheUntouched DEF IInv, runnerVars, cacheVars
<1> USE DEF Labels
<1>7. CASE StartExists(p)
  BY <1>2, <1>3, <1>5, <1>7 DEF StartExists, IInv
<1>8. CASE StartOwner(p)
  <2>1. PICK v \in Answers(p, Target(p)) :
           LooksForOwner(p, Target(p), v) /\ owner' = [owner EXCEPT ![p] = OwnerIn(v)]
    BY <1>8 DEF StartOwner
  <2>2. Cache' /\ OwnerIn(v) \in Whose
    BY <1>3, <2>1, OwnerInType
  <2>3. ControlOK'
    BY <1>2, <1>8 DEF StartOwner
  <2>4. Other'
    BY <2>1, <2>2, <1>8 DEF StartOwner, IInv, Other, LocalOK, RoomOK, roomVars
  <2> QED BY <2>2, <2>3, <2>4 DEF IInv
<1>9. CASE StartPorts(p)
  BY <1>2, <1>3, <1>5, <1>9 DEF StartPorts, IInv
<1>10. CASE StartClaimable(p)
  BY <1>2, <1>3, <1>5, <1>10 DEF StartClaimable, IInv
<1>11. CASE StartRebuild(p)
  BY <1>2, <1>4, <1>5, <1>11 DEF StartRebuild, IInv
<1>12. CASE StartRunning(p)
  BY <1>2, <1>3, <1>5, <1>12 DEF StartRunning, IInv
<1>13. CASE StartClaim(p)
  BY <1>2, <1>3, <1>5, <1>13 DEF StartClaim, IInv
<1>14. CASE StartTake(p)
  BY <1>2, <1>4, <1>5, <1>14 DEF StartTake, IInv
<1>15. CASE StartNoImage(p)
  BY <1>2, <1>5, <1>6, <1>15 DEF StartNoImage, IInv
<1>16. CASE StartAgain(p)
  <2>1. Cache' /\ ControlOK'
    BY <1>2, <1>3, <1>16 DEF StartAgain
  <2>2. after' \in [Procs -> {"start.start", "start.create"}]
    BY <1>16 DEF StartAgain, IInv, Other, RoomOK
  <2>3. Other'
    BY <2>2, <1>16 DEF StartAgain, IInv, Other, LocalOK, RoomOK
  <2> QED BY <2>1, <2>3 DEF IInv
<1>17. CASE StartStart(p)
  BY <1>2, <1>4, <1>5, <1>17 DEF StartStart, IInv
<1>18. CASE StartGiveUp(p)
  BY <1>2, <1>4, <1>5, <1>18 DEF StartGiveUp, IInv
<1>19. CASE StartMissing(p)
  <2>1. Cache' /\ ControlOK'
    BY <1>2, <1>3, <1>19 DEF StartMissing
  <2>2. after' \in [Procs -> {"start.start", "start.create"}]
    BY <1>19 DEF StartMissing, IInv, Other, RoomOK
  <2>3. Other'
    BY <2>2, <1>19 DEF StartMissing, IInv, Other, LocalOK, RoomOK
  <2> QED BY <2>1, <2>3 DEF IInv
<1>20. CASE StartCreate(p)
  BY <1>2, <1>4, <1>5, <1>20 DEF StartCreate, IInv
<1>21. CASE StartReady(p)
  <2>1. ControlOK'
    BY <1>2, <1>21 DEF StartReady, ServerUp
  <2>2. Cache'
    BY <1>2, <1>21, AsksReadyKeeps DEF StartReady, IInv
  <2> QED BY <1>5, <2>1, <2>2, <1>21 DEF StartReady, IInv
<1> QED BY <1>7, <1>8, <1>9, <1>10, <1>11, <1>12, <1>13, <1>14, <1>15, <1>16, <1>17,
           <1>18, <1>19, <1>20, <1>21 DEF StartStep

\* doStop, doRemove and doTest keep the types and the cache.
LEMMA CommandKeeps ==
    ASSUME IInv, NEW p \in Procs, 
           \/ StopLook(p) \/ StopStop(p)
           \/ RemoveOwner(p) \/ RemoveRunning(p) \/ RemoveExists(p) \/ RemoveRm(p)
           \/ TestWasUp(p) \/ TestOwner(p) \/ TestCleanup(p)
    PROVE  IInv'
<1>1. pc[p] \notin {"remember", "done"}
  BY DEF StopLook, StopStop, RemoveOwner, RemoveRunning, RemoveExists, RemoveRm, TestWasUp,
     TestOwner, TestCleanup, At
<1>2. /\ Target(p) \in Targets /\ todo[p] # <<>>
      /\ \A next \in Labels : Goto(p, next) => ControlOK'
      /\ NextTarget(p) => ControlOK'
  BY <1>1, LookStep
<1>3. \A v \in Answers(p, Target(p)) :
         LooksOnly(p, Target(p), v) \/ LooksForOwner(p, Target(p), v) => Cache' /\ v \in Found
  BY <1>1, LookStep
<1>4. \A o \in UNION {StopOutcomes(Target(p)), StartOutcomes(Target(p)),
                       RmOutcomes(Target(p)), RunOutcomes(p, Target(p))} :
         RunsCommand(p, Target(p), o) => Cache'
  BY <1>2, CommandStep
<1>5. UNCHANGED <<cmd, owner, wasUp, roomVars>> => Other'
  BY OtherUntouched DEF IInv
<1>6. UNCHANGED <<runnerVars, cacheVars>> => Cache'
  BY CacheUntouched DEF IInv, runnerVars, cacheVars
<1> USE DEF Labels
<1>7. CASE StopLook(p)
  BY <1>2, <1>3, <1>5, <1>7 DEF StopLook, IInv
<1>8. CASE StopStop(p)
  BY <1>2, <1>4, <1>5, <1>8 DEF StopStop, IInv
<1>9. CASE RemoveOwner(p)
  <2>1. PICK v \in Answers(p, Target(p)) :
           LooksForOwner(p, Target(p), v) /\ owner' = [owner EXCEPT ![p] = OwnerIn(v)]
    BY <1>9 DEF RemoveOwner
  <2>2. Cache' /\ OwnerIn(v) \in Whose
    BY <1>3, <2>1, OwnerInType
  <2>3. ControlOK'
    BY <1>2, <1>9 DEF RemoveOwner
  <2>4. Other'
    BY <2>1, <2>2, <1>9 DEF RemoveOwner, IInv, Other, LocalOK, RoomOK, roomVars
  <2> QED BY <2>2, <2>3, <2>4 DEF IInv
<1>10. CASE RemoveRunning(p)
  BY <1>2, <1>3, <1>5, <1>10 DEF RemoveRunning, IInv
<1>11. CASE RemoveExists(p)
  BY <1>2, <1>3, <1>5, <1>11 DEF RemoveExists, IInv
<1>12. CASE RemoveRm(p)
  BY <1>2, <1>4, <1>5, <1>12 DEF RemoveRm, IInv
<1>13. CASE TestWasUp(p)
  <2>1. PICK v \in Answers(p, Target(p)) :
           LooksOnly(p, Target(p), v) /\ wasUp' = [wasUp EXCEPT ![p] = IsUp(v)]
    BY <1>13 DEF TestWasUp
  <2>2. Cache' /\ IsUp(v) \in BOOLEAN
    BY <1>3, <2>1, IsUpType
  <2>3. ControlOK'
    BY <1>2, <1>13 DEF TestWasUp, StartEntry
  <2>4. wasUp' \in [Procs -> BOOLEAN]
    BY <2>1, <2>2 DEF IInv, Other, LocalOK
  <2>5. Other'
    BY <2>4, <1>13 DEF TestWasUp, IInv, Other, LocalOK, RoomOK, roomVars
  <2> QED BY <2>2, <2>3, <2>5 DEF IInv
<1>14. CASE TestOwner(p)
  <2>1. PICK v \in Answers(p, Target(p)) :
           LooksForOwner(p, Target(p), v) /\ owner' = [owner EXCEPT ![p] = OwnerIn(v)]
    BY <1>14 DEF TestOwner
  <2>2. Cache' /\ OwnerIn(v) \in Whose
    BY <1>3, <2>1, OwnerInType
  <2>3. ControlOK'
    BY <1>2, <1>14 DEF TestOwner
  <2>4. Other'
    BY <2>1, <2>2, <1>14 DEF TestOwner, IInv, Other, LocalOK, RoomOK, roomVars
  <2> QED BY <2>2, <2>3, <2>4 DEF IInv
<1>15. CASE TestCleanup(p)
  <2>1. Cache'
    BY <1>4, <1>6, <1>15 DEF TestCleanup
  <2> QED BY <1>2, <1>5, <2>1, <1>15 DEF TestCleanup, IInv
<1> QED BY <1>7, <1>8, <1>9, <1>10, <1>11, <1>12, <1>13, <1>14, <1>15

\* The listed server that started first is one of those that are listed.
LEMMA OldestIn ==
    ASSUME NEW S, S # {}, \A h \in S : h.rank \in Nat
    PROVE  Oldest(S) \in S /\ \A g \in S : Oldest(S).rank <= g.rank
<1> DEFINE ranks == { h.rank : h \in S }
<1>1. ranks \subseteq Nat /\ ranks # {}
  OBVIOUS
<1>2. PICK n \in ranks : \A m \in ranks : ~(<<m, n>> \in OpToRel(<, Nat))
  BY <1>1, WFMin, NatLessThanWellFounded
<1>3. \A m \in ranks : n <= m
  <2> SUFFICES ASSUME NEW m \in ranks PROVE n <= m
    OBVIOUS
  <2>1. <<m, n>> \in Nat \X Nat /\ <<m, n>>[1] = m /\ <<m, n>>[2] = n
    BY <1>1
  <2>2. ~(m < n)
    <3> HIDE DEF ranks
    <3> QED BY <1>2, <2>1, Zenon DEF OpToRel
  <2> QED BY <1>1, <2>2
<1>4. PICK h \in S : h.rank = n
  OBVIOUS
<1>5. \A g \in S : h.rank <= g.rank
  BY <1>3, <1>4
<1> QED BY <1>5 DEF Oldest

LEMMA OrderFinite ==
    ASSUME RunnerOK, NEW t \in Targets
    PROVE  Cardinality({ o \in older : o[2] = t }) \in Nat
<1>1. IsFiniteSet(Targets \X Targets)
  BY ServersAssumption, FS_Product
<1>2. { o \in older : o[2] = t } \in SUBSET (Targets \X Targets)
  BY DEF RunnerOK
<1>3. IsFiniteSet({ o \in older : o[2] = t })
  BY <1>1, <1>2, FS_Subset
<1> QED BY <1>3, FS_CardinalityType

\* makeRoom keeps the types and the cache.
LEMMA RoomKeeps ==
    ASSUME IInv, NEW p \in Procs, RoomStep(p)
    PROVE  IInv'
<1>1. pc[p] \notin {"remember", "done"}
  BY DEF RoomStep, RoomList, RoomLoad, RoomOwner, RoomMade, RoomEvict, RoomRefused, At
<1>2. /\ Target(p) \in Targets /\ todo[p] # <<>>
      /\ \A next \in Labels : Goto(p, next) => ControlOK'
      /\ NextTarget(p) => ControlOK'
  BY <1>1, LookStep
<1>3. UNCHANGED <<runnerVars, cacheVars>> => Cache'
  BY CacheUntouched DEF IInv, runnerVars, cacheVars
<1>4. UNCHANGED <<pc, todo>> => ControlOK'
  BY DEF IInv, ControlOK
<1>5. /\ names[p] \subseteq [name : Containers, rank : Nat]
      /\ up[p] \subseteq [name : Containers, owner : Whose, rank : Nat]
      /\ after[p] \in {"start.start", "start.create"}
      /\ Containers \subseteq Targets
  BY DEF IInv, Other, RoomOK, Containers
<1> DEFINE Heard == [name : Containers, owner : Whose, rank : Nat]
<1>6. ASSUME UNCHANGED <<cmd, owner, wasUp, names, after>>,
             NEW S \in SUBSET Heard, up' = [up EXCEPT ![p] = S]
      PROVE  Other'
  BY <1>6 DEF IInv, Other, LocalOK, RoomOK
<1>7. CASE RoomList(p)
  <2>1. Cache'
    BY <1>3, <1>7 DEF RoomList
  <2>2. ControlOK'
    BY <1>2, <1>7 DEF RoomList, Labels
  <2>3. PICK S : names' = [names EXCEPT ![p] = S]
           /\ S \subseteq [name : Containers, rank : Nat]
    <3>1. \A t \in Targets : Cardinality({ o \in older : o[2] = t }) \in Nat
      BY OrderFinite DEF IInv, Cache
    <3> DEFINE listed == { [name |-> t, rank |-> Cardinality({ o \in older : o[2] = t })] :
                             t \in { u \in Containers \ {Target(p)} : Running(u) } }
    <3>2. listed \subseteq [name : Containers, rank : Nat]
      <4>1. ASSUME NEW t \in Containers
            PROVE  [name |-> t, rank |-> Cardinality({ o \in older : o[2] = t })]
                      \in [name : Containers, rank : Nat]
        BY <3>1, <1>5, <4>1
      <4> QED BY <4>1
    <3>3. names' = [names EXCEPT ![p] = {}] \/ names' = [names EXCEPT ![p] = listed]
      BY <1>7 DEF RoomList
    <3> HIDE DEF listed
    <3> QED BY <3>2, <3>3
  <2>4. Other'
    BY <2>3, <1>7 DEF RoomList, IInv, Other, LocalOK, RoomOK
  <2> QED BY <2>1, <2>2, <2>4 DEF IInv
<1>8. CASE RoomLoad(p)
  <2>1. ControlOK'
    BY <1>2, <1>8 DEF RoomLoad, Labels
  <2>2. Cache'
    <3>1. CASE UNCHANGED cacheVars
      BY <1>3, <1>8, <3>1 DEF RoomLoad
    <3>2. CASE /\ \A t \in Listed(p) : cont[t] # Absent
               /\ seen' = [seen EXCEPT ![p] =
                     [t \in Targets |-> IF t \in Listed(p) THEN cont[t] ELSE seen[p][t]]]
               /\ stale' = [stale EXCEPT ![p] =
                     [t \in Targets |-> t \notin Listed(p) /\ stale[p][t]]]
      <4>1. cont' = cont /\ older' = older
        BY <1>8 DEF RoomLoad, runnerVars
      <4>2. RunnerOK'
        BY <4>1 DEF IInv, Cache, RunnerOK
      <4>3. SeenOK'
        BY <3>2 DEF IInv, Cache, SeenOK, RunnerOK
      <4>4. StaleOK'
        BY <3>2 DEF IInv, Cache, StaleOK
      <4>5. ASSUME NEW q \in Procs, NEW t \in Targets PROVE Sound(q, t)'
        <5>1. Sound(q, t)
          BY CacheParts DEF IInv, Cache
        <5>2. CASE q = p /\ t \in Listed(p)
          BY <3>2, <4>1, <5>2 DEF Sound, IInv, Cache, SeenOK
        <5>3. CASE q # p \/ t \notin Listed(p)
          <6>1. seen'[q][t] = seen[q][t] /\ (stale'[q][t] <=> stale[q][t])
            BY <3>2, <5>3 DEF IInv, Cache, SeenOK, StaleOK
          <6> QED BY <4>1, <5>1, <6>1 DEF Sound
        <5> QED BY <5>2, <5>3
      <4> QED BY <4>2, <4>3, <4>4, <4>5 DEF Cache, CacheSound, Sound
    <3> QED BY <1>8, <3>1, <3>2 DEF RoomLoad
  <2>3. Other'
    BY <1>8, OtherUntouched DEF RoomLoad, IInv
  <2> QED BY <2>1, <2>2, <2>3 DEF IInv
<1>9. CASE RoomOwner(p)
  <2> DEFINE n == Oldest(names[p])
  <2>1. n \in [name : Containers, rank : Nat]
    <3>1. n \in names[p]
      BY <1>9, <1>5, OldestIn DEF RoomOwner
    <3> QED BY <1>5, <3>1
  <2>2. PICK v \in Answers(p, n.name) :
          /\ LooksForOwner(p, n.name, v)
          /\ up' = [up EXCEPT ![p] =
                       up[p] \cup {[name |-> n.name, owner |-> OwnerIn(v), rank |-> n.rank]}]
    BY <1>9 DEF RoomOwner
  <2>3. names' = [names EXCEPT ![p] = names[p] \ {n}]
    BY <1>9 DEF RoomOwner
  <2> HIDE DEF n
  <2>4. n.name \in Containers /\ n.rank \in Nat
    BY <2>1
  <2>5. Cache' /\ v \in Found
    BY <1>1, <1>5, <2>2, <2>4, LookStep
  <2>6. [name |-> n.name, owner |-> OwnerIn(v), rank |-> n.rank] \in Heard
    BY <2>4, <2>5, OwnerInType
  <2>7. ControlOK'
    BY <1>4, <1>9 DEF RoomOwner
  <2>8. up' \in [Procs -> SUBSET Heard]
    BY <1>5, <2>2, <2>6 DEF IInv, Other, RoomOK
  <2>9. names' \in [Procs -> SUBSET [name : Containers, rank : Nat]]
    BY <2>3 DEF IInv, Other, RoomOK
  <2>10. Other'
    BY <2>8, <2>9, <1>9 DEF RoomOwner, IInv, Other, LocalOK, RoomOK
  <2> QED BY <2>5, <2>7, <2>10 DEF IInv
<1>10. CASE RoomMade(p)
  <2>1. after[p] \in Labels
    BY <1>5 DEF Labels
  <2> QED BY <1>2, <1>3, <1>6, <1>10, <2>1 DEF RoomMade, IInv
<1>11. CASE RoomEvict(p)
  <2> DEFINE h == Oldest(Evictable(p))
  <2>1. h \in up[p]
    <3>1. Evictable(p) \subseteq up[p] /\ Evictable(p) # {}
      BY <1>11 DEF RoomEvict, Evictable
    <3>2. \A e \in Evictable(p) : e.rank \in Nat
      BY <1>5, <3>1
    <3> QED BY <3>1, <3>2, OldestIn
  <2>2. PICK o \in StopOutcomes(h.name) : RunsCommand(p, h.name, o)
    BY <1>11 DEF RoomEvict
  <2>3. up' = [up EXCEPT ![p] = up[p] \ {h}] /\ UNCHANGED <<cmd, pc, todo, owner, wasUp, names, after>>
    BY <1>11 DEF RoomEvict
  <2> HIDE DEF h
  <2>4. h.name \in Targets
    BY <1>5, <2>1
  <2>5. Cache'
    BY <2>2, <2>4, CommandStep
  <2>6. up[p] \ {h} \in SUBSET Heard
    BY <1>5
  <2> QED BY <1>4, <1>6, <2>3, <2>5, <2>6 DEF IInv
<1>12. CASE RoomRefused(p)
  BY <1>2, <1>3, <1>6, <1>12 DEF RoomRefused, IInv
<1> QED BY <1>7, <1>8, <1>9, <1>10, <1>11, <1>12 DEF RoomStep

\* withRunner's listing keeps the types and starts with a sound cache, and one
\* that fails changes nothing.
LEMMA RememberKeeps ==
    ASSUME IInv, NEW p \in Procs, Remember(p) \/ RememberFails(p)
    PROVE  IInv'
<1>1. CASE Remember(p)
  <2>1. cont' = cont /\ older' = older
    BY <1>1 DEF Remember, runnerVars
  <2>2. \E S : seen' = [seen EXCEPT ![p] = [t \in Targets |->
                         IF cont[t] = Absent /\ t \in S THEN Absent ELSE NotSeen]]
    <3> WITNESS { t \in Targets : \E n \in DOMAIN todo[p] : todo[p][n] = t }
    <3> QED BY <1>1 DEF Remember
  <2>3. PICK S : seen' = [seen EXCEPT ![p] = [t \in Targets |->
                         IF cont[t] = Absent /\ t \in S THEN Absent ELSE NotSeen]]
    BY <2>2
  <2>4. stale' = [stale EXCEPT ![p] = [t \in Targets |-> FALSE]]
    BY <1>1 DEF Remember
  <2>5. RunnerOK'
    BY <2>1 DEF IInv, Cache, RunnerOK
  <2>6. SeenOK'
    BY <2>3 DEF IInv, Cache, SeenOK, Found
  <2>7. StaleOK'
    BY <2>4 DEF IInv, Cache, StaleOK
  <2>8. ASSUME NEW q \in Procs, NEW t \in Targets PROVE Sound(q, t)'
    <3>1. CASE q = p
      <4>1. seen'[q][t] = IF cont[t] = Absent /\ t \in S THEN Absent ELSE NotSeen
        BY <2>3, <3>1 DEF IInv, Cache, SeenOK
      <4> QED BY <2>1, <4>1 DEF Sound
    <3>2. CASE q # p
      <4>1. seen'[q][t] = seen[q][t] /\ stale'[q][t] = stale[q][t]
        BY <2>3, <2>4, <3>2 DEF IInv, Cache, SeenOK, StaleOK
      <4>2. Sound(q, t)
        BY CacheParts DEF IInv, Cache
      <4> QED BY <2>1, <4>1, <4>2 DEF Sound
    <3> QED BY <3>1, <3>2
  <2>9. Cache'
    BY <2>5, <2>6, <2>7, <2>8 DEF Cache, CacheSound, Sound
  <2>10. ControlOK'
    <3>1. CASE todo[p] = <<>>
      <4>1. pc' = [pc EXCEPT ![p] = "done"] /\ todo' = todo
        BY <1>1, <3>1 DEF Remember
      <4> QED BY <4>1 DEF IInv, ControlOK, Labels
    <3>2. CASE todo[p] # <<>>
      <4> DEFINE entry == Entry(cmd[p].name, Target(p))
      <4>1. pc' = [pc EXCEPT ![p] = entry] /\ todo' = todo
        BY <1>1, <3>2 DEF Remember
      <4>2. entry \in Labels
        <5>1. cmd[p] \in CommandLine /\ Target(p) \in Targets
          BY <3>2 DEF IInv, Other, ControlOK, Target
        <5> QED BY <5>1, EntryType
      <4> HIDE DEF entry
      <4> QED BY <3>2, <4>1, <4>2 DEF IInv, ControlOK
    <3> QED BY <3>1, <3>2
  <2>11. Other'
    BY <1>1, OtherUntouched DEF Remember, IInv
  <2> QED BY <2>9, <2>10, <2>11 DEF IInv
<1>2. CASE RememberFails(p)
  <2>1. ControlOK'
    BY <1>2, GotoKeeps DEF RememberFails, IInv, Labels
  <2>2. Cache' /\ Other'
    BY <1>2, CacheUntouched, OtherUntouched DEF RememberFails, IInv, runnerVars, cacheVars
  <2> QED BY <2>1, <2>2 DEF IInv
<1> QED BY <1>1, <1>2

\* A server that stops by itself makes every answer about it old.
LEMMA ExitKeeps ==
    ASSUME IInv, NEW t \in Targets, Exit(t)
    PROVE  IInv'
<1> DEFINE c == [cont[t] EXCEPT !.running = FALSE]
<1>1. c \in Found
  <2>1. cont[t] # Absent /\ RunnerOK
    BY DEF Exit, Running, IsUp, IInv, Cache
  <2> QED BY <2>1, SwitchType
<1>2. Becomes(t, c)
  BY DEF Exit
<1> HIDE DEF c
<1>3. RunnerOK'
  BY <1>1, <1>2, BecomesType DEF IInv, Cache
<1>4. seen' = seen /\ cont' = [cont EXCEPT ![t] = c]
  BY <1>2 DEF Exit, Becomes
<1>5. stale' = [q \in Procs |-> [stale[q] EXCEPT ![t] = stale[q][t] \/ q \in Procs]]
  BY DEF Exit, MarkStale
<1>6. SeenOK' /\ StaleOK'
  BY <1>4, <1>5 DEF IInv, Cache, SeenOK, StaleOK
<1>7. ASSUME NEW q \in Procs, NEW u \in Targets PROVE Sound(q, u)'
  <2>1. CASE u = t
    BY <1>5, <2>1 DEF IInv, Cache, StaleOK, Sound
  <2>2. CASE u # t
    <3>1. cont'[u] = cont[u] /\ stale'[q][u] = stale[q][u]
      BY <1>4, <1>5, <2>2 DEF IInv, Cache, StaleOK, RunnerOK
    <3>2. Sound(q, u)
      BY CacheParts DEF IInv, Cache
    <3> QED BY <1>4, <3>1, <3>2 DEF Sound
  <2> QED BY <2>1, <2>2
<1>8. Cache'
  BY <1>3, <1>6, <1>7 DEF Cache, CacheSound, Sound
<1>9. ControlOK' /\ Other'
  BY DEF Exit, IInv, ControlOK, Other, LocalOK, RoomOK, roomVars
<1> QED BY <1>8, <1>9 DEF IInv

---------------------------------------------------------------------------
(* The theorems. *)

LEMMA NextKeeps == IInv /\ [Next]_vars => IInv'
<1> SUFFICES ASSUME IInv, [Next]_vars PROVE IInv'
  OBVIOUS
<1>1. ASSUME NEW p \in Procs, Step(p) PROVE IInv'
  BY <1>1, RememberKeeps, StartKeeps, RoomKeeps, CommandKeeps DEF Step
<1>2. ASSUME NEW t \in Targets, Exit(t) PROVE IInv'
  BY <1>2, ExitKeeps
<1>3. CASE UNCHANGED vars
  <2>1. Cache'
    BY <1>3, CacheUntouched DEF IInv, vars
  <2>2. ControlOK' /\ Other'
    BY <1>3 DEF vars, IInv, ControlOK, Other, LocalOK, RoomOK
  <2> QED BY <2>1, <2>2 DEF IInv
<1> QED BY <1>1, <1>2, <1>3 DEF Next

\* Every variable keeps its type whatever the processes, the owners, the servers
\* and the failures are, and no command acts on a target it has not: the loop of
\* withRunner ends with its last target.
THEOREM TypeCorrect == Spec => []TypeOK
<1>1. Init => IInv
  BY InvInit
<1>2. IInv /\ [Next]_vars => IInv'
  BY NextKeeps
<1>3. IInv => TypeOK
  BY IInvIs
<1> QED BY <1>1, <1>2, <1>3, PTL DEF Spec

\* What a process remembers of a container is what the container is, unless
\* somebody else changed it since: runner.remember, look, load and forget keep
\* the cache true under every sequence of commands.
THEOREM CacheCorrect == Spec => []CacheSound
<1>1. Init => IInv
  BY InvInit
<1>2. IInv /\ [Next]_vars => IInv'
  BY NextKeeps
<1>3. IInv => CacheSound
  BY IInvIs
<1> QED BY <1>1, <1>2, <1>3, PTL DEF Spec

---------------------------------------------------------------------------
(* Who is taken down, while inspects answer. *)

\* Where the owner the process holds is what it last read of its target; where
\* it has decided that it may take its target down; where it has seen it down.
Read    == {"start.ports", "start.claimable", "remove.running", "test.cleanup"}
Decided == {"start.rebuild", "stop.stop", "remove.exists", "remove.rm"}
SawDown == {"start.claim", "start.take", "start.giveup"}

\* What a process knows of its target, unless somebody else changed it.
Knows(p) ==
    ~stale[p][Target(p)] =>
      /\ pc[p] \in Read => owner[p] = OwnerIn(cont[Target(p)])
      /\ pc[p] \in Decided =>
            \/ MayTouch(OwnerIn(cont[Target(p)]), Me(p), cmd[p].force)
            \/ ~Running(Target(p))
      /\ pc[p] \in SawDown => ~Running(Target(p))

\* What makeRoom knows: each server is asked about once, and what it holds of
\* one is whose it is, unless somebody else changed that.
Hears(p) ==
    /\ pc[p] # "room.owner" => up[p] = {}
    /\ \A n, m \in names[p] : n.name = m.name => n = m
    /\ \A n \in names[p], h \in up[p] : n.name # h.name
    /\ \A h \in up[p] :
          cont[h.name] # Absent /\ ~stale[p][h.name] => cont[h.name].owner = h.owner

Knowing == \A p \in Procs : pc[p] \notin {"remember", "done"} => Knows(p)
Hearing == \A p \in Procs : Hears(p)

\* A step that is not the process's own: what it goes by is left alone, and a
\* container that changes makes its answer old.
Apart(q) ==
    /\ cmd' = cmd
    /\ <<pc[q], todo[q], owner[q], wasUp[q], names[q], up[q], after[q]>>'
         = <<pc[q], todo[q], owner[q], wasUp[q], names[q], up[q], after[q]>>
    /\ \A t \in Targets : ~stale'[q][t] => ~stale[q][t] /\ cont'[t] = cont[t]

LEMMA RunsCommandTells ==
    ASSUME IInv, NEW p \in Procs, NEW t \in Targets, NEW o, RunsCommand(p, t, o)
    PROVE  /\ cont' = [cont EXCEPT ![t] = o.to]
           /\ stale'[p] = stale[p]
           /\ \A q \in Procs \ {p}, u \in Targets :
                 ~stale'[q][u] => ~stale[q][u] /\ cont'[u] = cont[u]
<1> DEFINE others == IF o.to = cont[t] THEN {} ELSE Procs \ {p}
<1>1. cont' = [cont EXCEPT ![t] = o.to] /\ cont \in [Targets -> Found]
  BY DEF RunsCommand, Becomes, IInv, Cache, RunnerOK
<1>2. /\ stale \in [Procs -> [Targets -> BOOLEAN]]
      /\ stale' = [q \in Procs |-> [stale[q] EXCEPT ![t] = stale[q][t] \/ q \in others]]
  BY DEF RunsCommand, MarkStale, IInv, Cache, StaleOK
<1>3. stale'[p] = stale[p]
  <2>1. stale'[p] = [stale[p] EXCEPT ![t] = stale[p][t] \/ p \in others]
    BY <1>2
  <2>2. p \notin others /\ stale[p][t] \in BOOLEAN /\ stale[p] \in [Targets -> BOOLEAN]
    BY <1>2
  <2>3. (stale[p][t] \/ p \in others) = stale[p][t]
    BY <2>2, Zenon
  <2> HIDE DEF others
  <2> QED BY <2>1, <2>2, <2>3
<1>4. ASSUME NEW q \in Procs \ {p}, NEW u \in Targets, ~stale'[q][u]
      PROVE  ~stale[q][u] /\ cont'[u] = cont[u]
  <2>1. stale'[q][u] = IF u = t THEN stale[q][u] \/ q \in others ELSE stale[q][u]
    BY <1>2
  <2>2. ~stale[q][u] /\ (u = t => q \notin others)
    BY <1>4, <2>1
  <2>3. u = t => o.to = cont[t]
    BY <2>2
  <2> QED BY <1>1, <2>2, <2>3
<1> QED BY <1>1, <1>3, <1>4

LEMMA LooksTell ==
    ASSUME IInv, NEW p \in Procs, NEW t \in Targets,
           NEW v, LooksOnly(p, t, v) \/ LooksForOwner(p, t, v)
    PROVE  /\ cont' = cont
           /\ "inspect" \notin Faults => (~stale'[p][t] => v = cont[t])
           /\ LooksOnly(p, t, v) => stale' = stale
           /\ \A u \in Targets \ {t} : stale'[p][u] = stale[p][u]
           /\ \A q \in Procs \ {p}, u \in Targets : stale'[q][u] = stale[q][u]
<1>1. Looks(p, t, v) /\ cont' = cont
  BY DEF LooksOnly, LooksForOwner, Looks, runnerVars
<1>2. stale \in [Procs -> [Targets -> BOOLEAN]]
  BY DEF IInv, Cache, StaleOK
<1>3. stale' = stale \/ stale' = [stale EXCEPT ![p][t] = stale[p][t] /\ ~Asks(p, t)]
  BY DEF LooksOnly, LooksForOwner
<1>4. /\ \A u \in Targets \ {t} : stale'[p][u] = stale[p][u]
      /\ \A q \in Procs \ {p}, u \in Targets : stale'[q][u] = stale[q][u]
  BY <1>2, <1>3
<1>5. LooksOnly(p, t, v) => stale' = stale
  BY DEF LooksOnly
<1>6. ASSUME "inspect" \notin Faults, ~stale'[p][t] PROVE v = cont[t]
  <2>1. CASE Asks(p, t)
    BY <1>1, <1>6, <2>1 DEF Looks, Answers, MayFail
  <2>2. CASE ~Asks(p, t)
    <3>1. v = seen[p][t] /\ seen[p][t] # NotSeen
      BY <1>1, <2>2 DEF Looks, Answers, Asks
    <3>2. ~stale[p][t]
      BY <1>2, <1>3, <1>6, <2>2
    <3>3. Sound(p, t)
      BY CacheParts DEF IInv, Cache
    <3> QED BY <3>1, <3>2, <3>3 DEF Sound
  <2> QED BY <2>1, <2>2
<1> QED BY <1>1, <1>4, <1>5, <1>6

\* The server makeRoom stops is one of those it holds.
LEMMA EvicteeIn ==
    ASSUME IInv, NEW p \in Procs, RoomEvict(p)
    PROVE  Oldest(Evictable(p)) \in up[p] /\ Oldest(Evictable(p)) \in Evictable(p)
<1>1. Evictable(p) \subseteq up[p] /\ Evictable(p) # {}
  BY DEF RoomEvict, Evictable
<1>2. \A e \in Evictable(p) : e.rank \in Nat
  BY <1>1 DEF IInv, Other, RoomOK
<1> QED BY <1>1, <1>2, OldestIn

\* A step of a process is none of another's.
LEMMA StepApart ==
    ASSUME IInv, NEW p \in Procs, Step(p), NEW q \in Procs \ {p}
    PROVE  Apart(q)
<1> DEFINE Still == \A t \in Targets : ~stale'[q][t] => ~stale[q][t] /\ cont'[t] = cont[t]
<1> DEFINE Kept ==
       <<pc[q], todo[q], owner[q], wasUp[q], names[q], up[q], after[q]>>'
         = <<pc[q], todo[q], owner[q], wasUp[q], names[q], up[q], after[q]>>
<1>1. \A label : Goto(p, label) => pc'[q] = pc[q] /\ todo'[q] = todo[q]
  BY DEF Goto, IInv, ControlOK
<1>2. NextTarget(p) => pc'[q] = pc[q] /\ todo'[q] = todo[q]
  BY DEF NextTarget, IInv, ControlOK
<1>3. \A t \in Targets : \A v : LooksOnly(p, t, v) \/ LooksForOwner(p, t, v) => Still
  BY LooksTell
<1>4. \A t \in Targets : \A o : RunsCommand(p, t, o) => Still
  BY RunsCommandTells
<1>5. UNCHANGED <<cont, stale>> => Still
  OBVIOUS
<1>6. pc[p] \notin {"remember", "done"} => Target(p) \in Targets
  BY TargetType DEF IInv
<1>7. /\ owner \in [Procs -> Whose] /\ wasUp \in [Procs -> BOOLEAN]
      /\ names \in [Procs -> SUBSET [name : Containers, rank : Nat]]
      /\ up \in [Procs -> SUBSET [name : Containers, owner : Whose, rank : Nat]]
      /\ after \in [Procs -> {"start.start", "start.create"}]
      /\ stale \in [Procs -> [Targets -> BOOLEAN]]
      /\ pc \in [Procs -> Labels] /\ Containers \subseteq Targets
  BY DEF IInv, Other, LocalOK, RoomOK, Cache, StaleOK, ControlOK, Containers
<1> HIDE DEF Still
<1>8. CASE Remember(p)
  <2>1. Still
    BY <1>8, <1>7 DEF Remember, runnerVars, Still
  <2>2. pc'[q] = pc[q]
    BY <1>7, <1>8 DEF Remember
  <2> QED BY <1>8, <2>1, <2>2 DEF Remember, Apart, roomVars, Still
<1>9. CASE RememberFails(p)
  BY <1>1, <1>5, <1>9 DEF RememberFails, runnerVars, cacheVars, roomVars, Apart, Still
<1>10. CASE StartStep(p)
  <2>1. CASE StartExists(p) \/ StartOwner(p) \/ StartPorts(p) \/ StartClaimable(p)
    BY <1>1, <1>2, <1>3, <1>6, <1>7, <2>1
       DEF StartExists, StartOwner, StartPorts, StartClaimable, At, roomVars, Apart, Still
  <2>2. CASE StartRunning(p) \/ StartClaim(p)
    BY <1>1, <1>2, <1>3, <1>6, <1>7, <2>2
       DEF StartRunning, StartClaim, At, roomVars, Apart, Still
  <2>3. CASE StartAgain(p) \/ StartMissing(p)
    BY <1>1, <1>2, <1>3, <1>6, <1>7, <2>3
       DEF StartAgain, StartMissing, At, roomVars, Apart, Still
  <2>4. CASE StartRebuild(p) \/ StartTake(p) \/ StartStart(p)
    BY <1>1, <1>2, <1>4, <1>6, <1>7, <2>4
       DEF StartRebuild, StartTake, StartStart, At, roomVars, Apart, Still
  <2>5. CASE StartGiveUp(p) \/ StartCreate(p)
    BY <1>1, <1>2, <1>4, <1>6, <1>7, <2>5
       DEF StartGiveUp, StartCreate, At, roomVars, Apart, Still
  <2>6. CASE StartNoImage(p)
    BY <1>2, <1>5, <2>6 DEF StartNoImage, runnerVars, cacheVars, roomVars, Apart, Still
  <2>7. CASE StartReady(p)
    BY <1>1, <1>2, <1>5, <2>7 DEF StartReady, AsksReady, ServerUp, roomVars, Apart, Still
  <2> QED BY <1>10, <2>1, <2>2, <2>3, <2>4, <2>5, <2>6, <2>7 DEF StartStep
<1>11. CASE RoomStep(p)
  <2>1. CASE RoomList(p)
    BY <1>1, <1>5, <1>7, <2>1 DEF RoomList, runnerVars, cacheVars, Apart, Still
  <2>2. CASE RoomLoad(p)
    <3>1. Still
      BY <1>7, <2>2 DEF RoomLoad, runnerVars, cacheVars, Still
    <3> QED BY <1>1, <2>2, <3>1 DEF RoomLoad, roomVars, Apart, Still
  <2>3. CASE RoomOwner(p)
    <3> DEFINE n == Oldest(names[p])
    <3>1. n \in names[p]
      BY <1>7, <2>3, OldestIn DEF RoomOwner
    <3>2. n.name \in Targets
      BY <1>7, <3>1
    <3>3. \E v : LooksForOwner(p, n.name, v)
      BY <2>3 DEF RoomOwner
    <3>4. Still
      BY <1>3, <3>2, <3>3
    <3>5. up'[q] = up[q] /\ names'[q] = names[q]
      BY <1>7, <2>3 DEF RoomOwner
    <3> QED BY <2>3, <3>4, <3>5 DEF RoomOwner, Apart, Still
  <2>4. CASE RoomMade(p) \/ RoomRefused(p)
    BY <1>1, <1>2, <1>5, <1>7, <2>4 DEF RoomMade, RoomRefused, runnerVars, cacheVars, Apart, Still
  <2>5. CASE RoomEvict(p)
    <3> DEFINE h == Oldest(Evictable(p))
    <3>1. h \in up[p]
      BY <2>5, EvicteeIn
    <3>2. h.name \in Targets
      BY <1>7, <3>1
    <3>3. \E o : RunsCommand(p, h.name, o)
      BY <2>5 DEF RoomEvict
    <3>4. Still
      BY <1>4, <3>2, <3>3
    <3>5. up'[q] = up[q]
      BY <1>7, <2>5 DEF RoomEvict
    <3> QED BY <2>5, <3>4, <3>5 DEF RoomEvict, Apart, Still
  <2> QED BY <1>11, <2>1, <2>2, <2>3, <2>4, <2>5 DEF RoomStep
<1>12. CASE StopLook(p) \/ RemoveOwner(p) \/ RemoveRunning(p)
  BY <1>1, <1>2, <1>3, <1>6, <1>7, <1>12
     DEF StopLook, RemoveOwner, RemoveRunning, At, roomVars, Apart, Still
<1>13. CASE RemoveExists(p) \/ TestWasUp(p) \/ TestOwner(p)
  BY <1>1, <1>2, <1>3, <1>6, <1>7, <1>13
     DEF RemoveExists, TestWasUp, TestOwner, At, roomVars, Apart, Still
<1>14. CASE StopStop(p) \/ RemoveRm(p) \/ TestCleanup(p)
  BY <1>1, <1>2, <1>4, <1>5, <1>6, <1>7, <1>14
     DEF StopStop, RemoveRm, TestCleanup, At, roomVars, runnerVars, cacheVars, Apart, Still
<1> QED BY <1>8, <1>9, <1>10, <1>11, <1>12, <1>13, <1>14 DEF Step

LEMMA ApartKeeps ==
    ASSUME IInv, NEW q \in Procs, Apart(q)
    PROVE  /\ (pc[q] \notin {"remember", "done"} => Knows(q)) =>
                 (pc[q] \notin {"remember", "done"} => Knows(q))'
           /\ Hears(q) => Hears(q)'
<1>1. ASSUME pc[q] \notin {"remember", "done"}, Knows(q) PROVE Knows(q)'
  <2>1. Target(q) \in Targets /\ Target(q)' = Target(q)
    BY <1>1, TargetType DEF IInv, Apart, Target
  <2>2. ~stale'[q][Target(q)] => ~stale[q][Target(q)] /\ cont'[Target(q)] = cont[Target(q)]
    BY <2>1 DEF Apart
  <2> QED BY <1>1, <2>1, <2>2 DEF Apart, Knows, Running
<1>2. ASSUME Hears(q) PROVE Hears(q)'
  <2>1. \A h \in up[q] : h.name \in Targets
    BY DEF IInv, Other, RoomOK, Containers
  <2> QED BY <1>2, <2>1 DEF Apart, Hears
<1> QED BY <1>1, <1>2 DEF Apart

LEMMA ElsewhereKnows ==
    ASSUME NEW p \in Procs, pc'[p] \notin Read \cup Decided \cup SawDown
    PROVE  Knows(p)'
  BY DEF Knows

\* The labels that a target begins at are none of those.
LEMMA NextTargetKnows ==
    ASSUME IInv, NEW p \in Procs, pc[p] \notin {"remember", "done"}, NextTarget(p)
    PROVE  pc'[p] \notin Read \cup Decided \cup SawDown \cup {"room.owner"}
<1>1. pc'[p] = "done" \/ pc'[p] = Entry(cmd[p].name, Head(Tail(todo[p])))
  BY DEF NextTarget, IInv, ControlOK
<1>2. cmd[p].name \in {"start", "stop", "remove", "test"}
  BY DEF IInv, Other, CommandLine, Commands
<1>3. \A t : StartEntry(t) \in {"start.exists", "start.owner"}
  BY DEF StartEntry
<1>4. \A t : Entry(cmd[p].name, t) \in
                {"start.exists", "start.owner", "stop.look", "remove.owner", "test.wasup"}
  BY <1>2, <1>3 DEF Entry
<1> QED BY <1>1, <1>4 DEF Read, Decided, SawDown

LEMMA GotoTells ==
    ASSUME IInv, NEW p \in Procs, NEW label, Goto(p, label)
    PROVE  pc'[p] = label /\ Target(p)' = Target(p)
  BY DEF Goto, IInv, ControlOK, Target

\* A step that leaves what makeRoom holds alone, which is nothing outside it.
LEMMA HearsKept ==
    ASSUME NEW p \in Procs, Hears(p), pc[p] # "room.owner",
           names'[p] = names[p], up'[p] = up[p]
    PROVE  Hears(p)'
  BY DEF Hears

\* doStart keeps what the process knows.
LEMMA StartKnows ==
    ASSUME IInv, "inspect" \notin Faults, NEW p \in Procs, Knows(p), Hears(p), StartStep(p)
    PROVE  Knows(p)' /\ Hears(p)'
<1>1. pc[p] \notin {"remember", "done", "room.owner"}
  BY DEF StartStep, StartExists, StartOwner, StartPorts, StartClaimable, StartRebuild,
     StartRunning, StartClaim, StartTake, StartNoImage, StartAgain, StartStart, StartGiveUp,
     StartMissing, StartCreate, StartReady, At
<1>2. Target(p) \in Targets /\ owner \in [Procs -> Whose]
  BY <1>1, TargetType DEF IInv, Other, LocalOK
<1>3. Hears(p)'
  <2>1. names'[p] = names[p] /\ up'[p] = up[p]
    BY DEF StartStep, StartExists, StartOwner, StartPorts, StartClaimable, StartRebuild,
       StartRunning, StartClaim, StartTake, StartNoImage, StartAgain, StartStart,
       StartGiveUp, StartMissing, StartCreate, StartReady, roomVars
  <2> QED BY <1>1, <2>1, HearsKept
<1> SUFFICES Knows(p)'
  BY <1>3
<1>4. NextTarget(p) => Knows(p)'
  BY <1>1, NextTargetKnows, ElsewhereKnows
<1>5. \A label : Goto(p, label) /\ label \notin Read \cup Decided \cup SawDown => Knows(p)'
  BY GotoTells, ElsewhereKnows
<1> USE DEF Read, Decided, SawDown
<1>6. CASE StartExists(p) \/ StartAgain(p) \/ StartMissing(p)
  BY <1>4, <1>5, <1>6 DEF StartExists, StartAgain, StartMissing
<1>7. CASE StartRebuild(p) \/ StartTake(p) \/ StartGiveUp(p) \/ StartCreate(p)
  BY <1>4, <1>5, <1>7 DEF StartRebuild, StartTake, StartGiveUp, StartCreate
<1>8. CASE StartNoImage(p) \/ StartReady(p)
  BY <1>4, <1>5, <1>8 DEF StartNoImage, StartReady, ServerUp
<1>9. CASE StartOwner(p)
  <2>1. PICK v : LooksForOwner(p, Target(p), v) /\ owner' = [owner EXCEPT ![p] = OwnerIn(v)]
    BY <1>9 DEF StartOwner
  <2>2. pc'[p] = "start.ports" /\ Target(p)' = Target(p)
    BY <1>9, GotoTells DEF StartOwner
  <2>3. cont' = cont /\ (~stale'[p][Target(p)] => v = cont[Target(p)])
    BY <1>2, <2>1, LooksTell
  <2> QED BY <1>2, <2>1, <2>2, <2>3 DEF Knows
<1>10. CASE StartPorts(p)
  <2>1. PICK v : /\ LooksOnly(p, Target(p), v)
                 /\ Goto(p, IF v # Absent /\ ~v.ports THEN "start.claimable" ELSE "start.running")
    BY <1>10 DEF StartPorts
  <2>2. cont' = cont /\ stale' = stale /\ owner' = owner
    BY <1>2, <1>10, <2>1, LooksTell DEF StartPorts
  <2>3. pc'[p] \in {"start.claimable", "start.running"} /\ Target(p)' = Target(p)
    BY <2>1, GotoTells
  <2> QED BY <1>10, <2>2, <2>3 DEF StartPorts, At, Knows
<1>11. CASE StartClaimable(p)
  <2>1. PICK v : /\ LooksOnly(p, Target(p), v)
                 /\ IF /\ Claimable(Target(p), owner[p], Me(p), cmd[p].force, IsUp(v))
                       /\ Target(p) \in Containers
                    THEN Goto(p, "start.rebuild")
                    ELSE NextTarget(p)
    BY <1>11 DEF StartClaimable
  <2>2. cont' = cont /\ stale' = stale /\ (~stale'[p][Target(p)] => v = cont[Target(p)])
    BY <1>2, <2>1, LooksTell
  <2>3. CASE /\ Claimable(Target(p), owner[p], Me(p), cmd[p].force, IsUp(v))
             /\ Goto(p, "start.rebuild")
    <3>1. pc'[p] = "start.rebuild" /\ Target(p)' = Target(p) /\ cmd' = cmd
      BY <1>11, <2>3, GotoTells DEF StartClaimable
    <3>2. ~stale[p][Target(p)] =>
             /\ v = cont[Target(p)]
             /\ owner[p] = OwnerIn(cont[Target(p)])
      BY <1>11, <2>2 DEF StartClaimable, At, Knows
    <3> QED BY <2>2, <2>3, <3>1, <3>2 DEF Claimable, Knows, Running
  <2> QED BY <1>4, <2>1, <2>3
<1>12. CASE StartRunning(p)
  <2>1. PICK v : /\ LooksOnly(p, Target(p), v)
                 /\ Goto(p, IF IsUp(v) THEN "start.ready" ELSE "start.claim")
    BY <1>12 DEF StartRunning
  <2>2. cont' = cont /\ (~stale'[p][Target(p)] => v = cont[Target(p)])
    BY <1>2, <2>1, LooksTell
  <2>3. Target(p)' = Target(p) /\ pc'[p] = IF IsUp(v) THEN "start.ready" ELSE "start.claim"
    BY <2>1, GotoTells
  <2> QED BY <2>2, <2>3 DEF Knows, Running
<1>13. CASE StartClaim(p)
  <2>1. PICK v : /\ LooksOnly(p, Target(p), v)
                 /\ \/ Goto(p, "start.again")
                    \/ NextTarget(p)
                    \/ Goto(p, "start.take")
    BY <1>13 DEF StartClaim
  <2>2. CASE Goto(p, "start.take")
    <3>1. cont' = cont /\ stale' = stale
      BY <1>2, <2>1, LooksTell
    <3>2. pc'[p] = "start.take" /\ Target(p)' = Target(p)
      BY <2>2, GotoTells
    <3> QED BY <1>13, <3>1, <3>2 DEF StartClaim, At, Knows, Running
  <2> QED BY <1>4, <1>5, <2>1, <2>2
<1>14. CASE StartStart(p)
  <2>1. PICK o \in StartOutcomes(Target(p)) :
          /\ RunsCommand(p, Target(p), o)
          /\ IF o.ok THEN Goto(p, "start.missing")
             ELSE IF Target(p) \in Machines THEN NextTarget(p)
             ELSE Goto(p, "start.giveup")
    BY <1>14 DEF StartStart
  <2>2. CASE ~o.ok /\ Goto(p, "start.giveup")
    <3>1. o.to = cont[Target(p)] /\ ~Running(Target(p))
      BY <2>1, <2>2 DEF StartOutcomes, Outcome, MayFail, Running, IsUp
    <3>2. cont' = [cont EXCEPT ![Target(p)] = o.to] /\ cont \in [Targets -> Found]
      BY <1>2, <2>1, RunsCommandTells DEF IInv, Cache, RunnerOK
    <3>3. cont'[Target(p)] = cont[Target(p)]
      BY <1>2, <3>1, <3>2
    <3>4. pc'[p] = "start.giveup" /\ Target(p)' = Target(p)
      BY <2>2, GotoTells
    <3> QED BY <3>1, <3>3, <3>4 DEF Knows, Running
  <2> QED BY <1>4, <1>5, <2>1, <2>2
<1> QED BY <1>6, <1>7, <1>8, <1>9, <1>10, <1>11, <1>12, <1>13, <1>14 DEF StartStep

\* doStop, doRemove and doTest keep what the process knows.
LEMMA CommandKnows ==
    ASSUME IInv, "inspect" \notin Faults, NEW p \in Procs, Knows(p), Hears(p),
           \/ StopLook(p) \/ StopStop(p)
           \/ RemoveOwner(p) \/ RemoveRunning(p) \/ RemoveExists(p) \/ RemoveRm(p)
           \/ TestWasUp(p) \/ TestOwner(p) \/ TestCleanup(p)
    PROVE  Knows(p)' /\ Hears(p)'
<1>1. pc[p] \notin {"remember", "done", "room.owner"}
  BY DEF StopLook, StopStop, RemoveOwner, RemoveRunning, RemoveExists, RemoveRm, TestWasUp,
     TestOwner, TestCleanup, At
<1>2. Target(p) \in Targets /\ owner \in [Procs -> Whose]
  BY <1>1, TargetType DEF IInv, Other, LocalOK
<1>3. Hears(p)'
  <2>1. names'[p] = names[p] /\ up'[p] = up[p]
    BY DEF StopLook, StopStop, RemoveOwner, RemoveRunning, RemoveExists, RemoveRm,
       TestWasUp, TestOwner, TestCleanup, roomVars
  <2> QED BY <1>1, <2>1, HearsKept
<1> SUFFICES Knows(p)'
  BY <1>3
<1>4. NextTarget(p) => Knows(p)'
  BY <1>1, NextTargetKnows, ElsewhereKnows
<1>5. \A label : Goto(p, label) /\ label \notin Read \cup Decided \cup SawDown => Knows(p)'
  BY GotoTells, ElsewhereKnows
<1> USE DEF Read, Decided, SawDown
<1>6. CASE StopStop(p) \/ RemoveRm(p) \/ TestCleanup(p)
  BY <1>4, <1>6 DEF StopStop, RemoveRm, TestCleanup
<1>7. CASE TestWasUp(p)
  BY <1>5, <1>7 DEF TestWasUp, StartEntry
<1>8. CASE StopLook(p)
  <2>1. PICK v : /\ LooksForOwner(p, Target(p), v)
                 /\ IF IsUp(v) /\ MayTouch(OwnerIn(v), Me(p), cmd[p].force)
                    THEN Goto(p, "stop.stop") ELSE NextTarget(p)
    BY <1>8 DEF StopLook
  <2>2. CASE MayTouch(OwnerIn(v), Me(p), cmd[p].force) /\ Goto(p, "stop.stop")
    <3>1. cont' = cont /\ cmd' = cmd /\ (~stale'[p][Target(p)] => v = cont[Target(p)])
      BY <1>2, <1>8, <2>1, LooksTell DEF StopLook
    <3>2. pc'[p] = "stop.stop" /\ Target(p)' = Target(p)
      BY <2>2, GotoTells
    <3> QED BY <2>2, <3>1, <3>2 DEF Knows
  <2> QED BY <1>4, <2>1, <2>2
<1>9. CASE RemoveOwner(p) \/ TestOwner(p)
  <2>1. PICK v : LooksForOwner(p, Target(p), v) /\ owner' = [owner EXCEPT ![p] = OwnerIn(v)]
    BY <1>9 DEF RemoveOwner, TestOwner
  <2>2. pc'[p] \in {"remove.running", "test.cleanup"} /\ Target(p)' = Target(p)
    BY <1>9, GotoTells DEF RemoveOwner, TestOwner
  <2>3. cont' = cont /\ (~stale'[p][Target(p)] => v = cont[Target(p)])
    BY <1>2, <2>1, LooksTell
  <2> QED BY <1>2, <2>1, <2>2, <2>3 DEF Knows
<1>10. CASE RemoveRunning(p)
  <2>1. PICK v : /\ LooksOnly(p, Target(p), v)
                 /\ IF Claimable(Target(p), owner[p], Me(p), cmd[p].force, IsUp(v))
                    THEN Goto(p, "remove.exists") ELSE NextTarget(p)
    BY <1>10 DEF RemoveRunning
  <2>2. cont' = cont /\ stale' = stale /\ (~stale'[p][Target(p)] => v = cont[Target(p)])
    BY <1>2, <2>1, LooksTell
  <2>3. CASE /\ Claimable(Target(p), owner[p], Me(p), cmd[p].force, IsUp(v))
             /\ Goto(p, "remove.exists")
    <3>1. pc'[p] = "remove.exists" /\ Target(p)' = Target(p) /\ cmd' = cmd
      BY <1>10, <2>3, GotoTells DEF RemoveRunning
    <3>2. ~stale[p][Target(p)] =>
             /\ v = cont[Target(p)]
             /\ owner[p] = OwnerIn(cont[Target(p)])
      BY <1>10, <2>2 DEF RemoveRunning, At, Knows
    <3> QED BY <2>2, <2>3, <3>1, <3>2 DEF Claimable, Knows, Running
  <2> QED BY <1>4, <2>1, <2>3
<1>11. CASE RemoveExists(p)
  <2>1. PICK v : LooksOnly(p, Target(p), v) /\ (Goto(p, "remove.rm") \/ NextTarget(p))
    BY <1>11 DEF RemoveExists
  <2>2. CASE Goto(p, "remove.rm")
    <3>1. cont' = cont /\ stale' = stale /\ cmd' = cmd
      BY <1>2, <1>11, <2>1, LooksTell DEF RemoveExists
    <3>2. pc'[p] = "remove.rm" /\ Target(p)' = Target(p)
      BY <2>2, GotoTells
    <3> QED BY <1>11, <3>1, <3>2 DEF RemoveExists, At, Knows, Running
  <2> QED BY <1>4, <2>1, <2>2
<1> QED BY <1>6, <1>7, <1>8, <1>9, <1>10, <1>11

\* makeRoom keeps what the process knows.
LEMMA RoomKnows ==
    ASSUME IInv, "inspect" \notin Faults, NEW p \in Procs, Knows(p), Hears(p), RoomStep(p)
    PROVE  Knows(p)' /\ Hears(p)'
<1>1. pc[p] \in {"room.list", "room.load", "room.owner"}
  BY DEF RoomStep, RoomList, RoomLoad, RoomOwner, RoomMade, RoomEvict, RoomRefused, At
<1>2. /\ names \in [Procs -> SUBSET [name : Containers, rank : Nat]]
      /\ up \in [Procs -> SUBSET [name : Containers, owner : Whose, rank : Nat]]
      /\ after \in [Procs -> {"start.start", "start.create"}]
      /\ Containers \subseteq Targets
  BY DEF IInv, Other, RoomOK, Containers
<1>3. NextTarget(p) => pc'[p] \notin Read \cup Decided \cup SawDown \cup {"room.owner"}
  BY <1>1, NextTargetKnows
<1>4. CASE RoomList(p)
  <2>1. pc'[p] = "room.load"
    BY <1>4, GotoTells DEF RoomList
  <2>2. up'[p] = {}
    BY <1>2, <1>4 DEF RoomList
  <2>3. \A n, m \in names'[p] : n.name = m.name => n = m
    <3> DEFINE rank(t) == Cardinality({ o \in older : o[2] = t })
    <3>1. \/ names' = [names EXCEPT ![p] = {}]
          \/ names' = [names EXCEPT ![p] =
                { [name |-> t, rank |-> rank(t)] :
                     t \in { u \in Containers \ {Target(p)} : Running(u) } }]
      BY <1>4 DEF RoomList
    <3> HIDE DEF rank
    <3> QED BY <1>2, <3>1
  <2> QED BY <2>1, <2>2, <2>3, ElsewhereKnows DEF Hears, Read, Decided, SawDown
<1>5. CASE RoomLoad(p)
  <2>1. pc'[p] = "room.owner"
    BY <1>5, GotoTells DEF RoomLoad
  <2>2. up'[p] = {} /\ names'[p] = names[p]
    BY <1>5 DEF RoomLoad, roomVars, Hears, At
  <2> QED BY <2>1, <2>2, ElsewhereKnows DEF Hears, Read, Decided, SawDown
<1>6. CASE RoomMade(p) \/ RoomRefused(p)
  <2>1. pc'[p] \notin Read \cup Decided \cup SawDown
    <3>1. CASE RoomMade(p)
      BY <1>2, <3>1, GotoTells DEF RoomMade, Read, Decided, SawDown
    <3>2. CASE RoomRefused(p)
      BY <1>3, <3>2 DEF RoomRefused
    <3> QED BY <1>6, <3>1, <3>2
  <2>2. up'[p] = {} /\ names'[p] = names[p]
    BY <1>2, <1>6 DEF RoomMade, RoomRefused
  <2> QED BY <2>1, <2>2, ElsewhereKnows DEF Hears
<1>7. CASE RoomOwner(p)
  <2> DEFINE n == Oldest(names[p])
  <2>1. n \in names[p]
    BY <1>2, <1>7, OldestIn DEF RoomOwner
  <2>2. n.name \in Targets
    BY <1>2, <2>1
  <2>3. PICK v : /\ LooksForOwner(p, n.name, v)
                 /\ up' = [up EXCEPT ![p] =
                        up[p] \cup {[name |-> n.name, owner |-> OwnerIn(v), rank |-> n.rank]}]
    BY <1>7 DEF RoomOwner
  <2>4. names'[p] = names[p] \ {n} /\ pc'[p] = "room.owner"
    BY <1>2, <1>7 DEF RoomOwner, At
  <2> DEFINE new == [name |-> n.name, owner |-> OwnerIn(v), rank |-> n.rank]
  <2>5. up'[p] = up[p] \cup {new} /\ new.name = n.name /\ new.owner = OwnerIn(v)
    BY <1>2, <2>3
  <2> HIDE DEF n, new
  <2>6. /\ cont' = cont
        /\ ~stale'[p][n.name] => v = cont[n.name]
        /\ \A u \in Targets \ {n.name} : stale'[p][u] = stale[p][u]
    BY <2>2, <2>3, LooksTell
  <2>7. \A k \in names'[p], h \in up'[p] : k.name # h.name
    BY <2>1, <2>4, <2>5 DEF Hears
  <2>8. ASSUME NEW h \in up'[p], cont'[h.name] # Absent, ~stale'[p][h.name]
        PROVE  cont'[h.name].owner = h.owner
    <3>1. CASE h = new
      BY <2>5, <2>6, <2>8, <3>1 DEF OwnerIn
    <3>2. CASE h \in up[p]
      <4>1. h.name \in Targets /\ h.name # n.name
        BY <1>2, <2>1, <3>2 DEF Hears
      <4> QED BY <2>6, <2>8, <3>2, <4>1 DEF Hears
    <3> QED BY <2>5, <3>1, <3>2
  <2> QED BY <2>4, <2>7, <2>8, ElsewhereKnows DEF Hears, Read, Decided, SawDown
<1>8. CASE RoomEvict(p)
  <2> DEFINE h == Oldest(Evictable(p))
  <2>1. h \in up[p]
    BY <1>8, EvicteeIn
  <2>2. h.name \in Targets
    BY <1>2, <2>1
  <2>3. PICK o \in StopOutcomes(h.name) : RunsCommand(p, h.name, o)
    BY <1>8 DEF RoomEvict
  <2>4. up'[p] = up[p] \ {h} /\ names'[p] = names[p] /\ names[p] = {} /\ pc'[p] = "room.owner"
    BY <1>2, <1>8 DEF RoomEvict, At
  <2> HIDE DEF h
  <2>5. /\ cont' = [cont EXCEPT ![h.name] = o.to] /\ cont \in [Targets -> Found]
        /\ stale'[p] = stale[p]
    BY <2>2, <2>3, RunsCommandTells DEF IInv, Cache, RunnerOK
  <2>6. o.to # Absent => cont[h.name] # Absent /\ o.to.owner = cont[h.name].owner
    <3>1. cont[h.name] = Absent => o.to = Absent
      BY <2>3, OutcomeTo DEF StopOutcomes
    <3>2. ASSUME cont[h.name] # Absent PROVE o.to.owner = cont[h.name].owner
      <4> DEFINE c == [cont[h.name] EXCEPT !.running = FALSE]
      <4>1. o \in {Outcome(TRUE, c), Outcome(FALSE, cont[h.name])}
        BY <2>3, <3>2 DEF StopOutcomes, MayFail
      <4>2. c.owner = cont[h.name].owner
        <5>1. cont[h.name] \in Container
          BY <2>2, <2>5, <3>2 DEF Found
        <5> QED BY <5>1 DEF Container
      <4> HIDE DEF c
      <4> QED BY <4>1, <4>2, OutcomeTo
    <3> QED BY <3>1, <3>2
  <2>7. ASSUME NEW g \in up'[p], cont'[g.name] # Absent, ~stale'[p][g.name]
        PROVE  cont'[g.name].owner = g.owner
    <3>1. g \in up[p] /\ g.name \in Targets
      BY <1>2, <2>4
    <3> QED BY <2>2, <2>5, <2>6, <2>7, <3>1 DEF Hears
  <2> QED BY <2>4, <2>7, ElsewhereKnows DEF Hears, Read, Decided, SawDown
<1> QED BY <1>4, <1>5, <1>6, <1>7, <1>8 DEF RoomStep

\* A command begins with nothing known.
LEMMA RememberKnows ==
    ASSUME IInv, NEW p \in Procs, Hears(p), Remember(p) \/ RememberFails(p)
    PROVE  Knows(p)' /\ Hears(p)'
<1>1. pc[p] = "remember" /\ names'[p] = names[p] /\ up'[p] = up[p]
  BY DEF Remember, RememberFails, At, roomVars
<1>2. Hears(p)'
  BY <1>1, HearsKept
<1>3. pc'[p] = "done" \/ pc'[p] = Entry(cmd[p].name, Target(p))
  <2>1. pc \in [Procs -> Labels]
    BY DEF IInv, ControlOK
  <2> QED BY <2>1 DEF Remember, RememberFails, Goto
<1>4. cmd[p].name \in {"start", "stop", "remove", "test"}
  BY DEF IInv, Other, CommandLine, Commands
<1>5. Entry(cmd[p].name, Target(p)) \in
         {"start.exists", "start.owner", "stop.look", "remove.owner", "test.wasup"}
  BY <1>4 DEF Entry, StartEntry
<1>6. pc'[p] \notin Read \cup Decided \cup SawDown
  BY <1>3, <1>5 DEF Read, Decided, SawDown
<1> QED BY <1>2, <1>6, ElsewhereKnows

\* A server that stops by itself is nobody's step.
LEMMA ExitApart ==
    ASSUME IInv, NEW t \in Targets, Exit(t), NEW q \in Procs
    PROVE  Apart(q)
<1>1. cont' = [cont EXCEPT ![t] = [cont[t] EXCEPT !.running = FALSE]]
  BY DEF Exit, Becomes
<1>2. stale' = [r \in Procs |-> [stale[r] EXCEPT ![t] = stale[r][t] \/ r \in Procs]]
  BY DEF Exit, MarkStale
<1>3. \A u \in Targets : ~stale'[q][u] => ~stale[q][u] /\ u # t
  BY <1>2 DEF IInv, Cache, StaleOK
<1>4. \A u \in Targets \ {t} : cont'[u] = cont[u]
  BY <1>1 DEF IInv, Cache, RunnerOK
<1> QED BY <1>3, <1>4 DEF Exit, roomVars, Apart

KnowInv == IInv /\ Knowing /\ Hearing

LEMMA KnowNext == "inspect" \notin Faults /\ KnowInv /\ [Next]_vars => KnowInv'
<1> SUFFICES ASSUME "inspect" \notin Faults, KnowInv, [Next]_vars PROVE KnowInv'
  OBVIOUS
<1>1. IInv /\ IInv'
  BY NextKeeps DEF KnowInv
<1> DEFINE Known(q) == (pc[q] \notin {"remember", "done"} => Knows(q)) /\ Hears(q)
<1>2. \A q \in Procs : Known(q)
  BY DEF KnowInv, Knowing, Hearing
<1>3. \A q \in Procs : Apart(q) => Known(q)'
  BY <1>1, <1>2, ApartKeeps
<1>4. ASSUME NEW p \in Procs, Step(p), NEW q \in Procs PROVE Known(q)'
  <2>1. CASE q # p
    BY <1>1, <1>3, <1>4, <2>1, StepApart
  <2>2. CASE q = p
    <3>1. CASE Remember(p) \/ RememberFails(p)
      BY <1>1, <1>2, <2>2, <3>1, RememberKnows
    <3>2. CASE StartStep(p)
      <4>1. pc[p] \notin {"remember", "done"}
        BY <3>2 DEF StartStep, StartExists, StartOwner, StartPorts, StartClaimable,
           StartRebuild, StartRunning, StartClaim, StartTake, StartNoImage, StartAgain,
           StartStart, StartGiveUp, StartMissing, StartCreate, StartReady, At
      <4> QED BY <1>1, <1>2, <2>2, <3>2, <4>1, StartKnows
    <3>3. CASE RoomStep(p)
      <4>1. pc[p] \notin {"remember", "done"}
        BY <3>3 DEF RoomStep, RoomList, RoomLoad, RoomOwner, RoomMade, RoomEvict, RoomRefused, At
      <4> QED BY <1>1, <1>2, <2>2, <3>3, <4>1, RoomKnows
    <3>4. CASE \/ StopLook(p) \/ StopStop(p)
               \/ RemoveOwner(p) \/ RemoveRunning(p) \/ RemoveExists(p) \/ RemoveRm(p)
               \/ TestWasUp(p) \/ TestOwner(p) \/ TestCleanup(p)
      <4>1. pc[p] \notin {"remember", "done"}
        BY <3>4 DEF StopLook, StopStop, RemoveOwner, RemoveRunning, RemoveExists,
           RemoveRm, TestWasUp, TestOwner, TestCleanup, At
      <4> QED BY <1>1, <1>2, <2>2, <3>4, <4>1, CommandKnows
    <3> QED BY <1>4, <3>1, <3>2, <3>3, <3>4 DEF Step
  <2> QED BY <2>1, <2>2
<1>5. ASSUME NEW t \in Targets, Exit(t), NEW q \in Procs PROVE Known(q)'
  BY <1>1, <1>3, <1>5, ExitApart
<1>6. ASSUME UNCHANGED vars, NEW q \in Procs PROVE Known(q)'
  BY <1>2, <1>6 DEF vars, Knows, Hears, Target, Running
<1>7. \A q \in Procs : Known(q)'
  BY <1>4, <1>5, <1>6 DEF Next
<1> QED BY <1>1, <1>7 DEF KnowInv, Knowing, Hearing

LEMMA KnowInit == Init => KnowInv
<1> SUFFICES ASSUME Init PROVE KnowInv
  OBVIOUS
<1>1. \A p \in Procs : pc[p] = "remember" /\ names[p] = {} /\ up[p] = {}
  BY DEF Init
<1> QED BY <1>1, InvInit DEF KnowInv, Knowing, Hearing, Hears

\* What a process takes down, it was right to, or somebody changed it since.
LEMMA StepRightly ==
    ASSUME "inspect" \notin Faults, KnowInv, NEW p \in Procs, Step(p), NEW t \in Targets,
           TakesDown(t), NotToTakeDown(p, t)
    PROVE  stale[p][t]
<1> SUFFICES ASSUME ~stale[p][t] PROVE FALSE
  OBVIOUS
<1>1. IInv /\ cont \in [Targets -> Found] /\ Hears(p)
  BY DEF KnowInv, Hearing, IInv, Cache, RunnerOK
<1>2. pc[p] \notin {"remember", "done"} => Target(p) \in Targets /\ Knows(p)
  BY <1>1, TargetType DEF KnowInv, Knowing, IInv
<1>3. Running(t) /\ ~IsUp(cont'[t]) /\ cont' # cont
  BY DEF TakesDown, Running
<1>4. \A u \in Targets : \A o : RunsCommand(p, u, o) => u = t /\ cont'[t] = o.to
  <2> SUFFICES ASSUME NEW u \in Targets, NEW o, RunsCommand(p, u, o) PROVE u = t /\ cont'[t] = o.to
    OBVIOUS
  <2>1. cont' = [cont EXCEPT ![u] = o.to]
    BY <1>1, RunsCommandTells
  <2> QED BY <1>1, <1>3, <2>1 DEF Running
<1>5. \A u \in Targets : \A v : ~LooksOnly(p, u, v) /\ ~LooksForOwner(p, u, v)
  BY <1>1, <1>3, LooksTell
<1>6. MayTouch(OwnerIn(cont[t]), Me(p), cmd[p].force) => ~Foreign(p, t)
  BY <1>3 DEF MayTouch, OwnerIn, Foreign, Running, IsUp
<1>7. CASE StartRebuild(p) \/ StopStop(p) \/ RemoveRm(p)
  <2>1. pc[p] \in Decided /\ Target(p) = t
    BY <1>2, <1>4, <1>7 DEF StartRebuild, StopStop, RemoveRm, At, Decided
  <2>2. ~Foreign(p, t)
    BY <1>2, <1>3, <1>6, <2>1 DEF Knows, Decided
  <2> QED BY <2>1, <2>2 DEF NotToTakeDown, Decided, At
<1>8. CASE StartTake(p) \/ StartGiveUp(p)
  <2>1. pc[p] \in SawDown /\ Target(p) = t
    BY <1>2, <1>4, <1>8 DEF StartTake, StartGiveUp, At, SawDown
  <2> QED BY <1>2, <1>3, <2>1 DEF Knows, SawDown
<1>9. CASE StartStart(p)
  <2>1. PICK o \in StartOutcomes(Target(p)) : RunsCommand(p, Target(p), o)
    BY <1>9 DEF StartStart
  <2>2. Target(p) = t /\ cont'[t] = o.to
    BY <1>2, <1>4, <1>9, <2>1 DEF StartStart, At
  <2> DEFINE c == [cont[t] EXCEPT !.running = TRUE]
  <2>3. IsUp(c)
    <3>1. cont[t] \in Container
      BY <1>1, <1>3 DEF Found, Running, IsUp
    <3>2. c \in Container /\ c.running = TRUE
      BY <3>1 DEF Container
    <3> HIDE DEF c
    <3> QED BY <3>2, ServersAssumption DEF IsUp
  <2>4. o = Outcome(TRUE, c)
    BY <1>3, <2>1, <2>2 DEF StartOutcomes, Running, IsUp
  <2> HIDE DEF c
  <2> QED BY <1>3, <2>2, <2>3, <2>4, OutcomeTo
<1>10. CASE StartCreate(p)
  <2>1. PICK o \in RunOutcomes(p, Target(p)) : RunsCommand(p, Target(p), o)
    BY <1>10 DEF StartCreate
  <2>2. Target(p) = t /\ cont'[t] = o.to
    BY <1>2, <1>4, <1>10, <2>1 DEF StartCreate, At
  <2>3. o = Outcome(FALSE, cont[t])
    BY <1>3, <2>1, <2>2 DEF RunOutcomes, Running, IsUp
  <2> QED BY <1>3, <2>2, <2>3, OutcomeTo DEF Running
<1>11. CASE RoomEvict(p)
  <2> DEFINE h == Oldest(Evictable(p))
  <2>1. h \in up[p] /\ h \in Evictable(p)
    BY <1>11, <1>1, EvicteeIn
  <2>2. h.name \in Targets
    BY <1>1, <2>1 DEF IInv, Other, RoomOK, Containers
  <2>3. \E o : RunsCommand(p, h.name, o)
    BY <1>11 DEF RoomEvict
  <2> HIDE DEF h
  <2>4. h.name = t
    BY <1>4, <2>2, <2>3
  <2>5. cont[t].owner = h.owner
    BY <1>1, <1>3, <2>1, <2>4 DEF Hears, Running, IsUp
  <2>6. cmd[p].force \/ h.owner = Me(p)
    BY <2>1 DEF Evictable
  <2>7. Me(p) # NoOwner
    BY ServersAssumption DEF Me
  <2>8. ~At(p, "test.cleanup")
    BY <1>11 DEF RoomEvict, At
  <2> QED BY <2>5, <2>6, <2>7, <2>8 DEF NotToTakeDown, Foreign
<1>12. CASE TestCleanup(p)
  <2>1. ~Shared(p) /\ Target(p) = t /\ At(p, "test.cleanup")
    BY <1>2, <1>3, <1>4, <1>12 DEF TestCleanup, runnerVars, At
  <2>2. owner[p] = cont[t].owner
    BY <1>2, <1>3, <2>1 DEF Knows, Read, At, OwnerIn, Running, IsUp
  <2>3. Me(p) # NoOwner
    BY ServersAssumption DEF Me
  <2>4. ~Foreign(p, t)
    BY <2>1, <2>2 DEF Shared, MayTouch, Foreign
  <2>5. wasUp[p] /\ cont[t].owner = NoOwner => cmd[p].force
    BY <2>1, <2>2, <2>3 DEF Shared
  <2> QED BY <2>1, <2>4, <2>5 DEF NotToTakeDown, At
<1>13. CASE \/ StartExists(p) \/ StartOwner(p) \/ StartPorts(p) \/ StartClaimable(p)
            \/ StartRunning(p) \/ StartClaim(p) \/ StartAgain(p) \/ StartMissing(p)
  BY <1>2, <1>5, <1>13
     DEF StartExists, StartOwner, StartPorts, StartClaimable, StartRunning, StartClaim,
         StartAgain, StartMissing, At
<1>14. CASE \/ StopLook(p) \/ RemoveOwner(p) \/ RemoveRunning(p) \/ RemoveExists(p)
            \/ TestWasUp(p) \/ TestOwner(p)
  BY <1>2, <1>5, <1>14
     DEF StopLook, RemoveOwner, RemoveRunning, RemoveExists, TestWasUp, TestOwner, At
<1>15. CASE \/ Remember(p) \/ RememberFails(p) \/ StartNoImage(p) \/ StartReady(p)
            \/ RoomList(p) \/ RoomLoad(p) \/ RoomOwner(p) \/ RoomMade(p) \/ RoomRefused(p)
  <2>1. cont' = cont
    BY <1>15 DEF Remember, RememberFails, StartNoImage, StartReady, AsksReady, RoomList, RoomLoad,
                 RoomOwner, LooksForOwner, Looks, RoomMade, RoomRefused, runnerVars
  <2> QED BY <1>3, <2>1
<1> QED BY <1>7, <1>8, <1>9, <1>10, <1>11, <1>12, <1>13, <1>14, <1>15
        DEF Step, StartStep, RoomStep

\* However many processes and owners share the machine, whatever else fails and
\* whatever stops by itself: while inspect answers, no command of dbrun takes down
\* a running server that it should leave, unless somebody else changed that server
\* after the process asked whose it was (owner.go, commands.go, test.go).
THEOREM ForeignCorrect ==
    ASSUME "inspect" \notin Faults
    PROVE  Spec => ForeignOnlyByRace
<1> DEFINE Rightly ==
      \A p \in Procs, t \in Targets :
          Acts(p) /\ TakesDown(t) /\ NotToTakeDown(p, t) => stale[p][t]
<1>1. Init => KnowInv
  BY KnowInit
<1>2. KnowInv /\ [Next]_vars => KnowInv'
  BY KnowNext
<1>3. KnowInv /\ [Next]_vars => [Rightly]_vars
  <2> SUFFICES ASSUME KnowInv, Next, NEW p \in Procs, NEW t \in Targets,
                      Acts(p), TakesDown(t), NotToTakeDown(p, t)
               PROVE  stale[p][t]
    OBVIOUS
  <2>1. IInv
    BY DEF KnowInv
  <2>2. ASSUME NEW q \in Procs, Step(q) PROVE q = p
    BY <2>1, <2>2, StepApart DEF Apart, Acts
  <2>3. ASSUME NEW u \in Targets, Exit(u) PROVE FALSE
    BY <2>1, <2>3, ExitApart DEF Apart, Acts
  <2> QED BY <2>2, <2>3, StepRightly DEF Next
<1>4. [][Rightly]_vars => ForeignOnlyByRace
  BY DEF ForeignOnlyByRace
<1> HIDE DEF Rightly
<1> QED BY <1>1, <1>2, <1>3, <1>4, PTL DEF Spec

---------------------------------------------------------------------------
(* How many are up. *)

Others(p) == Up \ {Target(p)}

KnownUp(p) == { n.name : n \in names[p] } \cup { h.name : h \in up[p] }

\* What makeRoom has listed and not stopped holds all that is up beside the
\* target, and where the target is about to come up there is a place for it.
Counted(p) ==
    /\ IsFiniteSet(up[p])
    /\ pc[p] \in {"room.load", "room.owner"} => Others(p) \subseteq KnownUp(p)
    /\ pc[p] \in {"start.start", "start.create"} =>
          Target(p) \in Machines \/ Cardinality(Others(p)) < MaxRunning

\* A process that picked no target has none to do.
Busy(p) == cmd[p].picked # <<>>

LimitInv ==
    /\ IInv
    /\ \A p \in Procs : ~Busy(p) => todo[p] = <<>>
    /\ Alone => \A p \in Procs : Busy(p) => Counted(p)

Listens == Faults \cap {"ps", "stop"} = {}

LEMMA NextTargetCounts ==
    ASSUME IInv, NEW p \in Procs, pc[p] \notin {"remember", "done"}, NextTarget(p)
    PROVE  pc'[p] \notin {"room.load", "room.owner", "start.start", "start.create"}
<1>1. pc'[p] = "done" \/ pc'[p] = Entry(cmd[p].name, Head(Tail(todo[p])))
  BY DEF NextTarget, IInv, ControlOK
<1>2. cmd[p].name \in {"start", "stop", "remove", "test"}
  BY DEF IInv, Other, CommandLine, Commands
<1>3. \A t : Entry(cmd[p].name, t) \in
                {"start.exists", "start.owner", "stop.look", "remove.owner", "test.wasup"}
  BY <1>2 DEF Entry, StartEntry
<1> QED BY <1>1, <1>3

LEMMA ElsewhereCounts ==
    ASSUME NEW p \in Procs, IsFiniteSet(up'[p]),
           pc'[p] \notin {"room.load", "room.owner", "start.start", "start.create"}
    PROVE  Counted(p)'
  BY DEF Counted

\* A server that stops gives up its place, whoever had counted it.
LEMMA FewerCounts ==
    ASSUME IInv, NEW p \in Procs, Counted(p), pc[p] \notin {"remember", "done"},
           Apart(p), Up' \subseteq Up
    PROVE  Counted(p)'
<1>1. Target(p)' = Target(p) /\ KnownUp(p)' = KnownUp(p) /\ up'[p] = up[p] /\ pc'[p] = pc[p]
  BY DEF Apart, Target, KnownUp
<1>2. Others(p)' \subseteq Others(p)
  BY <1>1 DEF Others
<1>3. IsFiniteSet(Others(p))
  <2>1. Others(p) \in SUBSET Targets
    BY DEF Others, Up, Containers
  <2> QED BY <2>1, ServersAssumption, FS_Subset
<1>4. /\ Cardinality(Others(p)') <= Cardinality(Others(p))
      /\ Cardinality(Others(p)) \in Nat /\ Cardinality(Others(p)') \in Nat
  BY <1>2, <1>3, FS_Subset, FS_CardinalityType
<1> QED BY <1>1, <1>2, <1>4, ServersAssumption DEF Counted

\* makeRoom counts every server that is up but its target, and leaves a place.
LEMMA RoomCounts ==
    ASSUME IInv, Listens, NEW p \in Procs, Counted(p), RoomStep(p)
    PROVE  Counted(p)'
<1>1. pc[p] \in {"room.list", "room.load", "room.owner"}
  BY DEF RoomStep, RoomList, RoomLoad, RoomOwner, RoomMade, RoomEvict, RoomRefused, At
<1>2. /\ names \in [Procs -> SUBSET [name : Containers, rank : Nat]]
      /\ up \in [Procs -> SUBSET [name : Containers, owner : Whose, rank : Nat]]
      /\ after \in [Procs -> {"start.start", "start.create"}]
      /\ Containers \subseteq Targets
      /\ pc \in [Procs -> Labels] /\ cont \in [Targets -> Found]
  BY DEF IInv, Other, RoomOK, Containers, ControlOK, Cache, RunnerOK
<1>3. cont' = cont => Up' = Up
  BY DEF Up, Running
<1>4. todo' = todo => Target(p)' = Target(p)
  BY DEF Target
<1>5. CASE RoomList(p)
  <2>1. pc'[p] = "room.load" /\ up'[p] = {} /\ Up' = Up /\ Target(p)' = Target(p)
    BY <1>2, <1>3, <1>4, <1>5 DEF RoomList, runnerVars, Goto
  <2> DEFINE rank(t) == Cardinality({ o \in older : o[2] = t })
  <2>2. names'[p] = { [name |-> t, rank |-> rank(t)] :
                         t \in { u \in Containers \ {Target(p)} : Running(u) } }
    BY <1>2, <1>5 DEF RoomList, MayFail, Listens
  <2> HIDE DEF rank
  <2>3. Others(p)' \subseteq KnownUp(p)'
    <3> SUFFICES ASSUME NEW t \in Others(p)' PROVE t \in KnownUp(p)'
      OBVIOUS
    <3>1. [name |-> t, rank |-> rank(t)] \in names'[p]
      BY <2>1, <2>2 DEF Others, Up
    <3>2. [name |-> t, rank |-> rank(t)].name = t
      OBVIOUS
    <3> QED BY <3>1, <3>2 DEF KnownUp
  <2> QED BY <2>1, <2>3, FS_EmptySet DEF Counted
<1>6. CASE RoomLoad(p)
  <2>1. /\ pc'[p] = "room.owner" /\ pc[p] = "room.load"
        /\ up'[p] = up[p] /\ names'[p] = names[p] /\ Up' = Up /\ Target(p)' = Target(p)
    BY <1>2, <1>3, <1>4, <1>6 DEF RoomLoad, roomVars, runnerVars, Goto, At
  <2> QED BY <2>1 DEF Counted, Others, KnownUp
<1>7. CASE RoomOwner(p)
  <2> DEFINE n == Oldest(names[p])
  <2>1. n \in names[p]
    BY <1>2, <1>7, OldestIn DEF RoomOwner
  <2>2. PICK v : /\ LooksForOwner(p, n.name, v)
                 /\ up' = [up EXCEPT ![p] =
                        up[p] \cup {[name |-> n.name, owner |-> OwnerIn(v), rank |-> n.rank]}]
    BY <1>7 DEF RoomOwner
  <2>3. names'[p] = names[p] \ {n} /\ pc'[p] = "room.owner" /\ pc[p] = "room.owner" /\ todo' = todo
    BY <1>2, <1>7 DEF RoomOwner, At
  <2> DEFINE new == [name |-> n.name, owner |-> OwnerIn(v), rank |-> n.rank]
  <2>4. up'[p] = up[p] \cup {new} /\ new.name = n.name
    BY <1>2, <2>2
  <2>5. cont' = cont
    BY <2>2 DEF LooksForOwner, Looks, runnerVars
  <2> HIDE DEF n, new
  <2>6. KnownUp(p) \subseteq KnownUp(p)'
    BY <2>1, <2>3, <2>4 DEF KnownUp
  <2>7. IsFiniteSet(up'[p])
    BY <2>4, FS_AddElement DEF Counted
  <2> QED BY <1>3, <1>4, <2>3, <2>5, <2>6, <2>7 DEF Counted, Others
<1>8. CASE RoomMade(p)
  <2>1. /\ names[p] = {} /\ Cardinality(up[p]) < MaxRunning /\ pc[p] = "room.owner"
        /\ up'[p] = {} /\ cont' = cont /\ todo' = todo
        /\ pc'[p] \in {"start.start", "start.create"}
    BY <1>2, <1>8, FS_EmptySet DEF RoomMade, runnerVars, At, Goto
  <2> DEFINE held == { h.name : h \in up[p] }
  <2>2. Others(p) \in SUBSET held
    BY <2>1 DEF Counted, KnownUp
  <2>3. IsFiniteSet(held) /\ Cardinality(held) <= Cardinality(up[p])
    <3>1. [h \in up[p] |-> h.name] \in Surjection(up[p], held)
      BY Zenon DEF Surjection
    <3> HIDE DEF held
    <3> QED BY <3>1, FS_Surjection DEF Counted
  <2> HIDE DEF held
  <2>4. Cardinality(Others(p)) <= Cardinality(held) /\ IsFiniteSet(Others(p))
    BY <2>2, <2>3, FS_Subset
  <2>5. /\ Cardinality(Others(p)) \in Nat /\ Cardinality(held) \in Nat
        /\ Cardinality(up[p]) \in Nat /\ MaxRunning \in Nat
    BY <2>3, <2>4, FS_CardinalityType, ServersAssumption DEF Counted
  <2>6. Cardinality(Others(p)) < MaxRunning
    BY <2>1, <2>3, <2>4, <2>5
  <2>7. Others(p)' = Others(p)
    BY <1>3, <1>4, <2>1 DEF Others
  <2> QED BY <2>1, <2>6, <2>7, FS_EmptySet DEF Counted
<1>9. CASE RoomEvict(p)
  <2> DEFINE h == Oldest(Evictable(p))
  <2>1. h \in up[p]
    BY <1>9, EvicteeIn
  <2>2. h.name \in Targets
    BY <1>2, <2>1
  <2>3. PICK o \in StopOutcomes(h.name) : RunsCommand(p, h.name, o)
    BY <1>9 DEF RoomEvict
  <2>4. /\ up'[p] = up[p] \ {h} /\ names'[p] = names[p] /\ pc'[p] = "room.owner"
        /\ pc[p] = "room.owner" /\ todo' = todo
    BY <1>2, <1>9 DEF RoomEvict, At
  <2> HIDE DEF h
  <2>5. cont' = [cont EXCEPT ![h.name] = o.to]
    BY <2>2, <2>3, RunsCommandTells
  <2>6. ~IsUp(o.to)
    <3>1. CASE cont[h.name] = Absent
      BY <2>3, <3>1, OutcomeTo DEF StopOutcomes, IsUp
    <3>2. CASE cont[h.name] # Absent
      <4> DEFINE c == [cont[h.name] EXCEPT !.running = FALSE]
      <4>1. o = Outcome(TRUE, c)
        BY <2>3, <3>2 DEF StopOutcomes, MayFail, Listens
      <4>2. c.running = FALSE
        BY <1>2, <2>2, <3>2 DEF Found, Container
      <4> HIDE DEF c
      <4> QED BY <4>1, <4>2, OutcomeTo DEF IsUp
    <3> QED BY <3>1, <3>2
  <2>7. Up' \subseteq Up \ {h.name}
    BY <1>2, <2>2, <2>5, <2>6 DEF Up, Running
  <2>8. KnownUp(p) \ {h.name} \subseteq KnownUp(p)'
    BY <2>4 DEF KnownUp
  <2>9. IsFiniteSet(up'[p])
    BY <2>4, FS_RemoveElement DEF Counted
  <2> QED BY <1>4, <2>4, <2>7, <2>8, <2>9 DEF Counted, Others
<1>10. CASE RoomRefused(p)
  <2>1. up'[p] = {}
    BY <1>2, <1>10 DEF RoomRefused
  <2>2. pc'[p] \notin {"room.load", "room.owner", "start.start", "start.create"}
    BY <1>1, <1>10, NextTargetCounts DEF RoomRefused
  <2> QED BY <2>1, <2>2, FS_EmptySet, ElsewhereCounts
<1> QED BY <1>5, <1>6, <1>7, <1>8, <1>9, <1>10 DEF RoomStep

\* No other step goes where room was made without making it, but for a machine.
LEMMA StepCounts ==
    ASSUME IInv, NEW p \in Procs, Counted(p), Step(p), ~RoomStep(p)
    PROVE  Counted(p)'
<1>1. up'[p] = up[p] /\ IsFiniteSet(up[p])
  BY DEF Counted, Step, RoomStep, StartStep, Remember, RememberFails, StartExists,
     StartOwner, StartPorts, StartClaimable, StartRebuild, StartRunning, StartClaim,
     StartTake, StartNoImage, StartAgain, StartStart, StartGiveUp, StartMissing, StartCreate,
     StartReady, StopLook, StopStop, RemoveOwner, RemoveRunning, RemoveExists, RemoveRm,
     TestWasUp, TestOwner, TestCleanup, roomVars
<1>2. pc[p] \notin {"remember", "done"} /\ NextTarget(p) => Counted(p)'
  BY <1>1, NextTargetCounts, ElsewhereCounts
<1>3. \A label : Goto(p, label) /\ label \notin {"room.load", "room.owner", "start.start", "start.create"}
                    => Counted(p)'
  BY <1>1, GotoTells, ElsewhereCounts
<1>4. CASE Remember(p)
  <2>1. pc'[p] = "done" \/ pc'[p] = Entry(cmd[p].name, Target(p))
    BY <1>4 DEF Remember, IInv, ControlOK
  <2>2. cmd[p].name \in {"start", "stop", "remove", "test"}
    BY DEF IInv, Other, CommandLine, Commands
  <2>3. Entry(cmd[p].name, Target(p)) \in
           {"start.exists", "start.owner", "stop.look", "remove.owner", "test.wasup"}
    BY <2>2 DEF Entry, StartEntry
  <2> QED BY <1>1, <2>1, <2>3, ElsewhereCounts
<1>5. CASE RememberFails(p)
  BY <1>3, <1>5 DEF RememberFails
<1>6. CASE StartExists(p) \/ StartOwner(p) \/ StartPorts(p) \/ StartClaimable(p)
  BY <1>2, <1>3, <1>6 DEF StartExists, StartOwner, StartPorts, StartClaimable, At
<1>7. CASE StartRebuild(p) \/ StartRunning(p) \/ StartClaim(p) \/ StartTake(p)
  BY <1>2, <1>3, <1>7 DEF StartRebuild, StartRunning, StartClaim, StartTake, At
<1>8. CASE StartAgain(p)
  <2>1. \/ Goto(p, "start.missing")
        \/ Goto(p, "room.list")
        \/ Target(p) \notin Containers /\ Goto(p, "start.start")
    BY <1>8 DEF StartAgain
  <2>2. CASE Target(p) \notin Containers /\ Goto(p, "start.start")
    <3>1. Target(p) \in Machines
      BY <1>8, <2>2, TargetType DEF StartAgain, At, Containers, IInv
    <3>2. pc'[p] = "start.start" /\ Target(p)' = Target(p)
      BY <2>2, GotoTells
    <3> QED BY <1>1, <3>1, <3>2 DEF Counted
  <2> QED BY <1>3, <2>1, <2>2
<1>9. CASE StartNoImage(p) \/ StartStart(p) \/ StartGiveUp(p) \/ StartMissing(p) \/ StartCreate(p)
  BY <1>2, <1>3, <1>9 DEF StartNoImage, StartStart, StartGiveUp, StartMissing, StartCreate, At
<1>10. CASE StartReady(p)
  BY <1>2, <1>3, <1>10 DEF StartReady, ServerUp, At
<1>11. CASE StopLook(p) \/ StopStop(p) \/ RemoveOwner(p) \/ RemoveRunning(p)
  BY <1>2, <1>3, <1>11 DEF StopLook, StopStop, RemoveOwner, RemoveRunning, At
<1>12. CASE RemoveExists(p) \/ RemoveRm(p) \/ TestOwner(p) \/ TestCleanup(p)
  BY <1>2, <1>3, <1>12 DEF RemoveExists, RemoveRm, TestOwner, TestCleanup, At
<1>13. CASE TestWasUp(p)
  BY <1>3, <1>13 DEF TestWasUp, StartEntry
<1> QED BY <1>4, <1>5, <1>6, <1>7, <1>8, <1>9, <1>10, <1>11, <1>12, <1>13 DEF Step, StartStep

\* A process with nothing to do changes no container.
LEMMA IdleStep ==
    ASSUME IInv, NEW q \in Procs, Step(q), todo[q] = <<>>
    PROVE  /\ cont' = cont /\ older' = older /\ todo'[q] = <<>>
           /\ \A p \in Procs \ {q} : seen'[p] = seen[p]
<1>1. pc[q] \in {"remember", "done"}
  BY DEF IInv, ControlOK
<1>2. Remember(q) \/ RememberFails(q)
  BY <1>1 DEF Step, StartStep, RoomStep, StartExists, StartOwner, StartPorts, StartClaimable,
     StartRebuild, StartRunning, StartClaim, StartTake, StartNoImage, StartAgain, StartStart,
     StartGiveUp, StartMissing, StartCreate, StartReady, RoomList, RoomLoad, RoomOwner,
     RoomMade, RoomEvict, RoomRefused, StopLook, StopStop, RemoveOwner, RemoveRunning,
     RemoveExists, RemoveRm, TestWasUp, TestOwner, TestCleanup, At
<1>3. seen \in [Procs -> [Targets -> Found \cup {NotSeen}]]
  BY DEF IInv, Cache, SeenOK
<1> QED BY <1>2, <1>3 DEF Remember, RememberFails, Goto, runnerVars, cacheVars

LEMMA ExitFewer ==
    ASSUME IInv, NEW t \in Targets, Exit(t)
    PROVE  Up' \subseteq Up
<1>1. cont \in [Targets -> Found] /\ cont[t] # Absent
  BY DEF IInv, Cache, RunnerOK, Exit, Running, IsUp
<1>2. cont' = [cont EXCEPT ![t] = [cont[t] EXCEPT !.running = FALSE]]
  BY DEF Exit, Becomes
<1>3. [cont[t] EXCEPT !.running = FALSE].running = FALSE
  BY <1>1 DEF Found, Container
<1> QED BY <1>1, <1>2, <1>3 DEF Up, Running, IsUp, Containers

LEMMA LimitNext == Listens /\ LimitInv /\ [Next]_vars => LimitInv'
<1> SUFFICES ASSUME Listens, LimitInv, [Next]_vars PROVE LimitInv'
  OBVIOUS
<1>1. IInv /\ IInv'
  BY NextKeeps DEF LimitInv
<1>2. \A q \in Procs : ~Busy(q) => todo[q] = <<>>
  BY DEF LimitInv
<1>3. CASE UNCHANGED vars
  <2>1. Alone' = Alone /\ \A q \in Procs : Busy(q)' = Busy(q)
    BY <1>3 DEF vars, Alone, Busy
  <2>2. \A q \in Procs : Counted(q) => Counted(q)'
    BY <1>3 DEF vars, Counted, Others, KnownUp, Up, Running, Target
  <2> QED BY <1>1, <1>3, <2>1, <2>2 DEF LimitInv, vars
<1>4. ASSUME NEW t \in Targets, Exit(t) PROVE LimitInv'
  <2>1. cmd' = cmd /\ todo' = todo /\ pc' = pc /\ up' = up
    BY <1>4 DEF Exit, roomVars
  <2>2. ASSUME NEW q \in Procs, Counted(q) PROVE Counted(q)'
    <3>1. CASE pc[q] \in {"remember", "done"}
      BY <2>1, <2>2, <3>1 DEF Counted
    <3>2. CASE pc[q] \notin {"remember", "done"}
      BY <1>1, <1>4, <2>2, <3>2, ExitApart, ExitFewer, FewerCounts
    <3> QED BY <3>1, <3>2
  <2>3. Alone' = Alone /\ \A q \in Procs : Busy(q)' = Busy(q)
    BY <2>1 DEF Alone, Busy
  <2> QED BY <1>1, <1>2, <2>1, <2>2, <2>3 DEF LimitInv
<1>5. ASSUME NEW p \in Procs, Step(p) PROVE LimitInv'
  <2>1. cmd' = cmd
    BY <1>5 DEF Step, RoomStep, StartStep, Remember, RememberFails, StartExists,
       StartOwner, StartPorts, StartClaimable, StartRebuild, StartRunning, StartClaim,
       StartTake, StartNoImage, StartAgain, StartStart, StartGiveUp, StartMissing,
       StartCreate, StartReady, RoomList, RoomLoad, RoomOwner, RoomMade, RoomEvict,
       RoomRefused, StopLook, StopStop, RemoveOwner, RemoveRunning, RemoveExists, RemoveRm,
       TestWasUp, TestOwner, TestCleanup
  <2>2. Alone' = Alone /\ \A q \in Procs : Busy(q)' = Busy(q)
    BY <2>1 DEF Alone, Busy
  <2>3. ASSUME NEW q \in Procs, ~Busy(q) PROVE todo'[q] = <<>>
    <3>1. CASE q = p
      BY <1>1, <1>2, <1>5, <2>3, <3>1, IdleStep
    <3>2. CASE q # p
      <4>1. Apart(q)
        BY <1>1, <1>5, <3>2, StepApart
      <4> QED BY <1>2, <2>3, <4>1 DEF Apart
    <3> QED BY <3>1, <3>2
  <2>4. ASSUME Alone, NEW q \in Procs, Busy(q) PROVE Counted(q)'
    <3>1. Counted(q)
      BY <2>4 DEF LimitInv
    <3>2. CASE q = p
      BY <1>1, <1>5, <3>1, <3>2, RoomCounts, StepCounts
    <3>3. CASE q # p
      <4>1. ~Busy(p)
        BY <2>4, <3>3 DEF Alone, Busy
      <4>2. cont' = cont
        BY <1>1, <1>2, <1>5, <4>1, IdleStep
      <4>3. Up' \subseteq Up
        BY <4>2 DEF Up, Running
      <4>4. Apart(q)
        BY <1>1, <1>5, <3>3, StepApart
      <4>5. CASE pc[q] \in {"remember", "done"}
        BY <3>1, <4>4, <4>5 DEF Counted, Apart
      <4>6. CASE pc[q] \notin {"remember", "done"}
        BY <1>1, <3>1, <4>3, <4>4, <4>6, FewerCounts
      <4> QED BY <4>5, <4>6
    <3> QED BY <3>2, <3>3
  <2> QED BY <1>1, <2>2, <2>3, <2>4 DEF LimitInv
<1> QED BY <1>3, <1>4, <1>5 DEF Next

LEMMA LimitInit == Init => LimitInv
<1> SUFFICES ASSUME Init PROVE LimitInv
  OBVIOUS
<1>1. \A p \in Procs : pc[p] = "remember" /\ up[p] = {} /\ todo[p] = cmd[p].picked
  BY DEF Init
<1> QED BY <1>1, InvInit, FS_EmptySet DEF LimitInv, Counted, Busy

\* A server comes up only where room was made for it.
LEMMA ComesUp ==
    ASSUME IInv, Listens, NEW p \in Procs, Step(p), NEW t \in Up' \ Up
    PROVE  /\ pc[p] \in {"start.start", "start.create"}
           /\ t = Target(p) /\ Up' \subseteq Up \cup {t}
<1>1. cont \in [Targets -> Found]
  BY DEF IInv, Cache, RunnerOK
<1>2. pc[p] \notin {"remember", "done"} => Target(p) \in Targets
  BY TargetType DEF IInv
<1>3. cont' # cont /\ t \in Containers /\ t \in Targets /\ ~Running(t) /\ IsUp(cont'[t])
  BY DEF Up, Running, Containers
<1>4. \A u \in Targets : \A o : RunsCommand(p, u, o) =>
         u = t /\ cont'[t] = o.to /\ IsUp(o.to) /\ Up' \subseteq Up \cup {t}
  <2> SUFFICES ASSUME NEW u \in Targets, NEW o, RunsCommand(p, u, o)
               PROVE  u = t /\ cont'[t] = o.to /\ IsUp(o.to) /\ Up' \subseteq Up \cup {t}
    OBVIOUS
  <2>1. cont' = [cont EXCEPT ![u] = o.to]
    BY RunsCommandTells
  <2> QED BY <1>1, <1>3, <2>1 DEF Running, Up, Containers
<1>5. \A u \in Targets : \A v : ~LooksOnly(p, u, v) /\ ~LooksForOwner(p, u, v)
  BY <1>3, LooksTell
<1>6. \A o \in RmOutcomes(t) : ~IsUp(o.to)
  BY <1>3, OutcomeTo DEF RmOutcomes, MayFail, Running, IsUp
<1>7. \A o \in StopOutcomes(t) : ~IsUp(o.to)
  <2>1. CASE cont[t] = Absent
    BY <2>1, OutcomeTo DEF StopOutcomes, IsUp
  <2>2. CASE cont[t] # Absent
    <3> DEFINE c == [cont[t] EXCEPT !.running = FALSE]
    <3>1. c.running = FALSE
      BY <1>1, <1>3, <2>2 DEF Found, Container
    <3>2. StopOutcomes(t) \subseteq {Outcome(TRUE, c), Outcome(FALSE, cont[t])}
      BY <2>2 DEF StopOutcomes, MayFail
    <3> HIDE DEF c
    <3> QED BY <1>3, <3>1, <3>2, OutcomeTo DEF Running, IsUp
  <2> QED BY <2>1, <2>2
<1>8. CASE StartStart(p) \/ StartCreate(p)
  BY <1>2, <1>4, <1>8 DEF StartStart, StartCreate, At
<1>9. CASE StartRebuild(p) \/ StartTake(p) \/ StartGiveUp(p) \/ RemoveRm(p)
  BY <1>2, <1>4, <1>6, <1>9 DEF StartRebuild, StartTake, StartGiveUp, RemoveRm, At
<1>10. CASE StopStop(p)
  BY <1>2, <1>4, <1>7, <1>10 DEF StopStop, At
<1>11. CASE TestCleanup(p)
  BY <1>2, <1>3, <1>4, <1>6, <1>11 DEF TestCleanup, runnerVars, At
<1>12. CASE RoomEvict(p)
  <2> DEFINE h == Oldest(Evictable(p))
  <2>1. h \in up[p]
    BY <1>12, EvicteeIn
  <2>2. h.name \in Targets
    BY <2>1 DEF IInv, Other, RoomOK, Containers
  <2>3. \E o \in StopOutcomes(h.name) : RunsCommand(p, h.name, o)
    BY <1>12 DEF RoomEvict
  <2> HIDE DEF h
  <2> QED BY <1>4, <1>7, <2>2, <2>3
<1>13. CASE \/ StartExists(p) \/ StartOwner(p) \/ StartPorts(p) \/ StartClaimable(p)
            \/ StartRunning(p) \/ StartClaim(p) \/ StartAgain(p) \/ StartMissing(p)
  BY <1>2, <1>5, <1>13
     DEF StartExists, StartOwner, StartPorts, StartClaimable, StartRunning, StartClaim,
         StartAgain, StartMissing, At
<1>14. CASE \/ StopLook(p) \/ RemoveOwner(p) \/ RemoveRunning(p) \/ RemoveExists(p)
            \/ TestWasUp(p) \/ TestOwner(p)
  BY <1>2, <1>5, <1>14
     DEF StopLook, RemoveOwner, RemoveRunning, RemoveExists, TestWasUp, TestOwner, At
<1>15. CASE \/ Remember(p) \/ RememberFails(p) \/ StartNoImage(p) \/ StartReady(p)
            \/ RoomList(p) \/ RoomLoad(p) \/ RoomOwner(p) \/ RoomMade(p) \/ RoomRefused(p)
  <2>1. cont' = cont
    BY <1>15 DEF Remember, RememberFails, StartNoImage, StartReady, AsksReady, RoomList, RoomLoad,
                 RoomOwner, LooksForOwner, Looks, RoomMade, RoomRefused, runnerVars
  <2> QED BY <1>3, <2>1
<1> QED BY <1>8, <1>9, <1>10, <1>11, <1>12, <1>13, <1>14, <1>15 DEF Step, StartStep, RoomStep

\* However many servers a lone dbrun starts, one after the other, and whatever it
\* finds, forgets or fails to read of them: a server comes up only where no more
\* than maxRunning are up then, as long as listings answer and stops stop
\* (commands.go, makeRoom).
THEOREM LimitCorrect ==
    ASSUME Faults \cap {"ps", "stop"} = {}
    PROVE  Spec => WithinLimit
<1> DEFINE Within == Alone /\ ~(Up' \subseteq Up) => Cardinality(Up') <= MaxRunning
<1>0. Listens
  BY DEF Listens
<1>1. Init => LimitInv
  BY LimitInit
<1>2. LimitInv /\ [Next]_vars => LimitInv'
  BY <1>0, LimitNext
<1>3. LimitInv /\ [Next]_vars => [Within]_vars
  <2> SUFFICES ASSUME LimitInv, Next, Alone, NEW t \in Up' \ Up
               PROVE  Cardinality(Up') <= MaxRunning
    OBVIOUS
  <2>1. IInv
    BY DEF LimitInv
  <2>2. PICK p \in Procs : Step(p)
    BY <2>1, ExitFewer DEF Next
  <2>3. Busy(p)
    <3> SUFFICES ASSUME ~Busy(p) PROVE FALSE
      OBVIOUS
    <3>1. cont' = cont
      BY <2>1, <2>2, IdleStep DEF LimitInv
    <3> QED BY <3>1 DEF Up, Running
  <2>4. /\ pc[p] \in {"start.start", "start.create"}
        /\ t = Target(p) /\ Up' \subseteq Up \cup {t}
    BY <1>0, <2>1, <2>2, ComesUp
  <2>5. Cardinality(Others(p)) < MaxRunning
    <3>1. t \notin Machines
      BY DEF Up, Containers
    <3> QED BY <2>3, <2>4, <3>1 DEF LimitInv, Counted
  <2>6. IsFiniteSet(Others(p))
    <3>1. Others(p) \in SUBSET Targets
      BY DEF Others, Up, Containers
    <3> QED BY <3>1, ServersAssumption, FS_Subset
  <2>7. Up' \in SUBSET (Others(p) \cup {t})
    BY <2>4 DEF Others
  <2>8. /\ IsFiniteSet(Others(p) \cup {t})
        /\ Cardinality(Others(p) \cup {t}) <= Cardinality(Others(p)) + 1
        /\ Cardinality(Others(p)) \in Nat
    <3>1. Cardinality(Others(p)) \in Nat
      BY <2>6, FS_CardinalityType
    <3>2. /\ IsFiniteSet(Others(p) \cup {t})
          /\ Cardinality(Others(p) \cup {t}) =
                IF t \in Others(p) THEN Cardinality(Others(p)) ELSE Cardinality(Others(p)) + 1
      BY <2>6, FS_AddElement
    <3> QED BY <3>1, <3>2
  <2>9. Cardinality(Up') <= Cardinality(Others(p) \cup {t}) /\ IsFiniteSet(Up')
    BY <2>7, <2>8, FS_Subset
  <2>10. /\ Cardinality(Up') \in Nat /\ Cardinality(Others(p) \cup {t}) \in Nat
         /\ MaxRunning \in Nat
    BY <2>8, <2>9, FS_CardinalityType, ServersAssumption
  <2> QED BY <2>5, <2>8, <2>9, <2>10
<1>4. [][Within]_vars => WithinLimit
  BY DEF WithinLimit
<1> HIDE DEF Within
<1> QED BY <1>1, <1>2, <1>3, <1>4, PTL DEF Spec

---------------------------------------------------------------------------
(* What the commands of one session promise the others. *)

Ours(o) == o \in {Session, NoOwner}

Theirs(t) == cont[t] # Absent /\ ~Ours(cont[t].owner)

TheirsUp(t) == Theirs(t) /\ cont[t].running

\* What is not theirs does not become theirs, and what of theirs is down does not
\* come up: an answer that says so holds however old it is.
Tells(v, t) == (Ours(OwnerIn(v)) => ~Theirs(t)) /\ (~IsUp(v) => ~TheirsUp(t))

HoldsOwner ==
    {"start.ports", "start.claimable", "start.rebuild", "start.running", "start.claim",
     "remove.running", "test.cleanup"}
MayRemove == {"start.rebuild", "start.take", "remove.exists", "remove.rm"}
MayUse    == {"start.again", "start.start", "start.giveup", "stop.stop"}
InRoom    == {"room.list", "room.load", "room.owner"}

\* What a process has made sure of at each place.
Minds(p) ==
    /\ pc[p] \in HoldsOwner /\ Ours(owner[p]) => ~Theirs(Target(p))
    /\ pc[p] \in MayRemove =>
          ~Theirs(Target(p)) \/ (Target(p) \in Containers /\ ~TheirsUp(Target(p)))
    /\ pc[p] = "start.claim" => ~TheirsUp(Target(p))
    /\ pc[p] \in MayUse => ~Theirs(Target(p))
    /\ pc[p] \in InRoom /\ after[p] = "start.start" => ~Theirs(Target(p))
    /\ pc[p] \in InRoom /\ after[p] = "start.create" => Target(p) \in Containers
    /\ pc[p] = "start.create" => Target(p) \in Containers

Recalls(p) ==
    /\ \A t \in Targets : seen[p][t] # NotSeen => Tells(seen[p][t], t)
    /\ \A h \in up[p] : h.owner = Session => ~Theirs(h.name)

PromiseInv ==
    /\ IInv
    /\ \A p \in Procs : ~cmd[p].force
    /\ \A p \in Procs : pc[p] \notin {"remember", "done"} => Minds(p)
    /\ \A p \in Procs : Recalls(p)

\* One session is at work, without --force, and what it asks is answered.
OneSession ==
    /\ "inspect" \notin Faults /\ ~Exits
    /\ \A p \in Procs : OwnerOf[p] = Session
    /\ \A p \in Procs : \A c \in Invocations[p] : ~c.force

Stays ==
    \A t \in Targets : (~Theirs(t) => ~Theirs(t)') /\ (~TheirsUp(t) => ~TheirsUp(t)')

Allowed == [Promise!Next]_cont

LEMMA AllowedStays ==
    ASSUME RunnerOK, Allowed
    PROVE  Stays
<1>1. CASE UNCHANGED cont
  BY <1>1 DEF Stays, Theirs, TheirsUp
<1>2. CASE Promise!Next
  <2>1. PICK u \in Targets : Promise!Create(u) \/ Promise!Switch(u) \/ Promise!Remove(u)
    BY <1>2 DEF Promise!Next
  <2>2. cont \in [Targets -> Found]
    BY DEF RunnerOK
  <2>3. CASE Promise!Create(u)
    <3>1. PICK r \in BOOLEAN :
             cont' = [cont EXCEPT ![u] = [owner |-> Session, ports |-> TRUE, running |-> r]]
      BY <2>3 DEF Promise!Create, Promise!Becomes
    <3> QED BY <2>2, <3>1 DEF Stays, Theirs, TheirsUp, Ours
  <2>4. CASE Promise!Switch(u)
    <3>1. PICK r \in BOOLEAN : cont' = [cont EXCEPT ![u] = [cont[u] EXCEPT !.running = r]]
      BY <2>4 DEF Promise!Switch, Promise!Becomes
    <3>2. cont[u] \in Container /\ Ours(cont[u].owner)
      BY <2>2, <2>4 DEF Promise!Switch, Promise!Mine, Found, Ours
    <3>3. [cont[u] EXCEPT !.running = r].owner = cont[u].owner
      BY <3>2 DEF Container
    <3> QED BY <2>2, <3>1, <3>2, <3>3 DEF Stays, Theirs, TheirsUp
  <2>5. CASE Promise!Remove(u)
    <3>1. cont' = [cont EXCEPT ![u] = Absent]
      BY <2>5 DEF Promise!Remove, Promise!Becomes
    <3> QED BY <2>2, <3>1 DEF Stays, Theirs, TheirsUp
  <2> QED BY <2>1, <2>3, <2>4, <2>5
<1> QED BY <1>1, <1>2 DEF Allowed

---------------------------------------------------------------------------
\* What each command of the runner may be given to.

LEMMA StopAllowed ==
    ASSUME RunnerOK, NEW t \in Targets, ~Theirs(t), NEW o \in StopOutcomes(t),
           cont' = [cont EXCEPT ![t] = o.to]
    PROVE  Allowed
<1>1. CASE o.to = cont[t]
  BY <1>1 DEF Allowed, RunnerOK
<1>2. CASE o.to # cont[t]
  <2>1. cont[t] # Absent
    BY <1>2, OutcomeTo DEF StopOutcomes
  <2> DEFINE c == [cont[t] EXCEPT !.running = FALSE]
  <2>2. o.to = c
    <3>1. o \in {Outcome(TRUE, c), Outcome(FALSE, cont[t])}
      BY <2>1 DEF StopOutcomes, MayFail
    <3> HIDE DEF c
    <3> QED BY <1>2, <3>1, OutcomeTo
  <2>3. Promise!Switch(t)
    BY <2>1, <2>2 DEF Promise!Switch, Promise!Mine, Promise!Becomes, Theirs, Ours
  <2> QED BY <2>3 DEF Allowed, Promise!Next
<1> QED BY <1>1, <1>2

LEMMA StartAllowed ==
    ASSUME RunnerOK, NEW t \in Targets, ~Theirs(t), NEW o \in StartOutcomes(t),
           cont' = [cont EXCEPT ![t] = o.to]
    PROVE  Allowed
<1>1. CASE o.to = cont[t]
  BY <1>1 DEF Allowed, RunnerOK
<1>2. CASE o.to # cont[t]
  <2>1. cont[t] # Absent
    BY <1>2, OutcomeTo DEF StartOutcomes
  <2> DEFINE c == [cont[t] EXCEPT !.running = TRUE]
  <2>2. o.to = c
    <3>1. o \in {Outcome(TRUE, c), Outcome(FALSE, cont[t])}
      BY <2>1 DEF StartOutcomes, MayFail
    <3> HIDE DEF c
    <3> QED BY <1>2, <3>1, OutcomeTo
  <2>3. Promise!Switch(t)
    BY <2>1, <2>2 DEF Promise!Switch, Promise!Mine, Promise!Becomes, Theirs, Ours
  <2> QED BY <2>3 DEF Allowed, Promise!Next
<1> QED BY <1>1, <1>2

LEMMA RmAllowed ==
    ASSUME RunnerOK, NEW t \in Targets, ~Theirs(t) \/ (t \in Containers /\ ~TheirsUp(t)),
           NEW o \in RmOutcomes(t), cont' = [cont EXCEPT ![t] = o.to]
    PROVE  Allowed
<1>1. CASE o.to = cont[t]
  BY <1>1 DEF Allowed, RunnerOK
<1>2. CASE o.to # cont[t]
  <2>1. o.to = Absent /\ cont[t] # Absent
    BY <1>2, OutcomeTo DEF RmOutcomes, MayFail
  <2>2. Promise!Remove(t)
    BY <2>1 DEF Promise!Remove, Promise!Mine, Promise!Becomes, Theirs, TheirsUp, Ours, Containers
  <2> QED BY <2>2 DEF Allowed, Promise!Next
<1> QED BY <1>1, <1>2

LEMMA RunAllowed ==
    ASSUME RunnerOK, NEW p \in Procs, OwnerOf[p] = Session, NEW t \in Targets, t \in Containers,
           NEW o \in RunOutcomes(p, t), cont' = [cont EXCEPT ![t] = o.to]
    PROVE  Allowed
<1>1. CASE o.to = cont[t]
  BY <1>1 DEF Allowed, RunnerOK
<1>2. CASE o.to # cont[t]
  <2> DEFINE made(r) == [owner |-> Session, ports |-> TRUE, running |-> r]
  <2>1. cont[t] = Absent
    BY <1>2, OutcomeTo DEF RunOutcomes
  <2>2. o.to = made(TRUE) \/ o.to = made(FALSE)
    <3>1. o \in {Outcome(TRUE, made(TRUE)), Outcome(FALSE, Absent), Outcome(FALSE, made(FALSE))}
      BY <2>1 DEF RunOutcomes, MayFail, Me
    <3> HIDE DEF made
    <3> QED BY <1>2, <2>1, <3>1, OutcomeTo
  <2>3. Promise!Create(t)
    BY <2>1, <2>2 DEF Promise!Create, Promise!Becomes, Containers
  <2> QED BY <2>3 DEF Allowed, Promise!Next
<1> QED BY <1>1, <1>2

---------------------------------------------------------------------------
\* A look says what holds from then on.
LEMMA LooksRecall ==
    ASSUME OneSession, IInv, NEW p \in Procs, Recalls(p), NEW t \in Targets,
           NEW v, LooksOnly(p, t, v) \/ LooksForOwner(p, t, v)
    PROVE  Tells(v, t) /\ cont' = cont
<1>1. v \in Answers(p, t) /\ cont' = cont
  BY DEF LooksOnly, LooksForOwner, Looks, runnerVars
<1>2. CASE Asks(p, t)
  <2>1. v = cont[t]
    BY <1>1, <1>2 DEF Answers, MayFail, OneSession
  <2> QED BY <1>1, <2>1 DEF Tells, OwnerIn, Theirs, TheirsUp, Ours, IsUp
<1>3. CASE ~Asks(p, t)
  BY <1>1, <1>3 DEF Answers, Asks, Recalls
<1> QED BY <1>2, <1>3

\* May a process of the session touch what it reads.
LEMMA TouchesOurs ==
    ASSUME OneSession, NEW p \in Procs, ~cmd[p].force, NEW o
    PROVE  MayTouch(o, Me(p), cmd[p].force) <=> Ours(o)
  BY DEF OneSession, MayTouch, Ours, Me

\* Every step of a process is one that the promise allows.
LEMMA StepAllowed ==
    ASSUME OneSession, PromiseInv, NEW p \in Procs, Step(p)
    PROVE  Allowed
<1>1. IInv /\ RunnerOK /\ ~cmd[p].force /\ OwnerOf[p] = Session
  BY DEF PromiseInv, IInv, Cache, OneSession
<1>2. pc[p] \notin {"remember", "done"} => Target(p) \in Targets /\ Minds(p)
  BY <1>1, TargetType DEF PromiseInv, IInv
<1>3. UNCHANGED cont => Allowed
  BY DEF Allowed
<1>4. \A t \in Targets : \A o : RunsCommand(p, t, o) => cont' = [cont EXCEPT ![t] = o.to]
  BY <1>1, RunsCommandTells
<1>5. CASE StartRebuild(p) \/ StartTake(p) \/ RemoveRm(p)
  <2>1. PICK o \in RmOutcomes(Target(p)) : RunsCommand(p, Target(p), o)
    BY <1>5 DEF StartRebuild, StartTake, RemoveRm
  <2>2. Target(p) \in Targets /\ pc[p] \in MayRemove /\ Minds(p)
    BY <1>2, <1>5 DEF StartRebuild, StartTake, RemoveRm, At, MayRemove
  <2> QED BY <1>1, <1>4, <2>1, <2>2, RmAllowed DEF Minds
<1>6. CASE StartGiveUp(p)
  <2>1. PICK o \in RmOutcomes(Target(p)) : RunsCommand(p, Target(p), o)
    BY <1>6 DEF StartGiveUp
  <2>2. Target(p) \in Targets /\ pc[p] \in MayUse /\ Minds(p)
    BY <1>2, <1>6 DEF StartGiveUp, At, MayUse
  <2> QED BY <1>1, <1>4, <2>1, <2>2, RmAllowed DEF Minds
<1>7. CASE StartStart(p)
  <2>1. PICK o \in StartOutcomes(Target(p)) : RunsCommand(p, Target(p), o)
    BY <1>7 DEF StartStart
  <2>2. Target(p) \in Targets /\ pc[p] \in MayUse /\ Minds(p)
    BY <1>2, <1>7 DEF StartStart, At, MayUse
  <2> QED BY <1>1, <1>4, <2>1, <2>2, StartAllowed DEF Minds
<1>8. CASE StopStop(p)
  <2>1. PICK o \in StopOutcomes(Target(p)) : RunsCommand(p, Target(p), o)
    BY <1>8 DEF StopStop
  <2>2. Target(p) \in Targets /\ pc[p] \in MayUse /\ Minds(p)
    BY <1>2, <1>8 DEF StopStop, At, MayUse
  <2> QED BY <1>1, <1>4, <2>1, <2>2, StopAllowed DEF Minds
<1>9. CASE StartCreate(p)
  <2>1. PICK o \in RunOutcomes(p, Target(p)) : RunsCommand(p, Target(p), o)
    BY <1>9 DEF StartCreate
  <2>2. Target(p) \in Targets /\ pc[p] = "start.create" /\ Minds(p)
    BY <1>2, <1>9 DEF StartCreate, At
  <2> QED BY <1>1, <1>4, <2>1, <2>2, RunAllowed DEF Minds
<1>10. CASE TestCleanup(p)
  <2>1. Target(p) \in Targets /\ pc[p] \in HoldsOwner /\ Minds(p)
    BY <1>2, <1>10 DEF TestCleanup, At, HoldsOwner
  <2>2. CASE UNCHANGED cont
    BY <1>3, <2>2
  <2>3. CASE cont' # cont
    <3>1. ~Shared(p) /\ \E o \in RmOutcomes(Target(p)) : RunsCommand(p, Target(p), o)
      BY <1>10, <2>3 DEF TestCleanup, runnerVars
    <3>2. Ours(owner[p])
      BY <1>1, <3>1, TouchesOurs DEF Shared
    <3> QED BY <1>1, <1>4, <2>1, <3>1, <3>2, RmAllowed DEF Minds
  <2> QED BY <2>2, <2>3
<1>11. CASE RoomEvict(p)
  <2> DEFINE h == Oldest(Evictable(p))
  <2>1. h \in up[p] /\ h \in Evictable(p)
    BY <1>1, <1>11, EvicteeIn
  <2>2. h.name \in Targets
    BY <1>1, <2>1 DEF IInv, Other, RoomOK, Containers
  <2>3. PICK o \in StopOutcomes(h.name) : RunsCommand(p, h.name, o)
    BY <1>11 DEF RoomEvict
  <2> HIDE DEF h
  <2>4. h.owner = Session
    BY <1>1, <2>1 DEF Evictable, Me
  <2>5. ~Theirs(h.name)
    BY <2>1, <2>4 DEF PromiseInv, Recalls
  <2> QED BY <1>1, <1>4, <2>2, <2>3, <2>5, StopAllowed
<1>12. CASE \/ StartExists(p) \/ StartOwner(p) \/ StartPorts(p) \/ StartClaimable(p)
            \/ StartRunning(p) \/ StartClaim(p) \/ StartAgain(p) \/ StartMissing(p)
  BY <1>3, <1>12
     DEF StartExists, StartOwner, StartPorts, StartClaimable, StartRunning, StartClaim,
         StartAgain, StartMissing, LooksOnly, LooksForOwner, Looks, runnerVars
<1>13. CASE \/ StopLook(p) \/ RemoveOwner(p) \/ RemoveRunning(p) \/ RemoveExists(p)
            \/ TestWasUp(p) \/ TestOwner(p)
  BY <1>3, <1>13
     DEF StopLook, RemoveOwner, RemoveRunning, RemoveExists, TestWasUp, TestOwner,
         LooksOnly, LooksForOwner, Looks, runnerVars
<1>14. CASE \/ Remember(p) \/ RememberFails(p) \/ StartNoImage(p) \/ StartReady(p)
            \/ RoomList(p) \/ RoomLoad(p) \/ RoomOwner(p) \/ RoomMade(p) \/ RoomRefused(p)
  BY <1>3, <1>14
     DEF Remember, RememberFails, StartNoImage, StartReady, AsksReady, RoomList, RoomLoad,
         RoomOwner, LooksForOwner, Looks, RoomMade, RoomRefused, runnerVars
<1> QED BY <1>5, <1>6, <1>7, <1>8, <1>9, <1>10, <1>11, <1>12, <1>13, <1>14
        DEF Step, StartStep, RoomStep

---------------------------------------------------------------------------
\* A step leaves in a cache what was there, nothing, or what it has just read.
Fresh(q) ==
    \A t \in Targets :
        \/ seen'[q][t] \in {seen[q][t], NotSeen}
        \/ cont' = cont /\ seen'[q][t] = cont[t]

LEMMA LooksFresh ==
    ASSUME "inspect" \notin Faults, IInv, NEW p \in Procs, NEW t \in Targets,
           NEW v, LooksOnly(p, t, v) \/ LooksForOwner(p, t, v), NEW q \in Procs
    PROVE  Fresh(q)
<1>1. /\ v \in Answers(p, t) /\ cont' = cont
      /\ seen' = [seen EXCEPT ![p][t] = IF v = Absent THEN seen[p][t] ELSE v]
  BY DEF LooksOnly, LooksForOwner, Looks, runnerVars
<1>2. v = cont[t] \/ v = seen[p][t]
  BY <1>1 DEF Answers, MayFail
<1>3. seen \in [Procs -> [Targets -> Found \cup {NotSeen}]]
  BY DEF IInv, Cache, SeenOK
<1> QED BY <1>1, <1>2, <1>3 DEF Fresh

LEMMA StepFresh ==
    ASSUME "inspect" \notin Faults, IInv, NEW p \in Procs, Step(p), NEW q \in Procs
    PROVE  Fresh(q)
<1>1. seen \in [Procs -> [Targets -> Found \cup {NotSeen}]]
  BY DEF IInv, Cache, SeenOK
<1>2. pc[p] \notin {"remember", "done"} => Target(p) \in Targets
  BY TargetType DEF IInv
<1>3. \A t \in Targets : \A o : RunsCommand(p, t, o) => Fresh(q)
  BY <1>1 DEF RunsCommand, Fresh
<1>4. \A t \in Targets : \A v : LooksOnly(p, t, v) \/ LooksForOwner(p, t, v) => Fresh(q)
  BY LooksFresh
<1>5. UNCHANGED seen => Fresh(q)
  BY DEF Fresh
<1>6. CASE Remember(p)
  BY <1>1, <1>6 DEF Remember, runnerVars, Fresh
<1>7. CASE RoomLoad(p)
  BY <1>1, <1>5, <1>7 DEF RoomLoad, runnerVars, cacheVars, Fresh
<1>8. CASE StartReady(p)
  <2>1. \E v \in {NotSeen, seen[p][Target(p)]} : seen' = [seen EXCEPT ![p][Target(p)] = v]
    BY <1>8 DEF StartReady, AsksReady
  <2> QED BY <1>1, <2>1 DEF Fresh
<1>9. CASE RoomOwner(p)
  <2> DEFINE n == Oldest(names[p])
  <2>1. names[p] \subseteq [name : Containers, rank : Nat] /\ Containers \subseteq Targets
    BY DEF IInv, Other, RoomOK, Containers
  <2>2. n \in names[p]
    BY <1>9, <2>1, OldestIn DEF RoomOwner
  <2>3. n.name \in Targets
    BY <2>1, <2>2
  <2>4. \E v : LooksForOwner(p, n.name, v)
    BY <1>9 DEF RoomOwner
  <2> HIDE DEF n
  <2> QED BY <1>4, <2>3, <2>4
<1>10. CASE RoomEvict(p)
  <2> DEFINE h == Oldest(Evictable(p))
  <2>1. h \in up[p]
    BY <1>10, EvicteeIn
  <2>2. h.name \in Targets
    BY <2>1 DEF IInv, Other, RoomOK, Containers
  <2>3. \E o : RunsCommand(p, h.name, o)
    BY <1>10 DEF RoomEvict
  <2> HIDE DEF h
  <2> QED BY <1>3, <2>2, <2>3
<1>11. CASE \/ StartExists(p) \/ StartOwner(p) \/ StartPorts(p) \/ StartClaimable(p)
            \/ StartRunning(p) \/ StartClaim(p) \/ StartAgain(p) \/ StartMissing(p)
  BY <1>2, <1>4, <1>11
     DEF StartExists, StartOwner, StartPorts, StartClaimable, StartRunning, StartClaim,
         StartAgain, StartMissing, At
<1>12. CASE \/ StopLook(p) \/ RemoveOwner(p) \/ RemoveRunning(p) \/ RemoveExists(p)
            \/ TestWasUp(p) \/ TestOwner(p)
  BY <1>2, <1>4, <1>12
     DEF StopLook, RemoveOwner, RemoveRunning, RemoveExists, TestWasUp, TestOwner, At
<1>13. CASE \/ StartRebuild(p) \/ StartTake(p) \/ StartStart(p) \/ StartGiveUp(p) \/ StartCreate(p)
            \/ StopStop(p) \/ RemoveRm(p) \/ TestCleanup(p)
  BY <1>2, <1>3, <1>5, <1>13
     DEF StartRebuild, StartTake, StartStart, StartGiveUp, StartCreate, StopStop, RemoveRm,
         TestCleanup, cacheVars, At
<1>14. CASE \/ RememberFails(p) \/ StartNoImage(p) \/ RoomList(p) \/ RoomMade(p) \/ RoomRefused(p)
  BY <1>5, <1>14 DEF RememberFails, StartNoImage, RoomList, RoomMade, RoomRefused, cacheVars
<1> QED BY <1>6, <1>7, <1>8, <1>9, <1>10, <1>11, <1>12, <1>13, <1>14
        DEF Step, StartStep, RoomStep

\* What a process recalls holds on, and what it has just heard holds too.
LEMMA RecallsKept ==
    ASSUME IInv, NEW q \in Procs, Recalls(q), Fresh(q), Stays,
           \A h \in up'[q] : h \in up[q] \/ (h.owner = Session => ~Theirs(h.name)')
    PROVE  Recalls(q)'
<1>1. ASSUME NEW t \in Targets, seen'[q][t] # NotSeen PROVE Tells(seen[q][t], t)'
  <2>1. CASE seen'[q][t] = seen[q][t]
    BY <1>1, <2>1 DEF Recalls, Tells, Stays, OwnerIn, IsUp, Ours
  <2>2. CASE cont' = cont /\ seen'[q][t] = cont[t]
    BY <2>2 DEF Tells, Theirs, TheirsUp, OwnerIn, IsUp, Ours
  <2> QED BY <1>1, <2>1, <2>2 DEF Fresh
<1>2. ASSUME NEW h \in up'[q], h.owner = Session PROVE ~Theirs(h.name)'
  <2>1. \A g \in up[q] : g.name \in Targets
    BY DEF IInv, Other, RoomOK, Containers
  <2> QED BY <1>2, <2>1 DEF Recalls, Stays
<1> QED BY <1>1, <1>2 DEF Recalls

\* makeRoom hears whose a server is by a look.
LEMMA StepRecalls ==
    ASSUME OneSession, PromiseInv, NEW p \in Procs, Step(p), NEW q \in Procs
    PROVE  Recalls(q)'
<1>1. IInv /\ Recalls(q) /\ Fresh(q) /\ Stays
  BY StepFresh, StepAllowed, AllowedStays DEF PromiseInv, IInv, Cache, OneSession
<1>2. up \in [Procs -> SUBSET [name : Containers, owner : Whose, rank : Nat]]
  BY <1>1 DEF IInv, Other, RoomOK
<1>3. CASE RoomOwner(p) /\ q = p
  <2>0. PICK n : n = Oldest(names[p])
    OBVIOUS
  <2>1. names[p] \subseteq [name : Containers, rank : Nat] /\ Containers \subseteq Targets
    BY <1>1 DEF IInv, Other, RoomOK, Containers
  <2>2. n \in names[p]
    BY <1>3, <2>0, <2>1, OldestIn DEF RoomOwner
  <2>3. n.name \in Targets
    BY <2>1, <2>2
  <2>4. PICK v : /\ LooksForOwner(p, n.name, v)
                 /\ up' = [up EXCEPT ![p] =
                        up[p] \cup {[name |-> n.name, owner |-> OwnerIn(v), rank |-> n.rank]}]
    BY <1>3, <2>0 DEF RoomOwner
  <2> PICK new : new = [name |-> n.name, owner |-> OwnerIn(v), rank |-> n.rank]
    OBVIOUS
  <2>5. up'[p] = up[p] \cup {new} /\ new.name = n.name /\ new.owner = OwnerIn(v)
    BY <1>2, <2>4
  <2>6. Tells(v, n.name) /\ cont' = cont
    BY <1>1, <1>3, <2>3, <2>4, LooksRecall
  <2>7. new.owner = Session => ~Theirs(new.name)'
    <3>1. new.owner = Session => ~Theirs(n.name)
      BY <2>5, <2>6 DEF Tells, Ours
    <3> QED BY <2>5, <2>6, <3>1 DEF Theirs
  <2> QED BY <1>1, <1>3, <2>5, <2>7, RecallsKept
<1>4. CASE ~(RoomOwner(p) /\ q = p)
  <2>1. up'[q] \subseteq up[q]
    <3>1. CASE q # p
      BY <1>1, <3>1, StepApart DEF Apart
    <3>2. CASE q = p /\ RoomStep(p)
      BY <1>2, <1>4, <3>2 DEF RoomStep, RoomList, RoomLoad, RoomMade, RoomEvict,
         RoomRefused, roomVars
    <3>3. CASE q = p /\ ~RoomStep(p)
      BY <3>3 DEF Step, StartStep, Remember, RememberFails, StartExists, StartOwner,
         StartPorts, StartClaimable, StartRebuild, StartRunning, StartClaim, StartTake,
         StartNoImage, StartAgain, StartStart, StartGiveUp, StartMissing, StartCreate,
         StartReady, StopLook, StopStop, RemoveOwner, RemoveRunning, RemoveExists,
         RemoveRm, TestWasUp, TestOwner, TestCleanup, roomVars
    <3> QED BY <3>1, <3>2, <3>3
  <2> QED BY <1>1, <2>1, RecallsKept
<1> QED BY <1>3, <1>4

---------------------------------------------------------------------------
\* Where a process has made sure of something.
Minding == HoldsOwner \cup MayRemove \cup MayUse \cup InRoom \cup {"start.create"}

LEMMA ElsewhereMinds ==
    ASSUME NEW p \in Procs, pc'[p] \notin Minding
    PROVE  Minds(p)'
  BY DEF Minds, Minding, HoldsOwner

LEMMA NextTargetMinds ==
    ASSUME IInv, NEW p \in Procs, pc[p] \notin {"remember", "done"}, NextTarget(p)
    PROVE  Minds(p)'
<1>1. pc'[p] = "done" \/ pc'[p] = Entry(cmd[p].name, Head(Tail(todo[p])))
  BY DEF NextTarget, IInv, ControlOK
<1>2. cmd[p].name \in {"start", "stop", "remove", "test"}
  BY DEF IInv, Other, CommandLine, Commands
<1>3. \A t : Entry(cmd[p].name, t) \in
                {"start.exists", "start.owner", "stop.look", "remove.owner", "test.wasup"}
  BY <1>2 DEF Entry, StartEntry
<1>4. pc'[p] \notin Minding
  BY <1>1, <1>3 DEF Minding, HoldsOwner, MayRemove, MayUse, InRoom
<1> QED BY <1>4, ElsewhereMinds

\* What a process is sure of holds on while others, and servers, go on.
LEMMA ApartMinds ==
    ASSUME IInv, NEW q \in Procs, Apart(q), Stays, pc[q] \notin {"remember", "done"}, Minds(q)
    PROVE  Minds(q)'
<1>1. Target(q) \in Targets /\ Target(q)' = Target(q)
  <2>1. Target(q) \in Targets
    BY TargetType DEF IInv
  <2>2. todo'[q] = todo[q]
    BY DEF Apart
  <2> QED BY <2>1, <2>2 DEF Target
<1>2. /\ ~Theirs(Target(q)) => ~Theirs(Target(q))'
      /\ ~TheirsUp(Target(q)) => ~TheirsUp(Target(q))'
  <2>1. PICK t \in Targets : t = Target(q)
    BY <1>1
  <2>2. (~Theirs(t) => ~Theirs(t)') /\ (~TheirsUp(t) => ~TheirsUp(t)')
    BY DEF Stays
  <2>3. t = Target(q)'
    BY <1>1, <2>1
  <2> QED BY <2>1, <2>2, <2>3 DEF Theirs, TheirsUp
<1> QED BY <1>1, <1>2 DEF Apart, Minds

LEMMA StepMinds ==
    ASSUME OneSession, PromiseInv, NEW p \in Procs, Step(p)
    PROVE  Minds(p)'
<1>1. IInv /\ Recalls(p) /\ ~cmd[p].force /\ Stays
  BY StepAllowed, AllowedStays DEF PromiseInv, IInv, Cache
<1>2. CASE Remember(p) \/ RememberFails(p)
  <2>1. pc'[p] = "done" \/ pc'[p] = Entry(cmd[p].name, Target(p))
    <3>1. pc \in [Procs -> Labels]
      BY <1>1 DEF IInv, ControlOK
    <3> QED BY <1>2, <3>1 DEF Remember, RememberFails, Goto
  <2>2. cmd[p].name \in {"start", "stop", "remove", "test"}
    BY <1>1 DEF IInv, Other, CommandLine, Commands
  <2>3. Entry(cmd[p].name, Target(p)) \in
           {"start.exists", "start.owner", "stop.look", "remove.owner", "test.wasup"}
    BY <2>2 DEF Entry, StartEntry
  <2>4. pc'[p] \notin Minding
    BY <2>1, <2>3 DEF Minding, HoldsOwner, MayRemove, MayUse, InRoom
  <2> QED BY <2>4, ElsewhereMinds
<1>3. CASE ~(Remember(p) \/ RememberFails(p))
  <2>1. pc[p] \notin {"remember", "done"}
    BY <1>3 DEF Step, RoomStep, StartStep, StartExists, StartOwner, StartPorts,
       StartClaimable, StartRebuild, StartRunning, StartClaim, StartTake, StartNoImage,
       StartAgain, StartStart, StartGiveUp, StartMissing, StartCreate, StartReady,
       RoomList, RoomLoad, RoomOwner, RoomMade, RoomEvict, RoomRefused, StopLook, StopStop,
       RemoveOwner, RemoveRunning, RemoveExists, RemoveRm, TestWasUp, TestOwner,
       TestCleanup, At
  <2>2. PICK t \in Targets : t = Target(p)
    BY <1>1, <2>1, TargetType DEF IInv
  <2>3. Minds(p) /\ pc \in [Procs -> Labels] /\ todo \in [Procs -> Seq(Targets)]
    BY <1>1, <2>1 DEF PromiseInv, IInv, ControlOK
  <2>4. (~Theirs(t) => ~Theirs(t)') /\ (~TheirsUp(t) => ~TheirsUp(t)')
    BY <1>1 DEF Stays
  <2>5. todo' = todo => Target(p)' = t
    BY <2>2 DEF Target
  <2>6. NextTarget(p) => Minds(p)'
    BY <1>1, <2>1, NextTargetMinds
  <2>7. \A label : Goto(p, label) => pc'[p] = label /\ Target(p)' = t
    BY <2>2, <1>1, GotoTells
  <2>8. \A label : Goto(p, label) /\ label \notin Minding => Minds(p)'
    BY <2>7, ElsewhereMinds
  <2>9. \A v : LooksOnly(p, t, v) \/ LooksForOwner(p, t, v) => Tells(v, t) /\ cont' = cont
    BY <1>1, LooksRecall
  <2>10. \A o : MayTouch(o, Me(p), cmd[p].force) <=> Ours(o)
    BY <1>1, TouchesOurs
  <2>11. /\ owner \in [Procs -> Whose]
         /\ after \in [Procs -> {"start.start", "start.create"}]
    BY <1>1 DEF IInv, Other, LocalOK, RoomOK
  <2>12. ASSUME pc'[p] \in HoldsOwner \ (MayRemove \cup {"start.claim"}), Target(p)' = t,
                Ours(owner'[p]) => ~Theirs(t)
         PROVE  Minds(p)'
    BY <2>4, <2>12 DEF Minds, HoldsOwner, MayRemove, MayUse, InRoom, Theirs
  <2>13. ASSUME pc'[p] \in MayRemove, Target(p)' = t, Ours(owner'[p]) => ~Theirs(t),
                ~Theirs(t) \/ (t \in Containers /\ ~TheirsUp(t))
         PROVE  Minds(p)'
    BY <2>4, <2>13 DEF Minds, HoldsOwner, MayRemove, MayUse, InRoom, Theirs, TheirsUp
  <2>14. ASSUME pc'[p] \in MayUse, Target(p)' = t, ~Theirs(t)'
         PROVE  Minds(p)'
    BY <2>14 DEF Minds, HoldsOwner, MayRemove, MayUse, InRoom, Theirs
  <2>15. CASE StartOwner(p) \/ RemoveOwner(p) \/ TestOwner(p)
    <3>1. PICK v : LooksForOwner(p, t, v) /\ owner' = [owner EXCEPT ![p] = OwnerIn(v)]
      BY <2>2, <2>15 DEF StartOwner, RemoveOwner, TestOwner
    <3>2. pc'[p] \in {"start.ports", "remove.running", "test.cleanup"} /\ Target(p)' = t
      BY <2>7, <2>15 DEF StartOwner, RemoveOwner, TestOwner
    <3>3. Ours(owner'[p]) => ~Theirs(t)
      BY <2>9, <2>11, <3>1 DEF Tells
    <3> QED BY <2>12, <3>2, <3>3 DEF HoldsOwner, MayRemove
  <2>16. CASE StartPorts(p) \/ StartRebuild(p)
    <3>1. pc'[p] \in {"start.claimable", "start.running"} /\ Target(p)' = t /\ owner' = owner
      BY <2>7, <2>16 DEF StartPorts, StartRebuild
    <3>2. Ours(owner[p]) => ~Theirs(t)
      BY <2>2, <2>3, <2>16 DEF StartPorts, StartRebuild, At, Minds, HoldsOwner
    <3> QED BY <2>12, <3>1, <3>2 DEF HoldsOwner, MayRemove
  <2>17. CASE StartClaimable(p)
    <3>1. PICK v : /\ LooksOnly(p, t, v)
                   /\ IF /\ Claimable(t, owner[p], Me(p), cmd[p].force, IsUp(v))
                         /\ t \in Containers
                      THEN Goto(p, "start.rebuild")
                      ELSE NextTarget(p)
      BY <2>2, <2>17 DEF StartClaimable
    <3>2. owner' = owner /\ (Ours(owner[p]) => ~Theirs(t))
      BY <2>2, <2>3, <2>17 DEF StartClaimable, At, Minds, HoldsOwner
    <3>3. CASE /\ Claimable(t, owner[p], Me(p), cmd[p].force, IsUp(v)) /\ t \in Containers
               /\ Goto(p, "start.rebuild")
      <4>1. ~Theirs(t) \/ ~TheirsUp(t)
        BY <2>9, <2>10, <3>1, <3>2, <3>3 DEF Claimable, Tells
      <4> QED BY <2>7, <2>13, <3>2, <3>3, <4>1 DEF MayRemove
    <3> QED BY <2>6, <3>1, <3>3
  <2>18. CASE RemoveRunning(p)
    <3>1. PICK v : /\ LooksOnly(p, t, v)
                   /\ IF Claimable(t, owner[p], Me(p), cmd[p].force, IsUp(v))
                      THEN Goto(p, "remove.exists") ELSE NextTarget(p)
      BY <2>2, <2>18 DEF RemoveRunning
    <3>2. owner' = owner /\ (Ours(owner[p]) => ~Theirs(t))
      BY <2>2, <2>3, <2>18 DEF RemoveRunning, At, Minds, HoldsOwner
    <3>3. CASE Claimable(t, owner[p], Me(p), cmd[p].force, IsUp(v)) /\ Goto(p, "remove.exists")
      <4>1. ~Theirs(t) \/ (t \in Containers /\ ~TheirsUp(t))
        BY <2>9, <2>10, <3>1, <3>2, <3>3 DEF Claimable, Tells
      <4>2. pc'[p] = "remove.exists" /\ Target(p)' = t
        BY <2>7, <3>3
      <4> QED BY <2>4, <4>1, <4>2
              DEF Minds, HoldsOwner, MayRemove, MayUse, InRoom, Theirs, TheirsUp
    <3> QED BY <2>6, <3>1, <3>3
  <2>19. CASE RemoveExists(p)
    <3>1. Goto(p, "remove.rm") \/ NextTarget(p)
      BY <2>19 DEF RemoveExists
    <3>2. ~Theirs(t) \/ (t \in Containers /\ ~TheirsUp(t))
      BY <2>2, <2>3, <2>19 DEF RemoveExists, At, Minds, MayRemove
    <3>3. CASE Goto(p, "remove.rm")
      <4>1. pc'[p] = "remove.rm" /\ Target(p)' = t
        BY <2>7, <3>3
      <4> QED BY <2>4, <3>2, <4>1
              DEF Minds, HoldsOwner, MayRemove, MayUse, InRoom, Theirs, TheirsUp
    <3> QED BY <2>6, <3>1, <3>3
  <2>20. CASE StartRunning(p)
    <3>1. PICK v : /\ LooksOnly(p, t, v)
                   /\ Goto(p, IF IsUp(v) THEN "start.ready" ELSE "start.claim")
      BY <2>2, <2>20 DEF StartRunning
    <3>2. owner' = owner /\ (Ours(owner[p]) => ~Theirs(t))
      BY <2>2, <2>3, <2>20 DEF StartRunning, At, Minds, HoldsOwner
    <3>3. CASE IsUp(v)
      BY <2>8, <3>1, <3>3 DEF Minding, HoldsOwner, MayRemove, MayUse, InRoom
    <3>4. CASE ~IsUp(v)
      <4>1. ~TheirsUp(t) /\ pc'[p] = "start.claim" /\ Target(p)' = t
        BY <2>7, <2>9, <3>1, <3>4 DEF Tells
      <4> QED BY <2>4, <3>2, <4>1
              DEF Minds, HoldsOwner, MayRemove, MayUse, InRoom, Theirs, TheirsUp
    <3> QED BY <3>3, <3>4
  <2>21. CASE StartClaim(p)
    <3>1. PICK v : /\ LooksOnly(p, t, v)
                   /\ IF v = Absent \/ MayTouch(owner[p], Me(p), cmd[p].force)
                      THEN Goto(p, "start.again")
                      ELSE IF t \in Machines THEN NextTarget(p)
                      ELSE Goto(p, "start.take")
      BY <2>2, <2>21 DEF StartClaim
    <3>2. owner' = owner /\ (Ours(owner[p]) => ~Theirs(t)) /\ ~TheirsUp(t)
      BY <2>2, <2>3, <2>21 DEF StartClaim, At, Minds, HoldsOwner
    <3>3. CASE v = Absent \/ MayTouch(owner[p], Me(p), cmd[p].force)
      <4>1. ~Theirs(t)
        BY <2>9, <2>10, <3>1, <3>2, <3>3 DEF Tells, OwnerIn, Ours
      <4> QED BY <2>4, <2>7, <2>14, <3>1, <3>3, <4>1 DEF MayUse
    <3>4. CASE t \notin Machines /\ Goto(p, "start.take")
      <4>1. t \in Containers
        BY <3>4 DEF Containers
      <4> QED BY <2>7, <2>13, <3>2, <3>4, <4>1 DEF MayRemove
    <3> QED BY <2>6, <3>1, <3>3, <3>4
  <2>22. CASE StartTake(p)
    <3>1. PICK o \in RmOutcomes(t) : /\ RunsCommand(p, t, o)
                                     /\ IF o.ok THEN Goto(p, "start.again") ELSE NextTarget(p)
      BY <2>2, <2>22 DEF StartTake
    <3>2. CASE o.ok /\ Goto(p, "start.again")
      <4>1. o.to = Absent
        BY <3>1, <3>2 DEF RmOutcomes, MayFail, Outcome
      <4>2. cont' = [cont EXCEPT ![t] = o.to] /\ cont \in [Targets -> Found]
        BY <1>1, <3>1, RunsCommandTells DEF IInv, Cache, RunnerOK
      <4>3. ~Theirs(t)'
        BY <4>1, <4>2 DEF Theirs
      <4> QED BY <2>7, <2>14, <3>2, <4>3 DEF MayUse
    <3> QED BY <2>6, <3>1, <3>2
  <2>23. CASE StartAgain(p)
    <3>1. ~Theirs(t)'
      BY <2>2, <2>3, <2>4, <2>23 DEF StartAgain, At, Minds, MayUse
    <3>2. \/ Goto(p, "start.missing")
          \/ Goto(p, "start.start")
          \/ Goto(p, "room.list") /\ after' = [after EXCEPT ![p] = "start.start"]
      BY <2>23 DEF StartAgain
    <3>3. CASE Goto(p, "start.missing")
      BY <2>8, <3>3 DEF Minding, HoldsOwner, MayRemove, MayUse, InRoom
    <3>4. CASE Goto(p, "start.start")
      BY <2>7, <2>14, <3>1, <3>4 DEF MayUse
    <3>5. CASE Goto(p, "room.list") /\ after' = [after EXCEPT ![p] = "start.start"]
      <4>1. pc'[p] = "room.list" /\ Target(p)' = t /\ after'[p] = "start.start"
        BY <2>7, <2>11, <3>5
      <4> QED BY <3>1, <4>1 DEF Minds, HoldsOwner, MayRemove, MayUse, InRoom, Theirs
    <3> QED BY <3>2, <3>3, <3>4, <3>5
  <2>24. CASE StartStart(p)
    <3>1. ~Theirs(t)'
      BY <2>2, <2>3, <2>4, <2>24 DEF StartStart, At, Minds, MayUse
    <3>2. Goto(p, "start.missing") \/ NextTarget(p) \/ Goto(p, "start.giveup")
      BY <2>24 DEF StartStart
    <3>3. CASE Goto(p, "start.missing")
      BY <2>8, <3>3 DEF Minding, HoldsOwner, MayRemove, MayUse, InRoom
    <3> QED BY <2>6, <2>7, <2>14, <3>1, <3>2, <3>3 DEF MayUse
  <2>25. CASE StartMissing(p)
    <3>1. \/ t \in Containers /\ Goto(p, "room.list") /\ after' = [after EXCEPT ![p] = "start.create"]
          \/ Goto(p, "start.ready")
      BY <2>2, <2>25 DEF StartMissing
    <3>2. CASE Goto(p, "start.ready")
      BY <2>8, <3>2 DEF Minding, HoldsOwner, MayRemove, MayUse, InRoom
    <3>3. CASE t \in Containers /\ Goto(p, "room.list") /\ after' = [after EXCEPT ![p] = "start.create"]
      <4>1. pc'[p] = "room.list" /\ Target(p)' = t /\ after'[p] = "start.create"
        BY <2>7, <2>11, <3>3
      <4> QED BY <3>3, <4>1 DEF Minds, HoldsOwner, MayRemove, MayUse, InRoom
    <3> QED BY <3>1, <3>2, <3>3
  <2>26. CASE StopLook(p)
    <3>1. PICK v : /\ LooksForOwner(p, t, v)
                   /\ IF IsUp(v) /\ MayTouch(OwnerIn(v), Me(p), cmd[p].force)
                      THEN Goto(p, "stop.stop") ELSE NextTarget(p)
      BY <2>2, <2>26 DEF StopLook
    <3>2. CASE MayTouch(OwnerIn(v), Me(p), cmd[p].force) /\ Goto(p, "stop.stop")
      <4>1. ~Theirs(t)
        BY <2>9, <2>10, <3>1, <3>2 DEF Tells
      <4> QED BY <2>4, <2>7, <2>14, <3>2, <4>1 DEF MayUse
    <3> QED BY <2>6, <3>1, <3>2
  <2>27. CASE RoomList(p) \/ RoomLoad(p) \/ RoomOwner(p) \/ RoomEvict(p)
    <3>1. pc'[p] \in InRoom /\ pc[p] \in InRoom /\ todo' = todo /\ after' = after
      BY <2>3, <2>27 DEF RoomList, RoomLoad, RoomOwner, RoomEvict, roomVars, At, Goto, InRoom
    <3> QED BY <2>2, <2>3, <2>4, <2>5, <3>1
            DEF Minds, HoldsOwner, MayRemove, MayUse, InRoom, Theirs
  <2>28. CASE RoomMade(p)
    <3>1. pc'[p] = after[p] /\ pc[p] \in InRoom /\ todo' = todo
      BY <2>3, <2>28 DEF RoomMade, At, Goto, InRoom
    <3>2. CASE after[p] = "start.start"
      <4>1. ~Theirs(t)'
        BY <2>2, <2>3, <2>4, <3>1, <3>2 DEF Minds
      <4> QED BY <2>5, <2>14, <3>1, <3>2, <4>1 DEF MayUse
    <3>3. CASE after[p] = "start.create"
      <4>1. t \in Containers
        BY <2>2, <2>3, <3>1, <3>3 DEF Minds
      <4> QED BY <2>5, <3>1, <3>3, <4>1 DEF Minds, HoldsOwner, MayRemove, MayUse, InRoom
    <3> QED BY <2>11, <3>2, <3>3
  <2>29. CASE StartExists(p) \/ StartNoImage(p) \/ StartGiveUp(p) \/ StartCreate(p) \/ StartReady(p)
    BY <2>6, <2>8, <2>29
       DEF StartExists, StartNoImage, StartGiveUp, StartCreate, StartReady, ServerUp,
           Minding, HoldsOwner, MayRemove, MayUse, InRoom
  <2>30. CASE RoomRefused(p) \/ StopStop(p) \/ RemoveRm(p) \/ TestCleanup(p)
    BY <2>6, <2>30 DEF RoomRefused, StopStop, RemoveRm, TestCleanup
  <2>31. CASE TestWasUp(p)
    BY <2>8, <2>31 DEF TestWasUp, StartEntry, Minding, HoldsOwner, MayRemove, MayUse, InRoom
  <2> QED BY <1>3, <2>15, <2>16, <2>17, <2>18, <2>19, <2>20, <2>21, <2>22, <2>23, <2>24, <2>25,
             <2>26, <2>27, <2>28, <2>29, <2>30, <2>31 DEF Step, StartStep, RoomStep
<1> QED BY <1>2, <1>3

LEMMA PromiseInit == OneSession /\ Init => PromiseInv
<1> SUFFICES ASSUME OneSession, Init PROVE PromiseInv
  OBVIOUS
<1>1. \A p \in Procs : ~cmd[p].force
  BY DEF Init, OneSession
<1>2. \A p \in Procs : pc[p] = "remember" /\ up[p] = {} /\ \A t \in Targets : seen[p][t] = NotSeen
  BY DEF Init
<1> QED BY <1>1, <1>2, InvInit DEF PromiseInv, Recalls

LEMMA PromiseNext == OneSession /\ PromiseInv /\ [Next]_vars => PromiseInv' /\ Allowed
<1> SUFFICES ASSUME OneSession, PromiseInv, [Next]_vars PROVE PromiseInv' /\ Allowed
  OBVIOUS
<1>1. IInv /\ IInv'
  BY NextKeeps DEF PromiseInv
<1>2. ASSUME NEW p \in Procs, Step(p) PROVE PromiseInv' /\ Allowed
  <2>1. Allowed /\ Stays
    BY <1>1, <1>2, StepAllowed, AllowedStays DEF IInv, Cache
  <2>2. \A q \in Procs : Recalls(q)'
    BY <1>2, StepRecalls
  <2>3. ASSUME NEW q \in Procs, pc'[q] \notin {"remember", "done"} PROVE Minds(q)'
    <3>1. CASE q = p
      BY <1>2, <3>1, StepMinds
    <3>2. CASE q # p
      <4>1. Apart(q)
        BY <1>1, <1>2, <3>2, StepApart
      <4>2. pc[q] \notin {"remember", "done"} /\ Minds(q)
        BY <2>3, <4>1 DEF Apart, PromiseInv
      <4> QED BY <1>1, <2>1, <4>1, <4>2, ApartMinds
    <3> QED BY <3>1, <3>2
  <2>4. cmd' = cmd
    BY <1>2 DEF Step, RoomStep, StartStep, Remember, RememberFails, StartExists,
       StartOwner, StartPorts, StartClaimable, StartRebuild, StartRunning, StartClaim,
       StartTake, StartNoImage, StartAgain, StartStart, StartGiveUp, StartMissing,
       StartCreate, StartReady, RoomList, RoomLoad, RoomOwner, RoomMade, RoomEvict,
       RoomRefused, StopLook, StopStop, RemoveOwner, RemoveRunning, RemoveExists, RemoveRm,
       TestWasUp, TestOwner, TestCleanup
  <2> QED BY <1>1, <2>1, <2>2, <2>3, <2>4 DEF PromiseInv
<1>3. ASSUME NEW t \in Targets, Exit(t) PROVE FALSE
  BY <1>3 DEF Exit, OneSession
<1>4. CASE UNCHANGED vars
  <2>1. \A q \in Procs : (Recalls(q) => Recalls(q)') /\ (Minds(q) => Minds(q)')
    BY <1>4 DEF vars, Recalls, Minds, Tells, Theirs, TheirsUp, Target
  <2>2. cmd' = cmd /\ pc' = pc /\ cont' = cont
    BY <1>4 DEF vars
  <2> QED BY <1>1, <2>1, <2>2 DEF PromiseInv, Allowed
<1> QED BY <1>2, <1>3, <1>4 DEF Next

\* Whatever the commands of one session do, in any interleaving of any number of
\* its processes, over any servers, and whatever else fails: the others see only what
\* Ownership allows.  A running server of theirs is left alone, and a stopped one is
\* only ever replaced (owner.go, mayTouch and claimable).
THEOREM PromiseCorrect ==
    ASSUME "inspect" \notin Faults, ~Exits,
           \A p \in Procs : OwnerOf[p] = Session,
           \A p \in Procs : \A c \in Invocations[p] : ~c.force
    PROVE  Spec => KeepsThePromise
<1>0. OneSession
  BY DEF OneSession
<1>1. Init => PromiseInv
  BY <1>0, PromiseInit
<1>2. PromiseInv /\ [Next]_vars => PromiseInv' /\ [Promise!Next]_cont
  BY <1>0, PromiseNext DEF Allowed
<1> QED BY <1>1, <1>2, PTL DEF Spec, KeepsThePromise, Promise!Spec

---------------------------------------------------------------------------
(* Whom a start stops to make room. *)

\* The order of the running servers is one: nothing started before itself, and
\* what started before an earlier one started before the later.
OrderOK ==
    /\ \A t, u \in Targets : <<t, u>> \in older => t # u /\ Running(t) /\ Running(u)
    /\ \A t, u, v \in Targets : <<t, u>> \in older /\ <<u, v>> \in older => <<t, v>> \in older

\* What a process remembers says whose the container is.
Truth(p) ==
    \A t \in Targets : seen[p][t] # NotSeen => OwnerIn(seen[p][t]) = OwnerIn(cont[t])

\* What makeRoom has listed and not stopped, with its place in the order.
Entries(p) == { <<e.name, e.rank>> : e \in names[p] } \cup { <<e.name, e.rank>> : e \in up[p] }

\* While makeRoom has anything to choose from, it has all that is up beside the
\* target, ranked as they started, and the owners it has read are right.
Covers(p) == names[p] # {} \/ up[p] # {} => Others(p) \subseteq KnownUp(p)
Ranked(p) == \A e, f \in Entries(p) : <<e[1], f[1]>> \in older => e[2] < f[2]
Held(p)   == \A h \in up[p] : h.owner = OwnerIn(cont[h.name])

Lists(p) ==
    pc[p] \in {"room.load", "room.owner"} => Covers(p) /\ Ranked(p) /\ Held(p)

EvictInv ==
    /\ IInv /\ Alone /\ OrderOK
    /\ \A p \in Procs : ~Busy(p) => todo[p] = <<>>
    /\ \A p \in Procs : Busy(p) => Truth(p) /\ Lists(p)

Replies == Faults \cap {"inspect", "stop"} = {}

\* Whatever becomes of a container, the order stays one: what comes up is newer
\* than all that runs, and what goes down is in no order any more.
LEMMA OrderKept ==
    ASSUME RunnerOK, OrderOK, NEW t \in Targets, NEW c \in Found, Becomes(t, c)
    PROVE  OrderOK'
<1>1. cont \in [Targets -> Found] /\ cont' = [cont EXCEPT ![t] = c] /\ older \subseteq Targets \X Targets
  BY DEF RunnerOK, Becomes
<1>2. \A u \in Targets \ {t} : Running(u)' <=> Running(u)
  BY <1>1 DEF Running
<1>3. Running(t)' <=> IsUp(c)
  BY <1>1 DEF Running
<1>4. CASE IsUp(c) <=> Running(t)
  <2>1. older' = older
    BY <1>4, Zenon DEF Becomes, Running, IsUp
  <2>2. \A u \in Targets : Running(u)' <=> Running(u)
    BY <1>2, <1>3, <1>4
  <2> QED BY <2>1, <2>2 DEF OrderOK
<1>5. CASE ~(IsUp(c) <=> Running(t))
  <2> DEFINE kept == { o \in older : o[1] # t /\ o[2] # t }
  <2> DEFINE fresh == IF IsUp(c) THEN { u \in Targets \ {t} : Running(u) } \X {t} ELSE {}
  <2>1. older' = kept \cup fresh
    BY <1>5, Zenon DEF Becomes, Running, IsUp
  <2>2. \A u, w \in Targets : <<u, w>> \in kept <=> <<u, w>> \in older /\ u # t /\ w # t
    OBVIOUS
  <2>3. \A u, w \in Targets : <<u, w>> \in fresh <=> IsUp(c) /\ w = t /\ u # t /\ Running(u)
    OBVIOUS
  <2> HIDE DEF kept, fresh
  <2>4. \A u, w \in Targets :
           <<u, w>> \in older' <=> \/ <<u, w>> \in older /\ u # t /\ w # t
                                   \/ IsUp(c) /\ w = t /\ u # t /\ Running(u)
    BY <2>1, <2>2, <2>3
  <2>5. \A u, w \in Targets : <<u, w>> \in older' => u # w /\ Running(u)' /\ Running(w)'
    BY <1>2, <1>3, <2>4 DEF OrderOK
  <2>6. \A u, v, w \in Targets :
           <<u, v>> \in older' /\ <<v, w>> \in older' => <<u, w>> \in older'
    BY <2>4 DEF OrderOK
  <2> QED BY <2>5, <2>6 DEF OrderOK
<1> QED BY <1>4, <1>5

\* What goes down, or changes no more than its owner, puts nothing in the order.
LEMMA OrderShrinks ==
    ASSUME NEW t \in Targets, NEW c, Becomes(t, c), ~IsUp(c)
    PROVE  older' \subseteq older
<1>1. CASE Running(t)
  <2>1. older' = { o \in older : o[1] # t /\ o[2] # t } \cup {}
    BY <1>1, Zenon DEF Becomes
  <2> QED BY <2>1
<1>2. CASE ~Running(t)
  <2>1. older' = older
    BY <1>2, Zenon DEF Becomes, Running, IsUp
  <2> QED BY <2>1
<1> QED BY <1>1, <1>2

\* A step asks the runner, or has it do one thing to one container.
LEMMA StepActs ==
    ASSUME IInv, NEW p \in Procs, Step(p)
    PROVE  \/ UNCHANGED <<cont, older>>
           \/ \E t \in Targets : \E o : o.to \in Found /\ RunsCommand(p, t, o)
<1>1. RunnerOK
  BY DEF IInv, Cache
<1>2. pc[p] \notin {"remember", "done"} => Target(p) \in Targets
  BY TargetType DEF IInv
<1>3. CASE \/ StartRebuild(p) \/ StartTake(p) \/ StartGiveUp(p) \/ RemoveRm(p)
  <2>1. \E o \in RmOutcomes(Target(p)) : RunsCommand(p, Target(p), o)
    BY <1>3 DEF StartRebuild, StartTake, StartGiveUp, RemoveRm
  <2>2. Target(p) \in Targets
    BY <1>2, <1>3 DEF StartRebuild, StartTake, StartGiveUp, RemoveRm, At
  <2> QED BY <1>1, <2>1, <2>2, RmType
<1>4. CASE StartStart(p)
  BY <1>1, <1>2, <1>4, StartType DEF StartStart, At
<1>5. CASE StartCreate(p)
  BY <1>1, <1>2, <1>5, RunType DEF StartCreate, At
<1>6. CASE StopStop(p)
  BY <1>1, <1>2, <1>6, StopType DEF StopStop, At
<1>7. CASE TestCleanup(p)
  <2>1. Target(p) \in Targets
    BY <1>2, <1>7 DEF TestCleanup, At
  <2> QED BY <1>1, <1>7, <2>1, RmType DEF TestCleanup, runnerVars
<1>8. CASE RoomEvict(p)
  <2> DEFINE h == Oldest(Evictable(p))
  <2>1. h \in up[p]
    BY <1>8, EvicteeIn
  <2>2. h.name \in Targets
    BY <2>1 DEF IInv, Other, RoomOK, Containers
  <2>3. PICK o \in StopOutcomes(h.name) : RunsCommand(p, h.name, o)
    BY <1>8 DEF RoomEvict
  <2> HIDE DEF h
  <2> QED BY <1>1, <2>2, <2>3, StopType
<1>9. CASE \/ StartExists(p) \/ StartOwner(p) \/ StartPorts(p) \/ StartClaimable(p)
           \/ StartRunning(p) \/ StartClaim(p) \/ StartAgain(p) \/ StartMissing(p)
  BY <1>9
     DEF StartExists, StartOwner, StartPorts, StartClaimable, StartRunning, StartClaim,
         StartAgain, StartMissing, LooksOnly, LooksForOwner, Looks, runnerVars
<1>10. CASE \/ StopLook(p) \/ RemoveOwner(p) \/ RemoveRunning(p) \/ RemoveExists(p)
            \/ TestWasUp(p) \/ TestOwner(p)
  BY <1>10
     DEF StopLook, RemoveOwner, RemoveRunning, RemoveExists, TestWasUp, TestOwner,
         LooksOnly, LooksForOwner, Looks, runnerVars
<1>11. CASE \/ Remember(p) \/ RememberFails(p) \/ StartNoImage(p) \/ StartReady(p)
            \/ RoomList(p) \/ RoomLoad(p) \/ RoomOwner(p) \/ RoomMade(p) \/ RoomRefused(p)
  BY <1>11
     DEF Remember, RememberFails, StartNoImage, StartReady, AsksReady, RoomList, RoomLoad,
         RoomOwner, LooksForOwner, Looks, RoomMade, RoomRefused, runnerVars
<1> QED BY <1>3, <1>4, <1>5, <1>6, <1>7, <1>8, <1>9, <1>10, <1>11 DEF Step, StartStep, RoomStep

\* A process that is alone keeps the owners right: it forgets what it changes, and
\* what it remembers it has read.
LEMMA TruthKept ==
    ASSUME Replies, IInv, NEW p \in Procs, Truth(p), Step(p)
    PROVE  Truth(p)'
<1>1. seen \in [Procs -> [Targets -> Found \cup {NotSeen}]] /\ cont \in [Targets -> Found]
  BY DEF IInv, Cache, SeenOK, RunnerOK
<1>2. CASE UNCHANGED <<cont, older>>
  <2>1. Fresh(p)
    BY StepFresh DEF Replies
  <2> QED BY <1>2, <2>1 DEF Truth, Fresh
<1>3. ASSUME NEW t \in Targets, NEW o, RunsCommand(p, t, o)
      PROVE  Truth(p)'
  <2>1. seen' = [seen EXCEPT ![p][t] = NotSeen] /\ cont' = [cont EXCEPT ![t] = o.to]
    BY <1>3 DEF RunsCommand, Becomes
  <2>2. seen'[p][t] = NotSeen
    BY <1>1, <2>1
  <2>3. \A u \in Targets \ {t} : seen'[p][u] = seen[p][u] /\ cont'[u] = cont[u]
    BY <1>1, <2>1
  <2> QED BY <2>2, <2>3 DEF Truth
<1> QED BY <1>2, <1>3, StepActs

\* A running server that started before another has fewer before it.
LEMMA RankRises ==
    ASSUME RunnerOK, OrderOK, NEW t \in Targets, NEW u \in Targets, <<t, u>> \in older
    PROVE  Cardinality({ o \in older : o[2] = t }) < Cardinality({ o \in older : o[2] = u })
<1> DEFINE S == { o \in older : o[2] = t }
<1> DEFINE T == { o \in older : o[2] = u }
<1>1. older \subseteq Targets \X Targets
  BY DEF RunnerOK
<1>2. IsFiniteSet(Targets \X Targets) /\ T \in SUBSET (Targets \X Targets)
  BY <1>1, ServersAssumption, FS_Product
<1>3. IsFiniteSet(T)
  BY <1>2, FS_Subset
<1>4. <<t, u>> \in T
  OBVIOUS
<1>5. IsFiniteSet(T \ {<<t, u>>}) /\ Cardinality(T \ {<<t, u>>}) = Cardinality(T) - 1
  BY <1>3, <1>4, FS_RemoveElement
<1> DEFINE before == [o \in S |-> <<o[1], u>>]
<1>6. ASSUME NEW o \in S PROVE before[o] \in T \ {<<t, u>>} /\ o = <<o[1], t>>
  <2>1. o \in older /\ o[2] = t
    OBVIOUS
  <2>2. PICK w \in Targets : o = <<w, t>>
    BY <1>1, <2>1
  <2>3. <<w, t>> \in older /\ w # t
    BY <2>1, <2>2 DEF OrderOK
  <2>4. <<w, u>> \in older
    BY <2>3 DEF OrderOK
  <2>5. before[o] = <<w, u>>
    BY <2>2
  <2> QED BY <2>2, <2>3, <2>4, <2>5
<1>7. before \in Injection(S, T \ {<<t, u>>})
  <2>1. before \in [S -> T \ {<<t, u>>}]
    BY <1>6
  <2>2. \A o, r \in S : before[o] = before[r] => o = r
    BY <1>6
  <2> HIDE DEF before, S, T
  <2> QED BY <2>1, <2>2, Zenon DEF Injection, IsInjective
<1>8. IsFiniteSet(S) /\ Cardinality(S) <= Cardinality(T \ {<<t, u>>})
  <2> HIDE DEF before, S, T
  <2> QED BY <1>5, <1>7, FS_Injection
<1>9. Cardinality(S) \in Nat /\ Cardinality(T) \in Nat
  <2> HIDE DEF S, T
  <2> QED BY <1>3, <1>8, FS_CardinalityType
<1> HIDE DEF S, T
<1>10. Cardinality(S) < Cardinality(T)
  BY <1>5, <1>8, <1>9
<1> QED BY <1>10 DEF S, T

\* Nothing is listed elsewhere than in makeRoom.
LEMMA ElsewhereLists ==
    ASSUME NEW p \in Procs, pc'[p] \notin {"room.load", "room.owner"}
    PROVE  Lists(p)'
  BY DEF Lists

\* makeRoom ranks what it lists as it started, and reads the owners right.
LEMMA RoomLists ==
    ASSUME Replies, IInv, OrderOK, NEW p \in Procs, Truth(p), Lists(p), RoomStep(p)
    PROVE  Lists(p)'
<1>1. pc[p] \in {"room.list", "room.load", "room.owner"}
  BY DEF RoomStep, RoomList, RoomLoad, RoomOwner, RoomMade, RoomEvict, RoomRefused, At
<1>2. /\ names \in [Procs -> SUBSET [name : Containers, rank : Nat]]
      /\ up \in [Procs -> SUBSET [name : Containers, owner : Whose, rank : Nat]]
      /\ after \in [Procs -> {"start.start", "start.create"}]
      /\ Containers \subseteq Targets
      /\ pc \in [Procs -> Labels] /\ cont \in [Targets -> Found]
  BY DEF IInv, Other, RoomOK, Containers, ControlOK, Cache, RunnerOK
<1>3. cont' = cont => Up' = Up
  BY DEF Up, Running
<1>4. todo' = todo => Target(p)' = Target(p)
  BY DEF Target
<1>5. CASE RoomList(p)
  <2>1. /\ up'[p] = {} /\ Up' = Up /\ Target(p)' = Target(p) /\ cont' = cont /\ older' = older
    BY <1>2, <1>3, <1>4, <1>5 DEF RoomList, runnerVars, Goto
  <2> DEFINE rank(t) == Cardinality({ o \in older : o[2] = t })
  <2>2. \/ names'[p] = {}
        \/ names'[p] = { [name |-> t, rank |-> rank(t)] :
                            t \in { u \in Containers \ {Target(p)} : Running(u) } }
    BY <1>2, <1>5 DEF RoomList
  <2>3. \A t, u \in Targets : <<t, u>> \in older => rank(t) < rank(u)
    BY RankRises DEF IInv, Cache
  <2> HIDE DEF rank
  <2>4. CASE names'[p] = {}
    BY <2>1, <2>4 DEF Lists, Covers, Ranked, Held, Entries
  <2>5. CASE names'[p] = { [name |-> t, rank |-> rank(t)] :
                              t \in { u \in Containers \ {Target(p)} : Running(u) } }
    <3>1. Others(p)' \subseteq KnownUp(p)'
      <4> SUFFICES ASSUME NEW t \in Others(p)' PROVE t \in KnownUp(p)'
        OBVIOUS
      <4>1. [name |-> t, rank |-> rank(t)] \in names'[p]
        BY <2>1, <2>5 DEF Others, Up
      <4>2. [name |-> t, rank |-> rank(t)].name = t
        OBVIOUS
      <4> QED BY <4>1, <4>2 DEF KnownUp
    <3>2. \A e \in Entries(p)' : e[1] \in Targets /\ e[2] = rank(e[1])
      BY <1>2, <2>1, <2>5 DEF Entries
    <3>3. Ranked(p)'
      BY <2>1, <2>3, <3>2 DEF Ranked
    <3> QED BY <2>1, <3>1, <3>3 DEF Lists, Covers, Held
  <2> QED BY <2>2, <2>4, <2>5
<1>6. CASE RoomLoad(p)
  <2>1. /\ pc[p] = "room.load" /\ up' = up /\ names' = names
        /\ cont' = cont /\ older' = older /\ Target(p)' = Target(p)
    BY <1>4, <1>6 DEF RoomLoad, roomVars, runnerVars, Goto, At
  <2> QED BY <1>3, <2>1 DEF Lists, Covers, Ranked, Held, Others, KnownUp, Entries
<1>7. CASE RoomOwner(p)
  <2> DEFINE n == Oldest(names[p])
  <2>1. n \in names[p]
    BY <1>2, <1>7, OldestIn DEF RoomOwner
  <2>2. PICK v : /\ LooksForOwner(p, n.name, v)
                 /\ up' = [up EXCEPT ![p] =
                        up[p] \cup {[name |-> n.name, owner |-> OwnerIn(v), rank |-> n.rank]}]
    BY <1>7 DEF RoomOwner
  <2>3. names'[p] = names[p] \ {n} /\ pc[p] = "room.owner" /\ todo' = todo
    BY <1>2, <1>7 DEF RoomOwner, At
  <2> DEFINE new == [name |-> n.name, owner |-> OwnerIn(v), rank |-> n.rank]
  <2>4. up'[p] = up[p] \cup {new} /\ new.name = n.name /\ new.rank = n.rank /\ new.owner = OwnerIn(v)
    BY <1>2, <2>2
  <2>5. cont' = cont /\ older' = older /\ v \in Answers(p, n.name)
    BY <2>2 DEF LooksForOwner, Looks, runnerVars
  <2>6. n.name \in Targets
    BY <1>2, <2>1
  <2>7. OwnerIn(v) = OwnerIn(cont[n.name])
    <3>1. CASE Asks(p, n.name)
      BY <2>5, <3>1 DEF Answers, MayFail, Replies
    <3>2. CASE ~Asks(p, n.name)
      BY <2>5, <2>6, <3>2 DEF Answers, Asks, Truth
    <3> QED BY <3>1, <3>2
  <2> HIDE DEF n, new
  <2>8. Covers(p) /\ Ranked(p) /\ Held(p)
    BY <2>3 DEF Lists
  <2>9. Covers(p)'
    <3>1. KnownUp(p) \subseteq KnownUp(p)'
      BY <2>1, <2>3, <2>4 DEF KnownUp
    <3>2. Others(p) \subseteq KnownUp(p) /\ Others(p)' = Others(p)
      BY <1>3, <1>4, <2>1, <2>3, <2>5, <2>8 DEF Covers, Others
    <3> QED BY <3>1, <3>2 DEF Covers
  <2>10. Ranked(p)'
    <3>1. Entries(p)' \subseteq Entries(p)
      BY <2>1, <2>3, <2>4 DEF Entries
    <3> QED BY <2>5, <2>8, <3>1 DEF Ranked
  <2>11. Held(p)'
    BY <2>4, <2>5, <2>7, <2>8 DEF Held
  <2> QED BY <2>9, <2>10, <2>11 DEF Lists
<1>8. CASE RoomMade(p)
  <2>1. pc'[p] \in {"start.start", "start.create"}
    BY <1>2, <1>8 DEF RoomMade, Goto
  <2> QED BY <2>1, ElsewhereLists
<1>9. CASE RoomEvict(p)
  <2> DEFINE h == Oldest(Evictable(p))
  <2>1. h \in up[p]
    BY <1>9, EvicteeIn
  <2>2. h.name \in Targets
    BY <1>2, <2>1
  <2>3. PICK o \in StopOutcomes(h.name) : RunsCommand(p, h.name, o)
    BY <1>9 DEF RoomEvict
  <2>4. /\ up'[p] = up[p] \ {h} /\ names'[p] = names[p]
        /\ pc[p] = "room.owner" /\ todo' = todo
    BY <1>2, <1>9 DEF RoomEvict, At
  <2> HIDE DEF h
  <2>5. cont' = [cont EXCEPT ![h.name] = o.to]
    BY <2>2, <2>3, RunsCommandTells
  <2>6. ~IsUp(o.to) /\ OwnerIn(o.to) = OwnerIn(cont[h.name])
    <3>1. CASE cont[h.name] = Absent
      BY <2>3, <3>1, OutcomeTo DEF StopOutcomes, IsUp
    <3>2. CASE cont[h.name] # Absent
      <4> DEFINE c == [cont[h.name] EXCEPT !.running = FALSE]
      <4>1. o = Outcome(TRUE, c)
        BY <2>3, <3>2 DEF StopOutcomes, MayFail, Replies
      <4>2. cont[h.name] \in Container
        BY <1>2, <2>2, <3>2 DEF Found
      <4>3. c.running = FALSE /\ c.owner = cont[h.name].owner /\ c \in Container
        BY <4>2 DEF Container
      <4>4. c # Absent
        BY <4>3, ServersAssumption
      <4> HIDE DEF c
      <4> QED BY <3>2, <4>1, <4>3, <4>4, OutcomeTo DEF IsUp, OwnerIn
    <3> QED BY <3>1, <3>2
  <2>7. Up' \subseteq Up \ {h.name} /\ \A t \in Targets : OwnerIn(cont'[t]) = OwnerIn(cont[t])
    BY <1>2, <2>2, <2>5, <2>6 DEF Up, Running
  <2>8. older' \subseteq older
    BY <2>2, <2>3, <2>6, OrderShrinks DEF RunsCommand
  <2>9. Covers(p) /\ Ranked(p) /\ Held(p)
    BY <2>4 DEF Lists
  <2>10. Covers(p)'
    <3>1. KnownUp(p) \ {h.name} \subseteq KnownUp(p)'
      BY <2>4 DEF KnownUp
    <3>2. Others(p) \subseteq KnownUp(p)
      BY <2>1, <2>9 DEF Covers
    <3>3. Others(p)' \subseteq Others(p) \ {h.name}
      BY <1>4, <2>4, <2>7 DEF Others
    <3> QED BY <3>1, <3>2, <3>3 DEF Covers
  <2>11. Ranked(p)'
    <3>1. Entries(p)' \subseteq Entries(p)
      BY <2>4 DEF Entries
    <3> QED BY <2>8, <2>9, <3>1 DEF Ranked
  <2>12. Held(p)'
    <3>1. \A g \in up'[p] : g \in up[p] /\ g.name \in Targets
      BY <1>2, <2>4
    <3> QED BY <2>7, <2>9, <3>1 DEF Held
  <2> QED BY <2>10, <2>11, <2>12 DEF Lists
<1>10. CASE RoomRefused(p)
  <2>1. pc'[p] \notin {"room.load", "room.owner"}
    BY <1>1, <1>10, NextTargetCounts DEF RoomRefused
  <2> QED BY <2>1, ElsewhereLists
<1> QED BY <1>5, <1>6, <1>7, <1>8, <1>9, <1>10 DEF RoomStep

\* No other step goes into makeRoom but to list.
LEMMA StepLists ==
    ASSUME IInv, NEW p \in Procs, Step(p), ~RoomStep(p)
    PROVE  Lists(p)'
<1>1. pc[p] \notin {"remember", "done"} /\ NextTarget(p) => Lists(p)'
  BY NextTargetCounts, ElsewhereLists
<1>2. \A label : Goto(p, label) /\ label \notin {"room.load", "room.owner"} => Lists(p)'
  BY GotoTells, ElsewhereLists
<1>3. CASE Remember(p)
  <2>1. pc'[p] = "done" \/ pc'[p] = Entry(cmd[p].name, Target(p))
    BY <1>3 DEF Remember, IInv, ControlOK
  <2>2. cmd[p].name \in {"start", "stop", "remove", "test"}
    BY DEF IInv, Other, CommandLine, Commands
  <2>3. Entry(cmd[p].name, Target(p)) \in
           {"start.exists", "start.owner", "stop.look", "remove.owner", "test.wasup"}
    BY <2>2 DEF Entry, StartEntry
  <2> QED BY <2>1, <2>3, ElsewhereLists
<1>4. CASE RememberFails(p)
  BY <1>2, <1>4 DEF RememberFails
<1>5. CASE StartExists(p) \/ StartOwner(p) \/ StartPorts(p) \/ StartClaimable(p)
  BY <1>1, <1>2, <1>5 DEF StartExists, StartOwner, StartPorts, StartClaimable, At
<1>6. CASE StartRebuild(p) \/ StartRunning(p) \/ StartClaim(p) \/ StartTake(p)
  BY <1>1, <1>2, <1>6 DEF StartRebuild, StartRunning, StartClaim, StartTake, At
<1>7. CASE StartAgain(p) \/ StartNoImage(p) \/ StartStart(p) \/ StartGiveUp(p)
           \/ StartMissing(p) \/ StartCreate(p)
  BY <1>1, <1>2, <1>7
     DEF StartAgain, StartNoImage, StartStart, StartGiveUp, StartMissing, StartCreate, At
<1>8. CASE StartReady(p)
  BY <1>1, <1>2, <1>8 DEF StartReady, ServerUp, At
<1>9. CASE StopLook(p) \/ StopStop(p) \/ RemoveOwner(p) \/ RemoveRunning(p)
  BY <1>1, <1>2, <1>9 DEF StopLook, StopStop, RemoveOwner, RemoveRunning, At
<1>10. CASE RemoveExists(p) \/ RemoveRm(p) \/ TestOwner(p) \/ TestCleanup(p)
  BY <1>1, <1>2, <1>10 DEF RemoveExists, RemoveRm, TestOwner, TestCleanup, At
<1>11. CASE TestWasUp(p)
  BY <1>2, <1>11 DEF TestWasUp, StartEntry
<1> QED BY <1>3, <1>4, <1>5, <1>6, <1>7, <1>8, <1>9, <1>10, <1>11 DEF Step, StartStep

\* What a process has listed and read stays right while others leave the runner
\* alone, or servers stop by themselves.
LEMMA ListsKept ==
    ASSUME IInv, NEW p \in Procs, Lists(p), Truth(p), Apart(p), pc[p] \notin {"remember", "done"},
           seen'[p] = seen[p], older' \subseteq older, Up' \subseteq Up,
           \A t \in Targets : OwnerIn(cont'[t]) = OwnerIn(cont[t])
    PROVE  Lists(p)' /\ Truth(p)'
<1>1. /\ Target(p)' = Target(p) /\ KnownUp(p)' = KnownUp(p) /\ Entries(p)' = Entries(p)
      /\ up'[p] = up[p] /\ names'[p] = names[p] /\ pc'[p] = pc[p]
  BY DEF Apart, Target, KnownUp, Entries
<1>2. Truth(p)'
  BY DEF Truth
<1>3. ASSUME Covers(p) PROVE Covers(p)'
  BY <1>1, <1>3 DEF Covers, Others
<1>4. ASSUME Ranked(p) PROVE Ranked(p)'
  BY <1>1, <1>4 DEF Ranked
<1>5. ASSUME Held(p) PROVE Held(p)'
  <2>1. \A h \in up[p] : h.name \in Targets
    BY DEF IInv, Other, RoomOK, Containers
  <2> QED BY <1>1, <1>5, <2>1 DEF Held
<1> QED BY <1>1, <1>2, <1>3, <1>4, <1>5 DEF Lists

LEMMA ExitLists ==
    ASSUME EvictInv, NEW t \in Targets, Exit(t)
    PROVE  EvictInv'
<1>1. IInv /\ IInv' /\ RunnerOK
  BY ExitKeeps DEF EvictInv, IInv, Cache
<1>2. cont \in [Targets -> Found] /\ cont[t] \in Container
  BY <1>1 DEF RunnerOK, Exit, Running, IsUp, Found
<1> DEFINE c == [cont[t] EXCEPT !.running = FALSE]
<1>3. c \in Container /\ c.running = FALSE /\ c.owner = cont[t].owner
  BY <1>2 DEF Container
<1>4. c \in Found /\ ~IsUp(c) /\ OwnerIn(c) = OwnerIn(cont[t])
  BY <1>2, <1>3, ServersAssumption DEF Found, IsUp, OwnerIn
<1>5. Becomes(t, c) /\ cont' = [cont EXCEPT ![t] = c]
  BY DEF Exit, Becomes
<1> HIDE DEF c
<1>6. OrderOK' /\ older' \subseteq older
  BY <1>1, <1>4, <1>5, OrderKept, OrderShrinks DEF EvictInv
<1>7. \A u \in Targets : OwnerIn(cont'[u]) = OwnerIn(cont[u])
  BY <1>2, <1>4, <1>5
<1>8. cmd' = cmd /\ todo' = todo /\ pc' = pc /\ seen' = seen
  BY DEF Exit
<1>9. ASSUME NEW q \in Procs, Truth(q), Lists(q) PROVE Truth(q)' /\ Lists(q)'
  <2>1. CASE pc[q] \in {"remember", "done"}
    BY <1>7, <1>8, <1>9, <2>1 DEF Lists, Truth
  <2>2. CASE pc[q] \notin {"remember", "done"}
    <3>1. Apart(q) /\ Up' \subseteq Up
      BY <1>1, ExitApart, ExitFewer
    <3> QED BY <1>1, <1>6, <1>7, <1>8, <1>9, <2>2, <3>1, ListsKept
  <2> QED BY <2>1, <2>2
<1>10. Alone' = Alone /\ \A q \in Procs : Busy(q)' = Busy(q)
  BY <1>8 DEF Alone, Busy
<1> QED BY <1>1, <1>6, <1>8, <1>9, <1>10 DEF EvictInv

LEMMA EvictNext == Replies /\ EvictInv /\ [Next]_vars => EvictInv'
<1> SUFFICES ASSUME Replies, EvictInv, [Next]_vars PROVE EvictInv'
  OBVIOUS
<1>1. IInv /\ IInv' /\ RunnerOK
  BY NextKeeps DEF EvictInv, IInv, Cache
<1>2. CASE UNCHANGED vars
  <2>1. Alone' = Alone /\ \A q \in Procs : Busy(q)' = Busy(q)
    BY <1>2 DEF vars, Alone, Busy
  <2>2. OrderOK' = OrderOK /\ \A q \in Procs : Truth(q)' = Truth(q)
    BY <1>2 DEF vars, OrderOK, Running, Truth
  <2>3. \A q \in Procs : Lists(q)' = Lists(q)
    BY <1>2 DEF vars, Lists, Covers, Ranked, Held, Entries, Others, KnownUp, Up, Running, Target
  <2> QED BY <1>1, <1>2, <2>1, <2>2, <2>3 DEF EvictInv, vars
<1>3. ASSUME NEW p \in Procs, Step(p) PROVE EvictInv'
  <2>1. cmd' = cmd
    BY <1>3 DEF Step, RoomStep, StartStep, Remember, RememberFails, StartExists,
       StartOwner, StartPorts, StartClaimable, StartRebuild, StartRunning, StartClaim,
       StartTake, StartNoImage, StartAgain, StartStart, StartGiveUp, StartMissing,
       StartCreate, StartReady, RoomList, RoomLoad, RoomOwner, RoomMade, RoomEvict,
       RoomRefused, StopLook, StopStop, RemoveOwner, RemoveRunning, RemoveExists, RemoveRm,
       TestWasUp, TestOwner, TestCleanup
  <2>2. Alone' = Alone /\ \A q \in Procs : Busy(q)' = Busy(q)
    BY <2>1 DEF Alone, Busy
  <2>3. ASSUME NEW q \in Procs, ~Busy(q) PROVE todo'[q] = <<>>
    <3>1. todo[q] = <<>>
      BY <2>3 DEF EvictInv
    <3>2. CASE q = p
      BY <1>1, <1>3, <3>1, <3>2, IdleStep
    <3>3. CASE q # p
      <4>1. Apart(q)
        BY <1>1, <1>3, <3>3, StepApart
      <4> QED BY <3>1, <4>1 DEF Apart
    <3> QED BY <3>2, <3>3
  <2>4. OrderOK'
    <3>1. CASE UNCHANGED <<cont, older>>
      BY <3>1 DEF EvictInv, OrderOK, Running
    <3>2. ASSUME NEW t \in Targets, NEW o, o.to \in Found, RunsCommand(p, t, o)
          PROVE  OrderOK'
      BY <1>1, <3>2, OrderKept DEF RunsCommand, EvictInv
    <3> QED BY <1>1, <1>3, <3>1, <3>2, StepActs
  <2>5. ASSUME NEW q \in Procs, Busy(q) PROVE Truth(q)' /\ Lists(q)'
    <3>1. Truth(q) /\ Lists(q)
      BY <2>5 DEF EvictInv
    <3>2. CASE q = p
      <4>1. Truth(p)'
        BY <1>1, <1>3, <3>1, <3>2, TruthKept
      <4>2. CASE RoomStep(p)
        BY <1>1, <3>1, <3>2, <4>1, <4>2, RoomLists DEF EvictInv
      <4>3. CASE ~RoomStep(p)
        BY <1>1, <1>3, <3>2, <4>1, <4>3, StepLists
      <4> QED BY <3>2, <4>1, <4>2, <4>3
    <3>3. CASE q # p
      <4>1. todo[p] = <<>>
        BY <2>5, <3>3 DEF EvictInv, Alone, Busy
      <4>2. cont' = cont /\ older' = older /\ seen'[q] = seen[q]
        BY <1>1, <1>3, <3>3, <4>1, IdleStep
      <4>3. Apart(q)
        BY <1>1, <1>3, <3>3, StepApart
      <4>4. Up' \subseteq Up
        BY <4>2 DEF Up, Running
      <4>5. CASE pc[q] \in {"remember", "done"}
        BY <3>1, <4>2, <4>3, <4>5 DEF Apart, Lists, Truth
      <4>6. CASE pc[q] \notin {"remember", "done"}
        BY <1>1, <3>1, <4>2, <4>3, <4>4, <4>6, ListsKept
      <4> QED BY <4>5, <4>6
    <3> QED BY <3>2, <3>3
  <2>6. Alone
    BY DEF EvictInv
  <2> QED BY <1>1, <2>2, <2>3, <2>4, <2>5, <2>6 DEF EvictInv
<1> QED BY <1>2, <1>3, ExitLists DEF Next

LEMMA EvictInit == Init /\ Alone => EvictInv
<1> SUFFICES ASSUME Init, Alone PROVE EvictInv
  OBVIOUS
<1>1. \A p \in Procs : /\ pc[p] = "remember" /\ todo[p] = cmd[p].picked
                       /\ \A t \in Targets : seen[p][t] = NotSeen
  BY DEF Init
<1>2. OrderOK
  <2>1. \A t, u \in Targets :
           IF t # u /\ Running(t) /\ Running(u)
           THEN <<t, u>> \in older <=> <<u, t>> \notin older
           ELSE <<t, u>> \notin older
    BY DEF Init
  <2>2. \A t, u, v \in Targets : <<t, u>> \in older /\ <<u, v>> \in older => <<t, v>> \in older
    BY DEF Init
  <2> QED BY <2>1, <2>2 DEF OrderOK
<1> QED BY <1>1, <1>2, InvInit DEF EvictInv, Busy, Truth, Lists

\* A lone dbrun that needs room stops the oldest of the servers it may stop: of
\* those that started before, none is its caller's, and with --force there is none.
\* However many servers there are, whatever stops by itself meanwhile, and whether
\* or not listings answer (pickEvictee, runningSince).
THEOREM EvictsCorrect ==
    ASSUME Faults \cap {"inspect", "stop"} = {}
    PROVE  Spec /\ Alone => EvictsTheOldest
<1> DEFINE Evicts ==
      \A p \in Procs, t \in Targets :
          Acts(p) /\ TakesDown(t) /\ At(p, "room.owner") =>
              \A u \in Containers \ {Target(p)} :
                  <<u, t>> \in older => cont[u].owner # Me(p) /\ ~cmd[p].force
<1>0. Replies
  BY DEF Replies
<1>1. Init /\ Alone => EvictInv
  BY EvictInit
<1>2. EvictInv /\ [Next]_vars => EvictInv'
  BY <1>0, EvictNext
<1>3. EvictInv /\ [Next]_vars => [Evicts]_vars
  <2> SUFFICES ASSUME EvictInv, Next, NEW p \in Procs, NEW t \in Targets,
                      Acts(p), TakesDown(t), At(p, "room.owner"),
                      NEW u \in Containers \ {Target(p)}, <<u, t>> \in older
               PROVE  cont[u].owner # Me(p) /\ ~cmd[p].force
    OBVIOUS
  <2>1. IInv /\ OrderOK /\ cont \in [Targets -> Found]
    BY DEF EvictInv, IInv, Cache, RunnerOK
  <2>2. \A q \in Procs : Step(q) => q = p
    BY <2>1, StepApart DEF Apart, Acts
  <2>3. \A x \in Targets : ~Exit(x)
    BY <2>1, ExitApart DEF Apart, Acts
  <2>4. Step(p) /\ cont' # cont
    BY <2>2, <2>3 DEF Next, TakesDown, Running
  <2>5. Busy(p) /\ Lists(p)
    BY <2>1, <2>4, IdleStep DEF EvictInv
  <2>6. RoomEvict(p)
    BY <2>4 DEF Step, RoomStep, StartStep, Remember, RememberFails, StartExists,
       StartOwner, StartPorts, StartClaimable, StartRebuild, StartRunning, StartClaim,
       StartTake, StartNoImage, StartAgain, StartStart, StartGiveUp, StartMissing,
       StartCreate, StartReady, RoomList, RoomLoad, RoomOwner, RoomMade, RoomRefused,
       StopLook, StopStop, RemoveOwner, RemoveRunning, RemoveExists, RemoveRm,
       TestWasUp, TestOwner, TestCleanup, At, LooksForOwner, Looks, runnerVars
  <2> DEFINE h == Oldest(Evictable(p))
  <2>7. /\ h \in up[p] /\ h \in Evictable(p)
        /\ \A g \in Evictable(p) : h.rank <= g.rank
        /\ \A g \in up[p] : g.rank \in Nat /\ g.name \in Targets
    <3>1. \A g \in up[p] : g.rank \in Nat /\ g.name \in Targets
      BY <2>1 DEF IInv, Other, RoomOK, Containers
    <3>2. Evictable(p) \subseteq up[p] /\ Evictable(p) # {}
      BY <2>6 DEF RoomEvict, Evictable
    <3> QED BY <3>1, <3>2, OldestIn
  <2>8. \E o : RunsCommand(p, h.name, o)
    BY <2>6 DEF RoomEvict
  <2> HIDE DEF h
  <2>9. t = h.name
    <3>1. \E o : cont' = [cont EXCEPT ![h.name] = o.to]
      BY <2>8 DEF RunsCommand, Becomes
    <3> QED BY <2>1, <3>1 DEF TakesDown, Running
  <2>10. Covers(p) /\ Ranked(p) /\ Held(p)
    BY <2>5 DEF Lists, At
  <2>11. u \in Targets /\ Running(u)
    BY <2>1 DEF OrderOK, Containers
  <2>12. PICK g \in up[p] : g.name = u
    <3>1. u \in Others(p)
      BY <2>11 DEF Others, Up
    <3>2. u \in KnownUp(p) /\ names[p] = {}
      BY <2>6, <2>7, <2>10, <3>1 DEF Covers, RoomEvict
    <3> QED BY <3>2 DEF KnownUp
  <2>13. g.rank < h.rank
    <3>1. <<g.name, g.rank>> \in Entries(p) /\ <<h.name, h.rank>> \in Entries(p)
      BY <2>7, <2>12 DEF Entries
    <3> QED BY <2>9, <2>10, <2>12, <3>1 DEF Ranked
  <2>14. g \notin Evictable(p)
    BY <2>7, <2>12, <2>13
  <2>15. ~cmd[p].force /\ g.owner # Me(p)
    BY <2>12, <2>14 DEF Evictable
  <2>16. g.owner = cont[u].owner
    BY <2>10, <2>11, <2>12 DEF Held, OwnerIn, Running, IsUp
  <2> QED BY <2>15, <2>16
<1>4. [][Evicts]_vars => EvictsTheOldest
  BY DEF EvictsTheOldest
<1> HIDE DEF Evicts
<1> QED BY <1>1, <1>2, <1>3, <1>4, PTL DEF Spec

=============================================================================
