----------------------------- MODULE SeedProofs -----------------------------
(***************************************************************************)
(* What one process may rely on in the kept database, for every bound on   *)
(* the commands, every choice of the faults that Undisturbed admits and    *)
(* every place to die but three.  That a database is clean, and not only   *)
(* whole, needs also that its build stops within its grace.  What happens  *)
(* without each of these assumptions is in the README.                     *)
(***************************************************************************)
EXTENDS Seed, TLAPS

\* Every action keeps the types, whatever the constants.
LEMMA TypeInit == Init => TypeOK
<1> SUFFICES ASSUME Init PROVE TypeOK
  OBVIOUS
<1>1. pc \in [Procs -> Labels] /\ \A p \in Procs : pc[p] = "idle"
  BY DEF Init, Labels
<1>2. db \in [Dirs -> Databases]
  BY DEF Init, Databases
<1>3. left \in [Procs -> 0..MaxCommands] /\ cmd \in [Procs -> {"start"} \cup Commands]
  <2>1. MaxCommands \in Nat
    BY SeedAssumption
  <2>2. MaxCommands \in 0..MaxCommands
    BY <2>1
  <2> QED BY <2>2 DEF Init
<1> QED BY <1>1, <1>2, <1>3 DEF Init, TypeOK, At

LEMMA TypeStep == TypeOK /\ [Next]_vars => TypeOK'
<1> SUFFICES ASSUME TypeOK, [Next]_vars PROVE TypeOK'
  OBVIOUS
<1>0. /\ pc \in [Procs -> Labels] /\ box \in Box \cup {Absent}
      /\ db \in [Dirs -> Databases] /\ done \in BOOLEAN
  BY DEF TypeOK
<1> DEFINE HostOK == box' \in Box \cup {Absent} /\ db' \in [Dirs -> Databases] /\ done' \in BOOLEAN
<1>1. ASSUME NEW p \in Procs, NEW label \in Labels, Goto(p, label), HostOK,
             label = "test.remove" => cmd[p] = "test",
             label \in {"drop.golden", "drop.done"} => cmd[p] = "remove --seed"
      PROVE  TypeOK'
  BY <1>1 DEF TypeOK, Goto, At
<1>2. ASSUME UNCHANGED <<pc, cmd, left>>, HostOK PROVE TypeOK'
  BY <1>2 DEF TypeOK, At
<1>3. UNCHANGED host => HostOK
  BY <1>0 DEF host
<1>4. ASSUME NEW d \in Dirs, RmDir(d) PROVE box' \in Box \cup {Absent} /\ db' \in [Dirs -> Databases]
  BY <1>0, <1>4 DEF RmDir, Up, Box, Databases
<1>5. ASSUME NEW d \in Dirs, Opens(d) PROVE db' \in [Dirs -> Databases]
  BY <1>0, <1>5 DEF Opens, Databases
<1>6. ASSUME NEW d \in Dirs, Run(d) PROVE box' \in Box \cup {Absent} /\ db' \in [Dirs -> Databases]
  BY <1>5, <1>6 DEF Run, Box
<1>7. ASSUME NEW d \in Dirs, RunFails(d) PROVE box' \in Box \cup {Absent} /\ db' \in [Dirs -> Databases]
  <2>1. box' = box \/ box' = [up |-> FALSE, on |-> d, orphan |-> FALSE, said |-> FALSE]
    BY <1>7 DEF RunFails
  <2>2. [up |-> FALSE, on |-> d, orphan |-> FALSE, said |-> FALSE] \in Box
    BY DEF Box
  <2> QED BY <1>0, <1>7, <2>1, <2>2 DEF RunFails
<1>8. ASSUME NEW how \in {"clean", "dirty"}, StopsAs(how)
      PROVE  box' \in Box \cup {Absent} /\ db' \in [Dirs -> Databases]
  BY <1>0, <1>8 DEF StopsAs, Up, Box, Databases
<1>9. RmBox => box' \in Box \cup {Absent}
  BY DEF RmBox
<1>10. ASSUME NEW what, Fails(what) PROVE HostOK
  BY <1>3, <1>10 DEF Fails
<1>11. "golden" \in Dirs /\ "live" \in Dirs
  BY DEF Dirs
<1>12. ASSUME NEW p \in Procs, Step(p) PROVE TypeOK'
  <2> USE DEF Labels
  <2>1. CASE Begin(p)
    <3>1. PICK c \in Commands : cmd' = [cmd EXCEPT ![p] = c]
            /\ pc' = [pc EXCEPT ![p] = CASE c \in {"start", "test"} -> "start.look"
                                         [] c = "stop" -> "stop"
                                         [] OTHER -> "remove.rm"]
      BY <2>1 DEF Begin
    <3>2. pc' \in [Procs -> Labels] /\ pc'[p] \in {"start.look", "stop", "remove.rm"}
      <4>1. PICK label \in {"start.look", "stop", "remove.rm"} : pc' = [pc EXCEPT ![p] = label]
        BY <3>1
      <4> QED BY <4>1, <1>0
    <3>3. cmd' \in [Procs -> {"start"} \cup Commands]
      BY <3>1 DEF TypeOK
    <3>4. left' \in [Procs -> 0..MaxCommands]
      <4>1. MaxCommands \in Nat /\ left \in [Procs -> 0..MaxCommands]
        BY SeedAssumption DEF TypeOK
      <4>2. left[p] \in 0..MaxCommands /\ left[p] > 0 /\ left' = [left EXCEPT ![p] = left[p] - 1]
        BY <2>1, <4>1 DEF Begin
      <4>3. left[p] - 1 \in 0..MaxCommands
        BY <4>1, <4>2
      <4> QED BY <4>1, <4>2, <4>3
    <3>5. \A q \in Procs : q # p => pc'[q] = pc[q] /\ cmd'[q] = cmd[q]
      BY <3>1, <1>0 DEF TypeOK
    <3>6. UNCHANGED host
      BY <2>1 DEF Begin
    <3> QED BY <3>2, <3>3, <3>4, <3>5, <3>6 DEF TypeOK, At, host
  <2>2. CASE Crash(p)
    BY <1>1, <1>3, <2>2 DEF Crash, Ends
  <2>3. CASE StartLook(p)
    BY <1>1, <1>3, <2>3 DEF StartLook
  <2>4. CASE StartStart(p)
    <3>1. CASE box # Absent /\ box' = [box EXCEPT !.up = TRUE, !.orphan = FALSE]
                 /\ Opens(box.on) /\ UNCHANGED done /\ Goto(p, "start.missing")
      <4>1. box' \in Box /\ box.on \in Dirs
        BY <1>0, <3>1 DEF Box
      <4> QED BY <1>0, <1>1, <1>5, <3>1, <4>1
    <3>2. CASE UNCHANGED host /\ (Goto(p, "start.missing") \/ Goto(p, "start.giveup"))
      BY <1>1, <1>3, <3>2
    <3> QED BY <2>4, <3>1, <3>2 DEF StartStart
  <2>5. CASE StartGiveUp(p)
    BY <1>0, <1>1, <1>9, <1>10, <2>5 DEF StartGiveUp
  <2>6. CASE StartMissing(p)
    BY <1>1, <1>3, <2>6 DEF StartMissing
  <2>7. CASE SeedCheck(p)
    BY <1>1, <1>3, <2>7 DEF SeedCheck
  <2>8. CASE BuildClear(p)
    <3>1. CASE /\ box' = IF Up /\ box.on = "golden" THEN [box EXCEPT !.orphan = TRUE] ELSE box
               /\ db' = [db EXCEPT !["golden"] = "partial"]
               /\ Goto(p, "build.create")
      <4>1. HostOK
        BY <1>0, <2>8, <3>1 DEF BuildClear, Up, Box, Databases
      <4> QED BY <1>1, <3>1, <4>1
    <3>2. CASE Ends(p) /\ (RmDir("golden") \/ UNCHANGED <<box, db>>)
      BY <1>0, <1>1, <1>4, <1>11, <2>8, <3>2 DEF BuildClear, Ends
    <3> QED BY <2>8, <3>1, <3>2 DEF BuildClear
  <2>9. CASE BuildCreate(p)
    BY <1>0, <1>1, <1>6, <1>7, <1>11, <2>9 DEF BuildCreate
  <2>10. CASE BuildWait(p)
    BY <1>1, <1>3, <2>10 DEF BuildWait
  <2>11. CASE BuildStop(p)
    BY <1>0, <1>1, <1>3, <1>8, <1>10, <2>11 DEF BuildStop
  <2>12. CASE BuildDone(p)
    BY <1>0, <1>1, <2>12 DEF BuildDone
  <2>13. CASE BuildRemove(p)
    BY <1>0, <1>1, <1>9, <1>10, <2>13 DEF BuildRemove, Ends
  <2>14. CASE BuildRename(p)
    BY <1>0, <1>1, <1>9, <1>10, <2>14 DEF BuildRename, Ends
  <2>15. CASE CopyClear(p)
    BY <1>0, <1>1, <1>4, <1>10, <1>11, <2>15 DEF CopyClear, Ends
  <2>16. CASE CopyCp(p)
    <3>1. HostOK
      BY <1>0, <2>16 DEF CopyCp, Dirs, Databases
    <3> QED BY <1>1, <2>16, <3>1 DEF CopyCp, Ends
  <2>17. CASE Create(p)
    BY <1>0, <1>1, <1>6, <1>7, <1>11, <2>17 DEF Create, Ends
  <2>18. CASE Ready(p)
    BY <1>1, <1>3, <2>18 DEF Ready, Ends
  <2>19. CASE TestRemove(p)
    BY <1>0, <1>1, <1>9, <1>10, <2>19 DEF TestRemove, Ends
  <2>20. CASE Stop(p)
    BY <1>0, <1>1, <1>3, <1>8, <1>10, <2>20 DEF Stop, Ends
  <2>21. CASE RemoveRm(p)
    BY <1>0, <1>1, <1>9, <1>10, <2>21 DEF RemoveRm
  <2>22. CASE DropLive(p)
    BY <1>0, <1>1, <1>4, <1>10, <1>11, <2>22 DEF DropLive, Ends
  <2>23. CASE DropGolden(p)
    <3>1. cmd[p] = "remove --seed"
      BY <2>23 DEF DropGolden, TypeOK, At
    <3>2. CASE db' = [db EXCEPT !["golden"] = "partial"] /\ UNCHANGED <<box, done, pc, cmd, left>>
      <4>1. HostOK
        BY <1>0, <3>2 DEF Databases
      <4> QED BY <1>2, <3>2, <4>1
    <3> QED BY <1>0, <1>1, <1>4, <1>10, <1>11, <2>23, <3>1, <3>2 DEF DropGolden
  <2>24. CASE DropDone(p)
    BY <1>0, <1>1, <1>10, <2>24 DEF DropDone, Ends
  <2> QED BY <1>12, <2>1, <2>2, <2>3, <2>4, <2>5, <2>6, <2>7, <2>8, <2>9, <2>10, <2>11,
             <2>12, <2>13, <2>14, <2>15, <2>16, <2>17, <2>18, <2>19, <2>20, <2>21, <2>22,
             <2>23, <2>24 DEF Step
<1>13. CASE BuildFinishes
  <2>1. HostOK
    BY <1>0, <1>13 DEF BuildFinishes, Up, Box, Databases
  <2> QED BY <1>2, <1>13, <2>1 DEF BuildFinishes
<1>14. CASE Exit
  BY <1>0, <1>2, <1>8, <1>14 DEF Exit
<1>15. CASE UNCHANGED vars
  BY <1>2, <1>3, <1>15 DEF vars, host
<1> QED BY <1>12, <1>13, <1>14, <1>15 DEF Next

\* Every variable keeps its type for every choice of the constants, and only the
\* command that was given removes the server or what is kept of it.
THEOREM TypeCorrect == Spec => []TypeOK
BY TypeInit, TypeStep, PTL DEF Spec

---------------------------------------------------------------------------
(* The kept database. *)

\* One process at a time, the removal of a container and of a mark that works, a
\* build that nothing but its own stop kills once its database is open, and no
\* death between the mark of a database and the removal of the container that
\* built it, nor while a kept database is dropped.
Undisturbed ==
    /\ \A p, q \in Procs : p = q
    /\ {"rm", "mark"} \cap Faults = {}
    /\ "built" \notin Exits
    /\ CrashAt \cap {"build.remove", "drop.golden", "drop.done"} = {}

\* A build that was stopped is clean, unless it needed more than its grace.
Settled ==
    \/ db["golden"] = "clean"
    \/ "grace" \in Faults /\ db["golden"] = "dirty"

\* The container that builds the database runs on golden, and once the line is
\* in its log it is up and the database is open.
OnGolden == box # Absent /\ box.on = "golden" /\ ~box.orphan

Building(p) ==
    /\ At(p, "build.wait") => OnGolden /\ (box.said => box.up /\ db["golden"] = "dirty")
    /\ At(p, "build.stop") => OnGolden /\ box.said /\ box.up /\ db["golden"] = "dirty"
    /\ At(p, "build.done") => OnGolden /\ ~box.up /\ Settled

\* Where a process knows whether the mark is there.
Marked(p) ==
    /\ pc[p] \in {"build.clear", "build.create", "build.wait", "build.stop", "build.done"} => ~done
    /\ pc[p] \in {"copy.clear", "copy.cp"} => done

Dropping(p) == pc[p] \in {"drop.golden", "drop.done"}

Removed(p) == pc[p] \in {"drop.live", "drop.golden", "drop.done"} => box = Absent

\* The mark stands over a whole database that no container is on, but for the
\* stopped one that built it, which is about to go.
Kept(p) ==
    /\ done /\ ~Dropping(p) => Settled
    /\ done /\ box # Absent => box.on = "live" \/ (At(p, "build.remove") /\ ~box.up)

PInv(p) == Building(p) /\ Marked(p) /\ Removed(p) /\ Kept(p)

IInv == TypeOK /\ \A p \in Procs : PInv(p)

LEMMA KeptInit == Init => IInv
<1> SUFFICES ASSUME Init PROVE IInv
  OBVIOUS
<1>1. TypeOK
  BY TypeInit
<1>2. ASSUME NEW p \in Procs PROVE PInv(p)
  <2>1. pc[p] = "idle" /\ ~done
    BY DEF Init
  <2> QED BY <2>1 DEF PInv, Building, Marked, Removed, Kept, Dropping, At
<1> QED BY <1>1, <1>2 DEF IInv

\* What one process does leaves what it relies on.
LEMMA KeptByStep ==
    ASSUME Undisturbed, TypeOK, NEW p \in Procs, PInv(p), Step(p)
    PROVE  PInv(p)'
<1>0. /\ pc \in [Procs -> Labels] /\ box \in Box \cup {Absent} /\ Absent \notin Box
      /\ db \in [Dirs -> Databases] /\ done \in BOOLEAN
      /\ "golden" \in Dirs /\ "live" \in Dirs
  BY SeedAssumption DEF TypeOK, Dirs
<1>1. \A label : Goto(p, label) => pc'[p] = label
  BY <1>0 DEF Goto
<1>2. Ends(p) => pc'[p] = "idle"
  BY <1>1 DEF Ends
<1>4. \A what : Fails(what) => UNCHANGED host
  BY DEF Fails
<1> USE DEF PInv, Building, Marked, Removed, Kept, Dropping, At, OnGolden, Settled
<1>5. CASE Begin(p)
  <2>1. pc'[p] \in {"start.look", "stop", "remove.rm"} /\ UNCHANGED host /\ pc[p] = "idle"
    BY <1>0, <1>5 DEF Begin
  <2> QED BY <2>1 DEF host
<1>6. CASE Crash(p)
  <2>1. pc[p] \notin {"build.remove", "drop.golden", "drop.done"}
    BY <1>6 DEF Crash, Undisturbed
  <2> QED BY <1>2, <1>6, <2>1 DEF Crash, host
<1>7. CASE StartLook(p)
  BY <1>1, <1>7 DEF StartLook, host
<1>8. CASE StartStart(p)
  <2>1. CASE /\ box # Absent /\ ~Up /\ db[box.on] # "none"
             /\ box' = [box EXCEPT !.up = TRUE, !.orphan = FALSE]
             /\ Opens(box.on) /\ UNCHANGED done
             /\ Goto(p, "start.missing")
    <3>1. box' # Absent /\ box'.on = box.on /\ box.on \in Dirs
      BY <1>0, <2>1 DEF Box
    <3>2. done => box.on = "live"
      BY <1>8, <2>1 DEF StartStart
    <3>3. box.on = "live" => db'["golden"] = db["golden"]
      BY <1>0, <2>1 DEF Opens
    <3>4. pc[p] = "start.start" /\ pc'[p] = "start.missing"
      BY <1>1, <1>8, <2>1 DEF StartStart
    <3> QED BY <2>1, <3>1, <3>2, <3>3, <3>4
  <2>2. CASE UNCHANGED host /\ (Goto(p, "start.missing") \/ Goto(p, "start.giveup"))
    BY <1>1, <1>8, <2>2 DEF StartStart, host
  <2> QED BY <1>8, <2>1, <2>2 DEF StartStart
<1>9. CASE StartGiveUp(p)
  BY <1>1, <1>4, <1>9 DEF StartGiveUp, RmBox, host
<1>10. CASE StartMissing(p)
  BY <1>1, <1>10 DEF StartMissing, host
<1>11. CASE SeedCheck(p)
  BY <1>1, <1>11 DEF SeedCheck, host
<1>12. CASE BuildClear(p)
  <2>1. pc[p] = "build.clear" /\ ~done /\ ~done' /\ pc'[p] \in {"build.create", "idle"}
    BY <1>0, <1>1, <1>2, <1>12 DEF BuildClear
  <2> QED BY <2>1
<1>13. CASE BuildCreate(p)
  <2>1. pc[p] = "build.create" /\ ~done /\ ~done'
    BY <1>13 DEF BuildCreate
  <2>2. CASE Run("golden") /\ Goto(p, "build.wait")
    <3>1. box' = [up |-> TRUE, on |-> "golden", orphan |-> FALSE, said |-> FALSE]
      BY <2>2 DEF Run
    <3>2. box' # Absent
      <4>1. box' \in Box
        BY <1>0, <3>1 DEF Box
      <4> QED BY <1>0, <4>1
    <3>3. pc'[p] = "build.wait"
      BY <1>1, <2>2
    <3> QED BY <2>1, <3>1, <3>2, <3>3
  <2>3. CASE Goto(p, "build.rename")
    BY <1>1, <2>1, <2>3
  <2> QED BY <1>13, <2>2, <2>3 DEF BuildCreate
<1>14. CASE BuildWait(p)
  BY <1>1, <1>14 DEF BuildWait, host
<1>15. CASE BuildStop(p)
  <2>1. pc[p] = "build.stop" /\ ~done /\ box # Absent /\ done' = done
    BY <1>4, <1>15 DEF BuildStop, host
  <2>2. ASSUME NEW how \in {"clean", "dirty"}, how = "dirty" => "grace" \in Faults,
               StopsAs(how), Goto(p, "build.done")
        PROVE  PInv(p)'
    <3>1. /\ box' = [box EXCEPT !.up = FALSE]
          /\ box \in Box /\ Up /\ ~box.orphan /\ box.on = "golden" /\ db["golden"] = "dirty"
      BY <1>0, <2>1, <2>2 DEF StopsAs, Up
    <3>2. box' \in Box /\ ~box'.up /\ box'.on = "golden" /\ ~box'.orphan
      BY <3>1 DEF Box
    <3>3. db'["golden"] = how /\ Settled'
      BY <1>0, <2>2, <3>1 DEF StopsAs
    <3>4. pc'[p] = "build.done" /\ done' = done /\ box' # Absent
      BY <1>0, <1>1, <2>1, <2>2, <3>2
    <3> QED BY <2>1, <3>2, <3>3, <3>4
  <2>3. CASE Goto(p, "build.rename")
    BY <1>1, <2>1, <2>3
  <2> QED BY <1>15, <2>2, <2>3 DEF BuildStop
<1>16. CASE BuildDone(p)
  <2>1. pc[p] = "build.done" /\ pc'[p] = "build.remove" /\ box' = box /\ db' = db
    BY <1>1, <1>16 DEF BuildDone
  <2> QED BY <2>1
<1>17. CASE BuildRemove(p)
  <2>1. box' = Absent /\ db' = db /\ done' = done /\ pc[p] = "build.remove"
    BY <1>17 DEF BuildRemove, RmBox, Fails, Undisturbed
  <2>2. pc'[p] = IF done THEN "copy.clear" ELSE "idle"
    BY <1>1, <1>2, <1>17 DEF BuildRemove
  <2> QED BY <2>1, <2>2
<1>18. CASE BuildRename(p)
  BY <1>2, <1>4, <1>18 DEF BuildRename, RmBox, host
<1>19. CASE CopyClear(p)
  <2>1. pc[p] = "copy.clear" /\ done /\ done' = done
    BY <1>4, <1>19 DEF CopyClear, host
  <2>2. pc'[p] \in {"copy.cp", "idle"}
    BY <1>1, <1>2, <1>19 DEF CopyClear
  <2>3. db'["golden"] = db["golden"]
    BY <1>0, <1>4, <1>19 DEF CopyClear, RmDir, host
  <2>4. box' # Absent => box # Absent /\ box'.on = box.on
    <3>1. box' = box \/ (box \in Box /\ box' = [box EXCEPT !.orphan = TRUE])
      BY <1>0, <1>4, <1>19 DEF CopyClear, RmDir, Up, host
    <3> QED BY <1>0, <3>1 DEF Box
  <2> QED BY <2>1, <2>2, <2>3, <2>4
<1>20. CASE CopyCp(p)
  <2>1. pc[p] = "copy.cp" /\ done /\ done' = done /\ box' = box
    BY <1>20 DEF CopyCp
  <2>2. pc'[p] \in {"create", "idle"}
    BY <1>1, <1>2, <1>20 DEF CopyCp
  <2>3. db'["golden"] = db["golden"]
    BY <1>0, <1>20 DEF CopyCp
  <2> QED BY <2>1, <2>2, <2>3
<1>21. CASE Create(p)
  <2>1. pc[p] = "create" /\ done' = done /\ pc'[p] \in {"ready", "idle"}
    BY <1>1, <1>2, <1>21 DEF Create
  <2>2. db'["golden"] = db["golden"]
    BY <1>0, <1>21 DEF Create, Run, RunFails, Opens
  <2>3. box' = box \/ box'.on = "live"
    BY <1>21 DEF Create, Run, RunFails
  <2> QED BY <2>1, <2>2, <2>3
<1>22. CASE Ready(p)
  BY <1>1, <1>2, <1>22 DEF Ready, host
<1>23. CASE TestRemove(p)
  BY <1>2, <1>4, <1>23 DEF TestRemove, RmBox, host
<1>24. CASE Stop(p)
  <2>1. pc[p] = "stop" /\ pc'[p] = "idle" /\ done' = done
    BY <1>2, <1>4, <1>24 DEF Stop, host
  <2>2. CASE UNCHANGED host
    BY <2>1, <2>2 DEF host
  <2>3. ASSUME NEW how \in Databases, StopsAs(how) PROVE PInv(p)'
    <3>1. box \in Box /\ box' \in Box /\ box'.on = box.on
      BY <1>0, <2>3 DEF StopsAs, Box
    <3>2. box.on = "live" => db'["golden"] = db["golden"]
      BY <1>0, <2>3 DEF StopsAs
    <3>3. done => box.on = "live"
      BY <1>0, <2>1, <3>1
    <3> QED BY <2>1, <3>1, <3>2, <3>3
  <2>4. "clean" \in Databases /\ "dirty" \in Databases
    BY DEF Databases
  <2> QED BY <1>4, <1>24, <2>2, <2>3, <2>4 DEF Stop
<1>25. CASE RemoveRm(p)
  BY <1>1, <1>25 DEF RemoveRm, RmBox, Fails, Undisturbed
<1>26. CASE DropLive(p)
  <2>1. pc[p] = "drop.live" /\ box = Absent /\ done' = done
    BY <1>4, <1>26 DEF DropLive, host
  <2>2. pc'[p] \in {"drop.golden", "idle"}
    BY <1>1, <1>2, <1>26 DEF DropLive
  <2>3. db'["golden"] = db["golden"] /\ box' = Absent
    BY <1>0, <1>4, <1>26, <2>1 DEF DropLive, RmDir, Up, host
  <2> QED BY <2>1, <2>2, <2>3
<1>27. CASE DropGolden(p)
  <2>1. pc[p] = "drop.golden" /\ box = Absent
    BY <1>27 DEF DropGolden
  <2>2. pc'[p] \in {"drop.golden", "drop.done"}
    BY <1>1, <1>27 DEF DropGolden
  <2>3. box' = Absent
    BY <1>4, <1>27, <2>1 DEF DropGolden, RmDir, Up, host
  <2> QED BY <2>1, <2>2, <2>3
<1>28. CASE DropDone(p)
  BY <1>2, <1>28 DEF DropDone, Fails, Undisturbed
<1> QED BY <1>5, <1>6, <1>7, <1>8, <1>9, <1>10, <1>11, <1>12, <1>13, <1>14, <1>15, <1>16,
           <1>17, <1>18, <1>19, <1>20, <1>21, <1>22, <1>23, <1>24, <1>25, <1>26, <1>27,
           <1>28 DEF Step

\* What happens by itself leaves what a process relies on.
LEMMA KeptByHost ==
    ASSUME Undisturbed, TypeOK, NEW p \in Procs, PInv(p), BuildFinishes \/ Exit
    PROVE  PInv(p)'
<1>1. /\ box \in Box /\ Up /\ pc' = pc /\ done' = done
      /\ db \in [Dirs -> Databases] /\ Absent \notin Box
  BY SeedAssumption DEF TypeOK, BuildFinishes, Exit, Up
<1>2. box' \in Box /\ box' # Absent /\ box'.on = box.on /\ box'.orphan = box.orphan
  BY <1>1 DEF BuildFinishes, Exit, StopsAs, Box
<1>3. box.on = "live" => db'["golden"] = db["golden"]
  BY <1>1 DEF BuildFinishes, Exit, StopsAs, Dirs
<1>4. done => box.on = "live"
  BY <1>1 DEF PInv, Kept, Up
<1>5. pc[p] # "build.done"
  BY <1>1 DEF PInv, Building, Up, At
<1>6. Kept(p)'
  BY <1>1, <1>2, <1>3, <1>4 DEF PInv, Kept, Dropping, Settled, At
<1>7. Marked(p)' /\ Removed(p)'
  BY <1>1 DEF PInv, Marked, Removed, Up
<1>8. ASSUME pc[p] \in {"build.wait", "build.stop"} PROVE Building(p)'
  <2>1. box.on = "golden" /\ ~box.orphan
    BY <1>8 DEF PInv, Building, OnGolden, At
  <2>2. CASE BuildFinishes
    <3>1. pc[p] = "build.wait" /\ box' = [box EXCEPT !.said = TRUE]
      BY <1>8, <2>2 DEF BuildFinishes, PInv, Building, At
    <3>2. box'.said /\ box'.up
      BY <1>1, <3>1 DEF Box, Up
    <3>3. db'["golden"] = "dirty"
      BY <1>1, <2>1, <2>2 DEF BuildFinishes, Dirs
    <3> QED BY <1>1, <1>2, <2>1, <3>1, <3>2, <3>3 DEF Building, OnGolden, At
  <2>3. CASE Exit
    <3>1. ~box.said
      BY <1>1, <2>1, <2>3 DEF Exit, Undisturbed, Box
    <3>2. pc[p] = "build.wait"
      BY <1>8, <3>1 DEF PInv, Building, At
    <3>3. ~box'.said
      BY <1>1, <2>3, <3>1 DEF Exit, StopsAs, Box
    <3> QED BY <1>1, <1>2, <2>1, <3>2, <3>3 DEF Building, OnGolden, At
  <2> QED BY <2>2, <2>3
<1>9. ASSUME pc[p] \notin {"build.wait", "build.stop"} PROVE Building(p)'
  BY <1>1, <1>5, <1>9 DEF Building, At
<1> QED BY <1>6, <1>7, <1>8, <1>9 DEF PInv

LEMMA KeptStep == Undisturbed /\ IInv /\ [Next]_vars => IInv'
<1> SUFFICES ASSUME Undisturbed, IInv, [Next]_vars PROVE IInv'
  OBVIOUS
<1>1. TypeOK /\ \A p \in Procs : PInv(p)
  BY DEF IInv
<1>2. TypeOK'
  BY <1>1, TypeStep
<1>3. ASSUME NEW p \in Procs PROVE PInv(p)'
  <2>1. CASE \E q \in Procs : Step(q)
    <3>1. Step(p)
      BY <2>1 DEF Undisturbed
    <3> QED BY <1>1, <3>1, KeptByStep
  <2>2. CASE BuildFinishes \/ Exit
    BY <1>1, <2>2, KeptByHost
  <2>3. CASE UNCHANGED vars
    BY <1>1, <2>3 DEF vars, PInv, Building, Marked, Removed, Kept, Dropping, OnGolden,
       Settled, At
  <2> QED BY <2>1, <2>2, <2>3 DEF Next
<1> QED BY <1>2, <1>3 DEF IInv

LEMMA KeptAlways ==
    ASSUME Undisturbed
    PROVE  Spec => []IInv
<1>1. IInv /\ [Next]_vars => IInv'
  BY KeptStep
<1> QED BY KeptInit, <1>1, PTL DEF Spec

\* A mark that nobody is dropping stands over a database that is there and whole
\* (prepareSeed trusts the mark alone), even if its build was killed by its stop.
THEOREM WholeCorrect ==
    ASSUME Undisturbed, Procs # {}
    PROVE  Spec => []DoneMeansWhole
<1>1. IInv => DoneMeansWhole
  BY DEF IInv, PInv, Kept, Dropping, Settled, DoneMeansWhole
<1> QED BY KeptAlways, <1>1, PTL

\* And if every build stops within its grace the database was stopped cleanly
\* (buildSeed).
THEOREM MarkCorrect ==
    ASSUME Undisturbed, "grace" \notin Faults, Procs # {}
    PROVE  Spec => []DoneMeansKept
<1>1. IInv => DoneMeansKept
  BY DEF IInv, PInv, Kept, Dropping, Settled, DoneMeansKept
<1> QED BY KeptAlways, <1>1, PTL

\* No container runs on a golden copy that is marked done (seedDirs).
THEOREM GoldenCorrect ==
    ASSUME Undisturbed, Procs # {}
    PROVE  Spec => []GoldenLeftAlone
<1>1. IInv => GoldenLeftAlone
  BY DEF IInv, PInv, Kept, GoldenLeftAlone, Up
<1> QED BY KeptAlways, <1>1, PTL

\* A start that goes on from the copy has copied a database that was whole and
\* stopped cleanly, if every build stops within its grace (buildSeed).
THEOREM CopyCorrect ==
    ASSUME Undisturbed, "grace" \notin Faults
    PROVE  Spec => CopiesOnlyClean
<1> DEFINE Copies == \A p \in Procs :
              At(p, "copy.cp") /\ pc'[p] = "create" => db["golden"] = "clean"
<1>1. IInv => Copies
  BY DEF IInv, PInv, Marked, Kept, Dropping, Settled, At
<1>2. IInv => [Copies]_vars
  BY <1>1
<1> HIDE DEF Copies
<1>3. Spec => [][Copies]_vars
  BY KeptAlways, <1>2, PTL
<1> QED BY <1>3 DEF Copies, CopiesOnlyClean

---------------------------------------------------------------------------
(* The copy. *)

\* From where a start asks for the kept database, no container is on the copy, or
\* the start would clear and copy under it.
Copying == {"seed.check", "build.clear", "build.create", "build.wait", "build.stop",
            "build.done", "build.remove", "build.rename", "copy.clear", "copy.cp", "create"}

Free(p) ==
    /\ pc[p] \in Copying => box = Absent \/ box.on = "golden"
    /\ At(p, "start.missing") => box = Absent \/ box.on = "golden" \/ box.up
    /\ At(p, "create") => db["live"] # "partial"

\* Running or not, a container is on no part of a copy.
RunsWhole == box # Absent /\ box.on = "live" => db["live"] # "partial"

WInv == IInv /\ RunsWhole /\ \A p \in Procs : Free(p)

\* What one process does leaves the copy to it.
LEMMA FreeByStep ==
    ASSUME Undisturbed, WInv, NEW p \in Procs, Step(p)
    PROVE  RunsWhole' /\ Free(p)'
<1>0. /\ pc \in [Procs -> Labels] /\ box \in Box \cup {Absent} /\ Absent \notin Box
      /\ db \in [Dirs -> Databases] /\ "golden" \in Dirs /\ "live" \in Dirs
      /\ Dirs = {"golden", "live"} /\ "golden" # "live"
      /\ RunsWhole /\ Free(p) /\ PInv(p)
  BY SeedAssumption DEF WInv, IInv, TypeOK, Dirs
<1>1. \A label : Goto(p, label) => pc'[p] = label
  BY <1>0 DEF Goto
<1>2. Ends(p) => pc'[p] = "idle"
  BY <1>1 DEF Ends
<1>3. \A what : Fails(what) => UNCHANGED host
  BY DEF Fails
<1>4. ~Fails("rm")
  BY DEF Undisturbed, Fails
<1> USE DEF RunsWhole, Free, Copying, At
\* A step that leaves the container where it is, and the copy whole.
<1>5. ASSUME box' = box \/ box' = Absent \/ box'.on = "golden",
             db'["live"] = db["live"] \/ db'["live"] \in {"none", "clean", "dirty"},
             pc'[p] \in {"idle", "start.look", "start.start", "start.giveup", "ready", "stop",
                        "test.remove", "remove.rm", "drop.live", "drop.golden", "drop.done"}
      PROVE  RunsWhole' /\ Free(p)'
  <2>1. box' # Absent /\ box'.on = "live" => box # Absent /\ box.on = "live"
    BY <1>0, <1>5
  <2> QED BY <1>0, <1>5, <2>1
<1>6. ASSUME box' = box \/ box' = Absent \/ box'.on = "golden", db'["live"] = db["live"],
             pc[p] \in Copying, pc'[p] \in Copying \ {"create"}
      PROVE  RunsWhole' /\ Free(p)'
  BY <1>0, <1>6
<1>7. CASE Begin(p)
  <2>1. pc'[p] \in {"start.look", "stop", "remove.rm"} /\ UNCHANGED host
    BY <1>0, <1>7 DEF Begin
  <2> QED BY <1>5, <2>1 DEF host
<1>8. CASE Crash(p)
  BY <1>2, <1>5, <1>8 DEF Crash, host
<1>9. CASE StartLook(p)
  BY <1>0, <1>1, <1>9 DEF StartLook, host, Up
<1>10. CASE StartStart(p)
  <2>1. CASE /\ box # Absent /\ ~Up /\ db[box.on] # "none"
             /\ box' = [box EXCEPT !.up = TRUE, !.orphan = FALSE]
             /\ Opens(box.on) /\ UNCHANGED done
             /\ Goto(p, "start.missing")
    <3>1. box'.on = box.on /\ box'.up /\ pc'[p] = "start.missing"
      BY <1>0, <1>1, <2>1 DEF Box
    <3>2. db'["live"] = db["live"] \/ db'["live"] = "dirty"
      BY <1>0, <2>1 DEF Opens
    <3> QED BY <1>0, <2>1, <3>1, <3>2
  <2>2. CASE Up /\ UNCHANGED host /\ Goto(p, "start.missing")
    BY <1>0, <1>1, <2>2 DEF host, Up
  <2>3. CASE UNCHANGED host /\ Goto(p, "start.giveup")
    BY <1>1, <1>5, <2>3 DEF host
  <2> QED BY <1>10, <2>1, <2>2, <2>3 DEF StartStart
<1>11. CASE StartGiveUp(p)
  <2>1. box' = Absent /\ db' = db /\ pc'[p] = "start.missing"
    BY <1>1, <1>4, <1>11 DEF StartGiveUp, RmBox
  <2> QED BY <2>1
<1>12. CASE StartMissing(p)
  BY <1>0, <1>1, <1>12 DEF StartMissing, host, Up
<1>13. CASE SeedCheck(p)
  BY <1>1, <1>6, <1>13 DEF SeedCheck, host
<1>14. CASE BuildClear(p)
  <2>1. pc[p] = "build.clear" /\ pc'[p] \in {"build.create", "idle"}
    BY <1>1, <1>2, <1>14 DEF BuildClear
  <2>2. db'["live"] = db["live"]
    BY <1>0, <1>14 DEF BuildClear, RmDir
  <2>3. box' = box \/ box'.on = "golden"
    <3>1. box' = box \/ (Up /\ box.on = "golden" /\ box' = [box EXCEPT !.orphan = TRUE])
      BY <1>14 DEF BuildClear, RmDir
    <3> QED BY <1>0, <3>1 DEF Box, Up
  <2> QED BY <1>5, <1>6, <2>1, <2>2, <2>3
<1>15. CASE BuildCreate(p)
  <2>1. pc[p] = "build.create" /\ pc'[p] \in {"build.wait", "build.rename"}
    BY <1>1, <1>15 DEF BuildCreate
  <2>2. box' = box \/ box'.on = "golden"
    BY <1>15 DEF BuildCreate, Run, RunFails
  <2>3. db'["live"] = db["live"]
    BY <1>0, <1>15 DEF BuildCreate, Run, RunFails, Opens
  <2> QED BY <1>6, <2>1, <2>2, <2>3
<1>16. CASE BuildWait(p)
  BY <1>1, <1>6, <1>16 DEF BuildWait, host
<1>17. CASE BuildStop(p)
  <2>1. pc[p] = "build.stop" /\ pc'[p] \in {"build.done", "build.rename"}
    BY <1>1, <1>17 DEF BuildStop
  <2>2. box' = box \/ box'.on = "golden"
    BY <1>0, <1>17, <2>1 DEF BuildStop, StopsAs, Fails, host, Box, PInv, Building, OnGolden
  <2>3. db'["live"] = db["live"]
    <3>1. OnGolden
      BY <1>0, <2>1 DEF PInv, Building
    <3> QED BY <1>0, <1>17, <3>1 DEF BuildStop, StopsAs, Fails, host, OnGolden
  <2> QED BY <1>6, <2>1, <2>2, <2>3
<1>18. CASE BuildDone(p)
  BY <1>1, <1>6, <1>18 DEF BuildDone
<1>19. CASE BuildRemove(p)
  <2>1. box' = Absent /\ db' = db /\ pc'[p] \in {"copy.clear", "idle"}
    BY <1>1, <1>2, <1>4, <1>19 DEF BuildRemove, RmBox
  <2> QED BY <2>1
<1>20. CASE BuildRename(p)
  BY <1>2, <1>5, <1>20 DEF BuildRename, RmBox, Fails, host
<1>21. CASE CopyClear(p)
  <2>1. pc[p] = "copy.clear" /\ pc'[p] \in {"copy.cp", "idle"}
    BY <1>1, <1>2, <1>21 DEF CopyClear
  <2>2. box' = box
    BY <1>0, <2>1, <1>21 DEF CopyClear, RmDir, Fails, host, Up
  <2>3. db'["live"] = db["live"] \/ db'["live"] = "none"
    BY <1>0, <1>21 DEF CopyClear, RmDir, Fails, host
  <2> QED BY <1>0, <2>1, <2>2, <2>3
<1>22. CASE CopyCp(p)
  <2>1. pc[p] = "copy.cp" /\ box' = box /\ (box = Absent \/ box.on = "golden")
    BY <1>0, <1>22 DEF CopyCp
  <2>2. CASE pc'[p] = "create" /\ db' = [db EXCEPT !["live"] = db["golden"]]
    <3>1. db["golden"] \in {"clean", "dirty"}
      BY <1>0, <2>1 DEF PInv, Marked, Kept, Dropping, Settled
    <3> QED BY <1>0, <2>1, <2>2, <3>1
  <2>3. CASE pc'[p] = "idle"
    BY <2>1, <2>3
  <2> QED BY <1>1, <1>2, <1>22, <2>2, <2>3 DEF CopyCp
<1>23. CASE Create(p)
  <2>1. pc[p] = "create" /\ db["live"] # "partial" /\ pc'[p] \in {"ready", "idle"}
    BY <1>0, <1>1, <1>2, <1>23 DEF Create
  <2>2. db'["live"] # "partial"
    BY <1>0, <1>23, <2>1 DEF Create, Run, RunFails, Opens
  <2> QED BY <2>1, <2>2
<1>24. CASE Ready(p)
  BY <1>1, <1>2, <1>5, <1>24 DEF Ready, host
<1>25. CASE TestRemove(p)
  BY <1>2, <1>5, <1>25 DEF TestRemove, RmBox, Fails, host
<1>26. CASE Stop(p)
  <2>1. pc'[p] = "idle"
    BY <1>2, <1>26 DEF Stop
  <2>2. CASE UNCHANGED host
    BY <1>5, <2>1, <2>2 DEF host
  <2>3. ASSUME NEW how \in {"clean", "dirty"}, StopsAs(how) PROVE RunsWhole' /\ Free(p)'
    <3>1. box # Absent /\ box'.on = box.on
      BY <1>0, <2>3 DEF StopsAs, Box
    <3>2. db'["live"] = db["live"] \/ db'["live"] \in {"clean", "dirty"}
      BY <1>0, <2>3 DEF StopsAs
    <3> QED BY <1>0, <2>1, <3>1, <3>2
  <2> QED BY <1>26, <2>2, <2>3 DEF Stop, Fails
<1>27. CASE RemoveRm(p)
  BY <1>1, <1>5, <1>27 DEF RemoveRm, RmBox, Fails, host
<1>28. CASE DropLive(p) \/ DropGolden(p)
  <2>1. box = Absent /\ pc[p] \in {"drop.live", "drop.golden"}
    BY <1>0, <1>28 DEF DropLive, DropGolden, PInv, Removed
  <2>2. box' = Absent
    BY <1>28, <2>1 DEF DropLive, DropGolden, RmDir, Fails, host, Up
  <2>3. pc'[p] \in {"drop.golden", "drop.done", "idle"}
    BY <1>1, <1>2, <1>28 DEF DropLive, DropGolden
  <2> QED BY <2>2, <2>3
<1>29. CASE DropDone(p)
  BY <1>2, <1>5, <1>29 DEF DropDone, Fails, host
<1> QED BY <1>7, <1>8, <1>9, <1>10, <1>11, <1>12, <1>13, <1>14, <1>15, <1>16, <1>17, <1>18,
           <1>19, <1>20, <1>21, <1>22, <1>23, <1>24, <1>25, <1>26, <1>27, <1>28, <1>29 DEF Step

\* What happens by itself leaves it too, if no server exits that runs on the copy.
LEMMA FreeByHost ==
    ASSUME "copy" \notin Exits, WInv, BuildFinishes \/ Exit
    PROVE  RunsWhole' /\ \A p \in Procs : Free(p)'
<1>1. /\ box \in Box \cup {Absent} /\ box # Absent /\ box.up /\ pc' = pc
      /\ db \in [Dirs -> Databases] /\ Dirs = {"golden", "live"}
  BY DEF WInv, IInv, TypeOK, Dirs, BuildFinishes, Exit, Up
<1>2. box' # Absent /\ box'.on = box.on
  <2>1. box \in Box /\ Absent \notin Box
    BY <1>1, SeedAssumption
  <2>2. box' \in Box /\ box'.on = box.on
    BY <2>1 DEF BuildFinishes, Exit, StopsAs, Box
  <2> QED BY <2>1, <2>2
<1>3. db'["live"] = db["live"] \/ (box.on = "live" /\ db'["live"] \in {"clean", "dirty"})
  BY <1>1 DEF BuildFinishes, Exit, StopsAs
<1>4. RunsWhole'
  BY <1>1, <1>2, <1>3 DEF WInv, RunsWhole
<1>5. box'.up \/ box.on = "golden"
  <2>1. CASE BuildFinishes
    BY <1>1, <2>1 DEF BuildFinishes, Box
  <2>2. CASE Exit
    <3>1. box.on # "live"
      BY <2>2 DEF Exit
    <3>2. box \in Box
      BY <1>1
    <3> QED BY <1>1, <3>1, <3>2 DEF Box
  <2> QED BY <2>1, <2>2
<1>6. ASSUME NEW p \in Procs PROVE Free(p)'
  BY <1>1, <1>2, <1>3, <1>5 DEF WInv, Free, Copying, At
<1> QED BY <1>4, <1>6

LEMMA FreeStep ==
    ASSUME Undisturbed, "copy" \notin Exits, Procs # {}, WInv, [Next]_vars
    PROVE  WInv'
<1>1. IInv'
  BY KeptStep DEF WInv
<1>2. CASE \E q \in Procs : Step(q)
  <2>1. PICK q \in Procs : Step(q)
    BY <1>2
  <2>2. RunsWhole' /\ Free(q)'
    BY <2>1, FreeByStep
  <2>3. \A p \in Procs : p = q
    BY DEF Undisturbed
  <2> QED BY <1>1, <2>2, <2>3 DEF WInv
<1>3. CASE BuildFinishes \/ Exit
  BY <1>1, <1>3, FreeByHost DEF WInv
<1>4. CASE UNCHANGED vars
  BY <1>1, <1>4 DEF vars, WInv, RunsWhole, Free, At
<1> QED BY <1>2, <1>3, <1>4 DEF Next

\* No container runs on part of a database, wherever a copy was cut short, if no
\* server exits on its own while it runs on the copy (doStart, prepareSeed).
THEOREM CopyWhole ==
    ASSUME Undisturbed, "copy" \notin Exits, Procs # {}
    PROVE  Spec => []RunsOnWholeCopy
<1>1. Init => WInv
  <2>1. Init => RunsWhole /\ \A p \in Procs : Free(p)
    BY DEF Init, RunsWhole, Free, Copying, At
  <2> QED BY <2>1, KeptInit DEF WInv
<1>2. WInv /\ [Next]_vars => WInv'
  BY FreeStep
<1>3. WInv => RunsOnWholeCopy
  BY DEF WInv, RunsWhole, RunsOnWholeCopy, Up
<1> QED BY <1>1, <1>2, <1>3, PTL DEF Spec
=============================================================================
