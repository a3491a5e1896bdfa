----------------------------- MODULE MCServers -----------------------------
(* Instances of Servers: which processes run which commands over which      *)
(* targets, and what the runner holds when they begin.                      *)
EXTENDS Servers, TLC

CONSTANTS p1, p2, alice, bob, s1, s2, s3, m1

Line(name, picked, force) ==
    [name |-> name, picked |-> picked, force |-> force,
     keep |-> FALSE, remove |-> FALSE, yes |-> FALSE]

Made(o, running) == [owner |-> o, ports |-> TRUE, running |-> running]

---------------------------------------------------------------------------
\* Two sessions with one process each, and one place.
TwoOwners == (p1 :> alice) @@ (p2 :> bob)

Nothing == [t \in Targets |-> Absent]

\* They fight over one container, which may be any: every pair of commands.
AnyCommand(force) == { Line(name, <<s1>>, force) : name \in Commands }

AnyContainer ==
    {Absent} \cup [owner : {alice, bob, NoOwner}, ports : BOOLEAN, running : BOOLEAN]

OverOne == { (s1 :> c) @@ Nothing : c \in AnyContainer }

\* Or there is a second, which a start may have to stop.
BesideAnother ==
    { Line("start", <<s1>>, FALSE), Line("start", <<s2, s1>>, FALSE),
      Line("remove", <<s2>>, FALSE), Line("test", <<s2>>, FALSE) }

OverTwo ==
    { (s1 :> c) @@ (s2 :> d) @@ Nothing :
        c, d \in {Absent, Made(alice, TRUE), Made(bob, TRUE), Made(alice, FALSE)} }

\* Or the first is alone, and starts more containers than may be up at once, beside
\* a machine and what is up already, or tests one and keeps it.
Idle == Line("start", <<>>, FALSE)

MoreThanFit ==
    { Line("start", <<s1, s2, s3>>, FALSE), Line("start", <<s3, m1, s1>>, TRUE),
      Line("remove", <<m1, s2>>, FALSE),
      [Line("test", <<s2, s3>>, FALSE) EXCEPT !.keep = TRUE],
      [Line("test", <<m1, s1>>, FALSE) EXCEPT !.remove = TRUE] }

UpToTwo ==
    { (s1 :> c) @@ (s2 :> d) @@ (s3 :> e) @@ (m1 :> f) :
        c \in {Absent, [owner |-> bob, ports |-> FALSE, running |-> FALSE]},
        d, e \in {Made(alice, TRUE), Made(bob, TRUE), Made(alice, FALSE)},
        f \in {Absent, Made(alice, TRUE), Made(alice, FALSE)} }

EitherLine ==
    (p1 :> AnyCommand(FALSE) \cup BesideAnother \cup MoreThanFit)
      @@ (p2 :> AnyCommand(TRUE) \cup AnyCommand(FALSE) \cup BesideAnother \cup {Idle})

EitherStart == OverOne \cup OverTwo \cup UpToTwo

SessionsInit ==
    /\ Init
    /\ \/ cont \in OverOne /\ cmd[p1] \in AnyCommand(FALSE)
            /\ cmd[p2] \in AnyCommand(TRUE) \cup AnyCommand(FALSE)
       \/ cont \in OverTwo /\ \A p \in Procs : cmd[p] \in BesideAnother
       \/ cont \in UpToTwo /\ cmd[p1] \in MoreThanFit /\ cmd[p2] = Idle

SessionsSpec == SessionsInit /\ [][Next]_vars

---------------------------------------------------------------------------
\* One session with two processes, beside what another session left: every
\* command, several targets to one command, and a machine.
OneOwner == (p1 :> alice) @@ (p2 :> alice)

ManyTargets ==
    (p1 :> { Line("start", <<s1, s2>>, FALSE), Line("start", <<m1, s1>>, FALSE),
             Line("remove", <<s1, m1>>, FALSE), Line("test", <<s1>>, FALSE) })
      @@ (p2 :> { Line("start", <<s1>>, FALSE), Line("stop", <<s2, s1>>, FALSE),
                  Line("test", <<m1>>, FALSE), Line("remove", <<s1>>, FALSE) })

LeftBehind ==
    { (s1 :> c) @@ (s2 :> d) @@ (m1 :> e) :
        c \in {Made(alice, TRUE), Made(bob, TRUE), Made(bob, FALSE)},
        d \in {Absent, Made(alice, TRUE), Made(bob, TRUE)},
        e \in {Made(bob, FALSE), Made(alice, TRUE)} }

=============================================================================
