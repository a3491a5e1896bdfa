------------------------------ MODULE QueryRun ------------------------------
(***************************************************************************)
(* Query.All of query.go while it runs: the iterators that several callers *)
(* range over, and the connections of the one pool they read through.      *)
(*                                                                         *)
(* A statement holds a connection from QueryContext until the iterator     *)
(* ends, and so while the caller's loop body runs.  A walk                 *)
(* (Binding.Walk, whose statements go through readAll of its model) reads  *)
(* each statement to its end and gives the connection back before it       *)
(* yields.  A body may range over another iterator of its own.  A walk     *)
(* that yields rows as it reads them (elasticsearch readAll, opensearch    *)
(* showTables) keeps its connection meanwhile and is a statement here.     *)
(*                                                                         *)
(* What a statement says and returns is left out: a row is yielded or      *)
(* filtered, and a call succeeds or fails.  The pool is database/sql's,    *)
(* modelled from how Query.All uses it: QueryContext waits for a free      *)
(* connection or for the context, the end of the rows and a canceled       *)
(* context close them, and so does Rows.Close.                             *)
(***************************************************************************)
EXTENDS Naturals, Sequences, FiniteSets

CONSTANTS
    Callers,    \* who ranges over iterators, each with a context of its own
    Plans,      \* what the callers may range over: for each the kind of its
                \* iterator, of the one its body asks for at each value, and
                \* so inwards
    PoolSize,   \* how many connections the pool may open
    MaxRows,    \* bound: rows of a statement, and statements of a walk
    Cancels     \* whether a context may be canceled

Places == {"build", "query", "rows", "reading", "body", "last"}

Kinds == {"stmt", "walk"}

\* One iterator under way: whether its rows are open, how many rows or statements
\* it has left, and whether the body has asked its own question of this value.
Frame == [kind : Kinds, at : Places, conn : BOOLEAN, left : 0..MaxRows, asked : BOOLEAN]

ASSUME QueryRunAssumption ==
    /\ Plans \subseteq [Callers -> Seq(Kinds) \ {<<>>}]
    /\ PoolSize \in Nat \ {0}
    /\ MaxRows \in Nat
    /\ Cancels \in BOOLEAN

VARIABLES
    plan,       \* what each caller ranges over
    stack,      \* the iterators of each caller, the innermost last
    free,       \* how many connections the pool can still give
    canceled    \* whether the context of each caller is done

vars == <<plan, stack, free, canceled>>

Depth(c) == Len(stack[c])

Top(c) == stack[c][Depth(c)]

At(c, kind, place) ==
    /\ Depth(c) > 0
    /\ Top(c).kind = kind /\ Top(c).at = place

Given(f) == IF f.conn THEN 1 ELSE 0

\* The innermost iterator becomes f, and its connection is taken or given back.
Becomes(c, f) ==
    /\ stack' = [stack EXCEPT ![c][Depth(c)] = f]
    /\ free' = free + Given(Top(c)) - Given(f)
    /\ UNCHANGED <<plan, canceled>>

Moves(c, place) == Becomes(c, [Top(c) EXCEPT !.at = place])

\* Mutant: nothing closes the rows of an iterator that is left early.
ReturnsOpen(c) ==
    /\ stack' = [stack EXCEPT ![c] = SubSeq(@, 1, Depth(c) - 1)]
    /\ UNCHANGED <<plan, free, canceled>>

\* The iterator returns, and the deferred Rows.Close runs.
Returns(c) ==
    /\ stack' = [stack EXCEPT ![c] = SubSeq(@, 1, Depth(c) - 1)]
    /\ free' = free + Given(Top(c))
    /\ UNCHANGED <<plan, canceled>>

Opened(kind) ==
    [kind |-> kind, at |-> "build", conn |-> FALSE, left |-> MaxRows, asked |-> FALSE]

\* The value f has reached is yielded.
Yields(f) == [f EXCEPT !.at = "body", !.left = @ - 1, !.asked = FALSE]

---------------------------------------------------------------------------
(* Opening: lookup, Build or withDefaults, and QueryContext. *)

Build(c) ==
    /\ Depth(c) > 0 /\ Top(c).at = "build"
    /\ Moves(c, "query") \/ Moves(c, "last")

\* QueryContext: a connection, and then rows or an error.
Query(c) ==
    /\ Depth(c) > 0 /\ Top(c).at = "query"
    /\ free > 0 /\ ~canceled[c]
    /\ \/ \E n \in 0..MaxRows :
             At(c, "stmt", "query")
               /\ Becomes(c, [Top(c) EXCEPT !.at = "rows", !.conn = TRUE, !.left = n])
       \/ At(c, "walk", "query")
            /\ Becomes(c, [Top(c) EXCEPT !.at = "reading", !.conn = TRUE])
       \/ Moves(c, "last")

\* Mutant: a call that fails is made again.
QueryAgain(c) ==
    /\ Depth(c) > 0 /\ Top(c).at = "query"
    /\ canceled[c]
    /\ Moves(c, "build")

\* A wait for a connection ends with the context.
QueryCanceled(c) ==
    /\ Depth(c) > 0 /\ Top(c).at = "query"
    /\ canceled[c]
    /\ Moves(c, "last")

---------------------------------------------------------------------------
(* A statement. *)

\* The arguments Keep is given are filled in once the rows are open, and one
\* that is missing is yielded as an error.
KeepFails(c) ==
    /\ At(c, "stmt", "rows")
    /\ Moves(c, "last")

\* A row is scanned, well or badly, and yielded unless Keep says no.
Row(c) ==
    /\ At(c, "stmt", "rows")
    /\ Top(c).conn /\ Top(c).left > 0
    /\ \/ Becomes(c, Yields(Top(c)))
       \/ Becomes(c, [Top(c) EXCEPT !.left = @ - 1])

\* Rows.Next is false, which closes the rows, and Rows.Err says why.
RowsEnd(c) ==
    /\ At(c, "stmt", "rows")
    /\ \/ Top(c).conn /\ Top(c).left = 0 /\ Returns(c)
       \/ Becomes(c, [Top(c) EXCEPT !.at = "last", !.conn = FALSE])

---------------------------------------------------------------------------
(* A walk. *)

\* Mutant: what a walk reads is yielded while its rows are open.
ReadAllOpen(c) ==
    /\ At(c, "walk", "reading")
    /\ \/ Top(c).conn /\ Top(c).left > 0 /\ Becomes(c, Yields(Top(c)))
       \/ Top(c).conn /\ Top(c).left = 0 /\ Returns(c)
       \/ Becomes(c, [Top(c) EXCEPT !.at = "last", !.conn = FALSE])

\* readAll: the rows are read and closed, and then a value is yielded, the next
\* statement runs, or the walk is done.  An error ends it.
ReadAll(c) ==
    /\ At(c, "walk", "reading")
    /\ \/ /\ Top(c).conn /\ Top(c).left > 0
          /\ \/ Becomes(c, [Yields(Top(c)) EXCEPT !.conn = FALSE])
             \/ Becomes(c, [Top(c) EXCEPT !.at = "query", !.conn = FALSE, !.left = @ - 1])
       \/ Top(c).conn /\ Top(c).left = 0 /\ Returns(c)
       \/ Becomes(c, [Top(c) EXCEPT !.at = "last", !.conn = FALSE])

---------------------------------------------------------------------------
(* The caller. *)

\* The body goes on to the next value or leaves the loop.
Body(c) ==
    /\ Depth(c) > 0 /\ Top(c).at = "body"
    /\ \/ Moves(c, IF Top(c).kind = "walk" THEN "query" ELSE "rows")
       \/ Returns(c)

\* The body ranges over another iterator, once for each value.
Nest(c) ==
    /\ Depth(c) > 0 /\ Top(c).at = "body"
    /\ Depth(c) < Len(plan[c]) /\ ~Top(c).asked
    /\ stack' = [stack EXCEPT ![c] =
                    Append([@ EXCEPT ![Depth(c)].asked = TRUE], Opened(plan[c][Depth(c) + 1]))]
    /\ UNCHANGED <<plan, free, canceled>>

\* An error was yielded, and nothing is after it.
Last(c) ==
    /\ Depth(c) > 0 /\ Top(c).at = "last"
    /\ Returns(c)

---------------------------------------------------------------------------
(* The context. *)

Cancel(c) ==
    /\ Cancels /\ Depth(c) > 0 /\ ~canceled[c]
    /\ canceled' = [canceled EXCEPT ![c] = TRUE]
    /\ UNCHANGED <<plan, stack, free>>

\* database/sql closes the rows of a context that is done, whatever the body
\* is doing.
Closes(c) ==
    /\ canceled[c]
    /\ \E k \in 1..Depth(c) :
          /\ stack[c][k].conn
          /\ stack' = [stack EXCEPT ![c][k].conn = FALSE]
          /\ free' = free + 1
    /\ UNCHANGED <<plan, canceled>>

Init ==
    /\ plan \in Plans
    /\ stack = [c \in Callers |-> <<Opened(plan[c][1])>>]
    /\ free = PoolSize
    /\ canceled = [c \in Callers |-> FALSE]

Step(c) ==
    \/ Build(c) \/ Query(c) \/ QueryCanceled(c)
    \/ KeepFails(c) \/ Row(c) \/ RowsEnd(c) \/ ReadAll(c)
    \/ Body(c) \/ Nest(c) \/ Last(c)

Next == \E c \in Callers : Step(c) \/ Cancel(c) \/ Closes(c)

\* A caller goes on, a driver answers, and database/sql closes what it has to.
Spec ==
    /\ Init /\ [][Next]_vars
    /\ \A c \in Callers : WF_vars(Step(c)) /\ WF_vars(Closes(c))

---------------------------------------------------------------------------
(* Properties. *)

Done(c) == stack[c] = <<>>

\* The iterators whose rows are open.
Open == UNION { { <<c, k>> : k \in { i \in 1..Depth(c) : stack[c][i].conn } } : c \in Callers }

\* Every variable keeps its type, and an iterator under a nested one is in its
\* body (Query.All yields, and nothing else runs the caller).
TypeOK ==
    /\ plan \in Plans
    /\ stack \in [Callers -> Seq(Frame)]
    /\ free \in 0..PoolSize
    /\ canceled \in [Callers -> BOOLEAN]
    /\ \A c \in Callers :
          /\ Depth(c) <= Len(plan[c])
          /\ \A k \in 1..Depth(c) : k < Depth(c) => stack[c][k].at = "body"

\* An iterator gives its connection back once, however it ends: its rows ran
\* out, the body left the loop, a call failed or the context was canceled under
\* it (the deferred Rows.Close of Query.All).  The pool is whole but for the
\* iterators still under way.
NoneLeaked == free + Cardinality(Open) = PoolSize

\* A walk holds no connection while the body of its caller runs, so a body may
\* ask what it likes on a pool of one (Binding.Walk: each statement to its end
\* before the next).
WalkYieldsEmptyHanded ==
    \A c \in Callers : \A k \in 1..Depth(c) :
        stack[c][k].kind = "walk" /\ stack[c][k].at = "body" => ~stack[c][k].conn

\* No body asks a question while a statement of its own is open, which is what
\* Query.All says not to do.
Unnested == \A c \in Callers : \A k \in 1..(Len(plan[c]) - 1) : plan[c][k] # "stmt"

\* Where no body asks a question while a statement of its own is open, every
\* iterator comes to its end, whoever else reads through the pool (Query.All:
\* the iterator that does so deadlocks).
EveryIterationEnds == Unnested => \A c \in Callers : <>Done(c)

\* Canceling the context ends the iterator, even where iterators wait for one
\* another's connections (Query.All).
CancelEnds == \A c \in Callers : canceled[c] ~> Done(c)

=============================================================================
