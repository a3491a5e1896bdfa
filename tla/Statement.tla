----------------------------- MODULE Statement -----------------------------
(***************************************************************************)
(* Query.Build, Query.Each and the arguments of Query.All (query.go,       *)
(* walk.go): from what a caller passes to the statement and the values it  *)
(* is run with.                                                            *)
(*                                                                         *)
(* The loops over the pieces of a statement and over the parameters it     *)
(* names are kept.  A piece is what Choice.Resolve makes of it on each     *)
(* server (module Resolve), and the text of a statement is a sequence of   *)
(* tokens: SQL text, which is opaque, and the parameters it names.  A      *)
(* system variable, such as @@sql_mode, is text.  What BindValue makes of  *)
(* a value for its driver is left out.                                     *)
(***************************************************************************)
EXTENDS Naturals, Sequences

CONSTANTS
    Names,          \* the names of parameters and arguments
    Values,         \* what an argument may hold
    On,             \* the boolean that is true
    NoDefault,      \* a parameter that has to be given
    Joined,         \* what a value is bound as: a list is one string
    Writable,       \* the values a dialect with Literal can write
    From(_, _),     \* Derived.From: a derived value, from the arguments
    Servers,        \* the version sets of servers
    Bindings,       \* what models register
    NotBuilt,       \* no model of the dialect is in the binary
    NotRegistered,  \* the model registers nothing for the query
    Calls           \* how the query is asked, and with which arguments

Maps(S) == UNION { [D -> S] : D \in SUBSET Names }

Token == [kind : {"text", "param"}, name : Names]

\* What a piece is on a server: its text, or why there is none.
Resolution ==
    [err : {"nil", "ErrNotSupported", "ErrVersionTooOld", "ErrAmbiguousFragment"},
     text : Seq(Token)]

Stmt == Seq([Servers -> Resolution])

Variant == [param : Names, stmt : Stmt]

Binding ==
    [stmt : Stmt, variants : Seq(Variant), params : Maps(Values \cup {NoDefault}),
     derived : SUBSET Names, literal : BOOLEAN, keep : BOOLEAN, walk : BOOLEAN]

Call == [how : {"Build", "All", "Each"}, args : Maps(Values)]

ASSUME StatementAssumption ==
    /\ On \in Values
    /\ NoDefault \notin Values
    /\ Joined \in [Values -> Values]
    /\ Writable \subseteq Values
    /\ \A n \in Names, m \in Maps(Values) : From(n, m) \in Values
    /\ Bindings \subseteq Binding
    /\ {NotBuilt, NotRegistered} \cap Binding = {}
    /\ Calls \subseteq Call
    \* A walk declares no statement, no default is a list, and a derived value is
    \* no parameter.
    /\ \A b \in Bindings :
          /\ b.walk => b.stmt = <<>> /\ b.variants = <<>>
          /\ \A n \in DOMAIN b.params :
                b.params[n] # NoDefault => Joined[b.params[n]] = b.params[n]
          /\ b.derived \cap DOMAIN b.params = {}

VARIABLES
    server, binding, call,   \* what is asked of whom, and how
    pc,
    given,                   \* the arguments that Build or a walk gets
    stmt,                    \* the statement chosen: the binding's or a variant's
    k,                       \* the piece or the token a loop looks at
    text,                    \* the pieces so far
    out, vals,               \* bind: what is written so far, and its values
    filled,                  \* withDefaults: what Keep or a walk gets
    err                      \* what went wrong, or nil

vars == <<server, binding, call, pc, given, stmt, k, text, out, vals, filled, err>>

asked == <<server, binding, call>>

---------------------------------------------------------------------------
(* Support and lookup. *)

\* Why the pieces of st make no statement on a server, as Stmt.Build says.
BuildErr(st, s) ==
    LET bad == { j \in DOMAIN st : st[j][s].err # "nil" }
    IN  IF bad # {} THEN st[CHOOSE j \in bad : \A h \in bad : j <= h][s].err
        ELSE IF \A j \in DOMAIN st : st[j][s].text = <<>> THEN "ErrEmptyQuery"
        ELSE "nil"

\* An ambiguous piece is a fault of the model, and an empty statement is one of
\* a walk: neither says that the query cannot be asked.
Support(b, s) ==
    CASE b = NotBuilt -> "NotBuilt"
      [] b = NotRegistered -> "NotSupported"
      [] OTHER ->
           CASE BuildErr(b.stmt, s) = "ErrNotSupported" -> "NotSupported"
             [] BuildErr(b.stmt, s) = "ErrVersionTooOld" -> "TooOld"
             [] OTHER -> "Supported"

\* Mutant: a release that is too old is refused as another product is.
LookupErrTooOld(b, s) ==
    CASE Support(b, s) = "NotBuilt" -> "ErrModelNotBuilt"
      [] Support(b, s) \in {"NotSupported", "TooOld"} -> "ErrNotSupported"
      [] OTHER -> "nil"

LookupErr(b, s) ==
    CASE Support(b, s) = "NotBuilt" -> "ErrModelNotBuilt"
      [] Support(b, s) = "NotSupported" -> "ErrNotSupported"
      [] OTHER -> "nil"

---------------------------------------------------------------------------
Restricted(m, S) == [n \in DOMAIN m \cap S |-> m[n]]

\* Query.Each passes the arguments that the query takes.
Taken(b, args) == Restricted(args, DOMAIN b.params)

Finish(e) == pc' = "done" /\ err' = e

\* The statement of the first variant whose parameter is true, or the plain one.
Chosen(b, args) ==
    LET on == { j \in DOMAIN b.variants :
                  /\ b.variants[j].param \in DOMAIN args
                  /\ args[b.variants[j].param] = On }
    IN  IF on = {} THEN b.stmt
        ELSE b.variants[CHOOSE j \in on : \A h \in on : j <= h].stmt

Params ==
    /\ pc = "params"
    /\ IF LookupErr(binding, server) # "nil"
       THEN Finish(LookupErr(binding, server)) /\ UNCHANGED given
       ELSE /\ given' = Taken(binding, call.args)
            /\ pc' = "lookup" /\ UNCHANGED err
    /\ UNCHANGED <<asked, stmt, k, text, out, vals, filled>>

Lookup ==
    /\ pc = "lookup"
    /\ IF LookupErr(binding, server) # "nil"
       THEN Finish(LookupErr(binding, server)) /\ UNCHANGED stmt
       ELSE IF binding.walk /\ call.how = "Build"
       THEN Finish("ErrSeveralStatements") /\ UNCHANGED stmt
       ELSE /\ pc' = IF binding.walk THEN "defaults" ELSE "pieces"
            /\ stmt' = Chosen(binding, given)
            /\ UNCHANGED err
    /\ UNCHANGED <<asked, given, k, text, out, vals, filled>>

---------------------------------------------------------------------------
(* Stmt.Build. *)

Piece ==
    /\ pc = "pieces" /\ k <= Len(stmt)
    /\ IF stmt[k][server].err # "nil"
       THEN Finish(stmt[k][server].err) /\ UNCHANGED <<text, k>>
       ELSE /\ text' = text \o stmt[k][server].text
            /\ k' = k + 1
            /\ UNCHANGED <<pc, err>>
    /\ UNCHANGED <<asked, given, stmt, out, vals, filled>>

PiecesEnd ==
    /\ pc = "pieces" /\ k > Len(stmt)
    /\ IF text = <<>>
       THEN Finish("ErrEmptyQuery")
       ELSE pc' = "args" /\ UNCHANGED err
    /\ k' = 1
    /\ UNCHANGED <<asked, given, stmt, text, out, vals, filled>>

---------------------------------------------------------------------------
(* bind. *)

Unknown(params, args) == \E n \in DOMAIN args : n \notin DOMAIN params

\* withKnown: the arguments, with the defaults that there are.
WithKnown(params, args) ==
    [n \in { m \in DOMAIN params : m \in DOMAIN args \/ params[m] # NoDefault } |->
        IF n \in DOMAIN args THEN args[n] ELSE params[n]]

\* Mutant: an argument that is not a parameter is passed over.
CheckArgsNone ==
    /\ pc = "args" /\ pc' = "tokens"
    /\ UNCHANGED <<asked, given, stmt, k, text, out, vals, filled, err>>

CheckArgs ==
    /\ pc = "args"
    /\ IF Unknown(binding.params, given)
       THEN Finish("ErrUnknownParam")
       ELSE pc' = "tokens" /\ UNCHANGED err
    /\ UNCHANGED <<asked, given, stmt, k, text, out, vals, filled>>

\* What is written for a token: its text, the value itself or a placeholder.
Written == [kind : {"text", "literal", "slot"}, n : Nat, value : Values \cup {NoDefault}]

Text       == [kind |-> "text", n |-> 0, value |-> NoDefault]
Literal(v) == [kind |-> "literal", n |-> 0, value |-> v]
Slot(n)    == [kind |-> "slot", n |-> n, value |-> NoDefault]

CopyText ==
    /\ pc = "tokens" /\ k <= Len(text) /\ text[k].kind = "text"
    /\ out' = Append(out, Text)
    /\ k' = k + 1
    /\ UNCHANGED <<asked, pc, given, stmt, text, vals, filled, err>>

\* The value a parameter stands for, when there is one.
Value(name) ==
    IF name \in binding.derived THEN From(name, WithKnown(binding.params, given))
    ELSE IF name \in DOMAIN given THEN given[name] ELSE binding.params[name]

\* Mutant: a parameter named again is written with its first placeholder.
WritesReused(v) ==
    LET same == { n \in DOMAIN vals : vals[n] = Joined[v] }
    IN  IF same = {}
        THEN /\ out' = Append(out, Slot(Len(vals) + 1))
             /\ vals' = Append(vals, Joined[v])
        ELSE /\ out' = Append(out, Slot(CHOOSE n \in same : TRUE))
             /\ UNCHANGED vals

\* A parameter named again gets a placeholder and a value of its own.
Writes(v) ==
    IF binding.literal
    THEN /\ out' = Append(out, Literal(Joined[v]))
         /\ UNCHANGED vals
    ELSE /\ out' = Append(out, Slot(Len(vals) + 1))
         /\ vals' = Append(vals, Joined[v])

ParamErr(name) ==
    CASE name \notin binding.derived \cup DOMAIN binding.params -> "ErrUnknownParam"
      [] /\ name \notin binding.derived
         /\ name \notin DOMAIN given /\ binding.params[name] = NoDefault -> "ErrMissingParam"
      [] OTHER -> IF binding.literal /\ Joined[Value(name)] \notin Writable
                  THEN "ErrInvalidParam" ELSE "nil"

BindParam ==
    /\ pc = "tokens" /\ k <= Len(text) /\ text[k].kind = "param"
    /\ IF ParamErr(text[k].name) # "nil"
       THEN Finish(ParamErr(text[k].name)) /\ UNCHANGED <<out, vals, k>>
       ELSE /\ Writes(Value(text[k].name))
            /\ k' = k + 1
            /\ UNCHANGED <<pc, err>>
    /\ UNCHANGED <<asked, given, stmt, text, filled>>

\* The statement is built.  All runs it, and fills in the arguments of Keep.
Return ==
    /\ pc = "tokens" /\ k > Len(text)
    /\ IF call.how # "Build" /\ binding.keep
       THEN pc' = "defaults" /\ UNCHANGED err
       ELSE Finish("nil")
    /\ UNCHANGED <<asked, given, stmt, k, text, out, vals, filled>>

---------------------------------------------------------------------------
(* withDefaults. *)

Missing(params, args) ==
    \E n \in DOMAIN params : n \notin DOMAIN args /\ params[n] = NoDefault

DefaultsErr(params, args) ==
    IF Unknown(params, args) THEN "ErrUnknownParam"
    ELSE IF Missing(params, args) THEN "ErrMissingParam"
    ELSE "nil"

\* Mutant: a list is passed on as it is.
FillUnjoined(params, args) ==
    [n \in DOMAIN params |-> IF n \in DOMAIN args THEN args[n] ELSE params[n]]

Fill(params, args) ==
    [n \in DOMAIN params |-> IF n \in DOMAIN args THEN Joined[args[n]] ELSE params[n]]

Defaults ==
    /\ pc = "defaults"
    /\ Finish(DefaultsErr(binding.params, given))
    /\ filled' = IF DefaultsErr(binding.params, given) = "nil"
                 THEN Fill(binding.params, given) ELSE filled
    /\ UNCHANGED <<asked, given, stmt, k, text, out, vals>>

---------------------------------------------------------------------------
Init ==
    /\ server \in Servers
    /\ binding \in Bindings \cup {NotBuilt, NotRegistered}
    /\ call \in Calls
    /\ pc = IF call.how = "Each" THEN "params" ELSE "lookup"
    /\ given = call.args
    /\ stmt = <<>> /\ k = 1 /\ text = <<>> /\ out = <<>> /\ vals = <<>>
    /\ filled = [n \in {} |-> NoDefault]
    /\ err = "nil"

Next ==
    \/ Params \/ Lookup \/ Piece \/ PiecesEnd
    \/ CheckArgs \/ CopyText \/ BindParam \/ Return \/ Defaults

Spec == Init /\ [][Next]_vars

---------------------------------------------------------------------------
(* Properties. *)

\* Every variable keeps its type, and no loop passes the end of what it reads.
TypeOK ==
    /\ server \in Servers
    /\ binding \in Bindings \cup {NotBuilt, NotRegistered}
    /\ call \in Calls
    /\ pc \in {"params", "lookup", "pieces", "args", "tokens", "defaults", "done"}
    /\ given \in Maps(Values)
    /\ stmt \in Stmt
    /\ text \in Seq(Token)
    /\ k \in Nat \ {0}
    /\ out \in Seq(Written)
    /\ vals \in Seq(Values)
    /\ filled \in Maps(Values)
    /\ pc \notin {"params", "lookup", "done"} => binding \in Bindings
    /\ pc = "pieces" => k <= Len(stmt) + 1
    /\ pc = "tokens" => k <= Len(text) + 1

Slots == { j \in DOMAIN out : out[j].kind = "slot" }

\* What is written for a token says what the token says.
StandsFor(w, token) ==
    /\ w.kind = "text" <=> token.kind = "text"
    /\ w.kind = "literal" => binding.literal /\ w.value = Joined[Value(token.name)]
    /\ w.kind = "slot" =>
          ~binding.literal /\ w.n \in DOMAIN vals /\ vals[w.n] = Joined[Value(token.name)]

\* bind: what is written follows what the statement names, each placeholder
\* stands for the value of the parameter named in its place, and placeholders
\* and values agree in number and in order, also where a parameter is named
\* again.  A dialect that writes its values binds none.
ValuesFollow ==
    /\ Len(out) <= Len(text)
    /\ \A j \in DOMAIN out : StandsFor(out[j], text[j])
    /\ \A h, j \in Slots : h < j => out[h].n < out[j].n
    /\ \A n \in DOMAIN vals : \E j \in Slots : out[j].n = n

Plain == Chosen(binding, given) = binding.stmt

\* What Support says of a query is what asking it finds, however it is asked,
\* unless a variant takes the place of the statement: one that is supported is
\* not refused for the server, and the three reasons to refuse are told apart.
SupportTells ==
    pc = "done" =>
        CASE Support(binding, server) = "NotBuilt"     -> err = "ErrModelNotBuilt"
          [] Support(binding, server) = "NotSupported" -> err = "ErrNotSupported"
          [] Support(binding, server) = "TooOld"       -> Plain => err = "ErrVersionTooOld"
          [] OTHER -> Plain =>
                err \notin {"ErrModelNotBuilt", "ErrNotSupported", "ErrVersionTooOld"}

Declared(j) == text[j].kind = "param" => text[j].name \in binding.derived \cup DOMAIN binding.params

NamesAll == \A n \in DOMAIN binding.params : \E j \in DOMAIN text :
                text[j].kind = "param" /\ text[j].name = n

\* walk.go, on withDefaults: an argument that is not taken, and a parameter that
\* is missing, are refused as they are for a statement, where the statement
\* names every parameter.
RefusesAlike ==
    pc = "done" /\ err \in {"nil", "ErrUnknownParam", "ErrMissingParam"}
      =>
        ((\A j \in DOMAIN text : Declared(j)) /\ NamesAll
            => err = DefaultsErr(binding.params, given))

\* What Keep and a walk see of an argument is what a statement binds of it, lists
\* and defaults alike (withDefaults: a list is joined as bind joins it).
SeesWhatIsBound ==
    pc = "done" /\ err = "nil" /\ call.how # "Build" /\ (binding.keep \/ binding.walk) =>
        \A n \in DOMAIN binding.params : filled[n] = Joined[Value(n)]

\* Query.Each passes only what the query takes, so one set of arguments asks
\* every query and none refuses it.
EachNeverRefused ==
    pc = "done" /\ call.how = "Each" /\ err = "ErrUnknownParam" =>
        \E j \in DOMAIN text : ~Declared(j)

=============================================================================
