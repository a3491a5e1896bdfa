---------------------------- MODULE MCStatement ----------------------------
(* An instance of Statement: statements of up to three pieces, a variant, a     *)
(* derived value and a walk, against an old server, a new one and one of        *)
(* another product.                                                             *)
EXTENDS Statement, TLC

CONSTANTS a, b, c, old, new, other, x, list, comma, true

\* A list is bound as one string.
MCJoined == [v \in Values |-> IF v = list THEN comma ELSE v]

\* Derived.From: whether a parameter is an exact name.
MCFrom(n, m) == IF a \in DOMAIN m /\ m[a] = x THEN true ELSE x

P(n) == [kind |-> "param", name |-> n]
T    == [kind |-> "text", name |-> a]

Ok(t)   == [err |-> "nil", text |-> t]
Fail(e) == [err |-> e, text |-> <<>>]

\* Pieces: for every server, from the new release on, of one product, and one
\* that two alternatives answer.
Always(t)  == [s \in Servers |-> Ok(t)]
Since(t)   == (old :> Fail("ErrVersionTooOld")) @@ (new :> Ok(t)) @@ (other :> Fail("ErrNotSupported"))
Newer(t)   == (old :> Ok(<<>>)) @@ (new :> Ok(t)) @@ (other :> Ok(<<>>))
Clash      == (old :> Ok(<<T>>)) @@ (new :> Fail("ErrAmbiguousFragment")) @@ (other :> Ok(<<T>>))

Statements ==
    { <<Always(<<T, P(a), P(b)>>)>>, <<Always(<<T, P(a)>>), Newer(<<P(b), P(a)>>)>>,
      <<Since(<<T>>), Always(<<P(c), P(a), P(b)>>)>>, <<Newer(<<>>)>>, <<Clash, Since(<<P(a)>>)>>,
      <<Newer(<<P(a)>>), Always(<<T>>), Clash>> }

Parameters ==
    { (a :> x) @@ (b :> NoDefault), (a :> NoDefault) @@ (b :> x), (a :> x) }

MCBindings ==
    { [stmt |-> s, variants |-> w, params |-> m, derived |-> {c},
       literal |-> l, keep |-> h, walk |-> FALSE] :
         s \in Statements, m \in Parameters, l \in BOOLEAN, h \in BOOLEAN,
         w \in {<<>>, <<[param |-> b, stmt |-> <<Always(<<T, P(b), P(b)>>)>>]>>} }
      \cup
    { [stmt |-> <<>>, variants |-> <<>>, params |-> m, derived |-> {},
       literal |-> FALSE, keep |-> FALSE, walk |-> TRUE] : m \in Parameters }

MCCalls == [how : {"Build", "All", "Each"}, args : UNION { [D -> {x, list, true}] : D \in SUBSET {a, b} }
                                                  \cup { (a :> x) @@ (c :> x) }]

=============================================================================
