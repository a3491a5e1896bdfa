------------------------------ MODULE Resolve ------------------------------
(***************************************************************************)
(* Choice.Resolve of query.go: which alternative of one piece of a         *)
(* statement applies to a server.                                          *)
(*                                                                         *)
(* The loop over the alternatives is kept: the alternative held as best so *)
(* far, whether there is one, and the count of alternatives that a newer   *)
(* release could meet.  A version is its rank among the versions in play,  *)
(* because Resolve only compares versions; module VersionOrder shows that  *)
(* Version.Compare is such an order.  The text of an alternative is an     *)
(* opaque value.                                                           *)
(***************************************************************************)
EXTENDS Naturals, Sequences

CONSTANTS
    Keys,         \* every version key, the main one among them
    Main,         \* the empty key, which names the main version
    Unknown,      \* a version the server did not report in a usable form
    Texts,        \* the SQL text of an alternative
    NoText,       \* the empty string that Resolve returns beside an error
    Choices,      \* the choices a model may declare
    VersionSets   \* what a server may report: some keys, each with a version

Rank == Nat

Fragment == [key : Keys, min : Rank, query : Texts \cup {NoText}]

IsVersionSet(vs) ==
    /\ DOMAIN vs \subseteq Keys
    /\ vs \in [DOMAIN vs -> Rank \cup {Unknown}]

ASSUME ResolveAssumption ==
    /\ Main \in Keys
    /\ Unknown \notin Rank
    /\ Choices \subseteq Seq(Fragment)
    /\ \A vs \in VersionSets : IsVersionSet(vs)

VARIABLES
    versions,     \* the version set of the server
    choice,       \* the alternatives, in the order the model wrote them
    i,            \* the alternative the loop looks at
    best, found,  \* the alternative held, and whether there is one
    reachable,    \* how many alternatives this server can meet on some release
    result        \* what Resolve returned, or Pending

vars == <<versions, choice, i, best, found, reachable, result>>

---------------------------------------------------------------------------
\* VersionSet.Has, VersionSet.Get, Version.AtLeast and Gate.Met.

Has(vs, key) == key \in DOMAIN vs

Get(vs, key) == IF Has(vs, key) THEN vs[key] ELSE Unknown

AtLeast(v, min) == v # Unknown => v >= min

Met(vs, f) ==
    /\ f.key # Main => Has(vs, f.key)
    /\ AtLeast(Get(vs, f.key), f.min)

\* An alternative with no key, or whose key the server reports.
Reachable(vs, f) == f.key = Main \/ Has(vs, f.key)

---------------------------------------------------------------------------
\* What Resolve returns: a text and an error.

ErrAmbiguousFragment == "ErrAmbiguousFragment"
ErrNotSupported      == "ErrNotSupported"
ErrVersionTooOld     == "ErrVersionTooOld"

Answer(q) == [query |-> q, err |-> "nil"]
Fails(e)  == [query |-> NoText, err |-> e]
Pending   == [query |-> NoText, err |-> "pending"]

Results == {Pending} \cup { Answer(q) : q \in Texts \cup {NoText} }
             \cup { Fails(e) : e \in {ErrAmbiguousFragment, ErrNotSupported, ErrVersionTooOld} }

\* The zero Fragment that best holds before an alternative is met.
ZeroFragment == [key |-> Main, min |-> 0, query |-> NoText]

---------------------------------------------------------------------------
Init ==
    /\ versions \in VersionSets
    /\ choice \in Choices
    /\ i = 1
    /\ best = ZeroFragment
    /\ found = FALSE
    /\ reachable = 0
    /\ result = Pending

\* One turn of the loop: an alternative is looked at, and counted when some
\* release of this product meets it.
Looking == result = Pending /\ i <= Len(choice)

Count ==
    /\ reachable' = reachable + IF Reachable(versions, choice[i]) THEN 1 ELSE 0
    /\ UNCHANGED <<versions, choice>>

\* The gate is not met, so the alternative is out.
Unmet ==
    /\ Looking /\ Count
    /\ ~Met(versions, choice[i])
    /\ i' = i + 1
    /\ UNCHANGED <<best, found, result>>

\* Mutant: the numbers are compared whatever they number.
BetterAcrossKeys(held, f) == held.min < f.min

\* The new alternative takes the place of the one held.
Better(held, f) ==
    \/ held.key = f.key /\ held.min < f.min
    \/ held.key # f.key /\ held.key = Main

\* The alternative is met and is the first, or beats the one held.
Take ==
    /\ Looking /\ Count
    /\ Met(versions, choice[i])
    /\ found => Better(best, choice[i])
    /\ best' = choice[i]
    /\ found' = TRUE
    /\ i' = i + 1
    /\ UNCHANGED result

\* The one held stays: it has the same key and is no older, or it names a
\* product and the new one does not.
Keeps(held, f) ==
    \/ held.key = f.key /\ ~(held.min < f.min)
    \/ held.key # f.key /\ held.key # Main /\ f.key = Main

Keep ==
    /\ Looking /\ Count
    /\ Met(versions, choice[i])
    /\ found /\ Keeps(best, choice[i])
    /\ i' = i + 1
    /\ UNCHANGED <<best, found, result>>

\* Two named keys are met, and nothing decides between them.
Clash(held, f) == held.key # f.key /\ held.key # Main /\ f.key # Main

Ambiguous ==
    /\ Looking /\ Count
    /\ Met(versions, choice[i])
    /\ found /\ Clash(best, choice[i])
    /\ result' = Fails(ErrAmbiguousFragment)
    /\ UNCHANGED <<i, best, found>>

\* After the loop.
Outcome ==
    IF found THEN Answer(best.query)
    ELSE IF Len(choice) > 0 /\ reachable = 0 THEN Fails(ErrNotSupported)
    ELSE Fails(ErrVersionTooOld)

Return ==
    /\ result = Pending /\ i > Len(choice)
    /\ result' = Outcome
    /\ UNCHANGED <<versions, choice, i, best, found, reachable>>

Next == Unmet \/ Take \/ Keep \/ Ambiguous \/ Return

Spec == Init /\ [][Next]_vars /\ WF_vars(Next)

---------------------------------------------------------------------------
\* Every variable holds a value of its Go type, and the loop index stays
\* within the choice (Choice.Resolve).
TypeOK ==
    /\ IsVersionSet(versions)
    /\ choice \in Seq(Fragment)
    /\ i \in 1..(Len(choice) + 1)
    /\ best \in Fragment
    /\ found \in BOOLEAN
    /\ reachable \in Nat
    /\ result \in Results

---------------------------------------------------------------------------
\* The three rules of the comment on Choice.Resolve, as a reference that
\* looks at all the alternatives at once and keeps no state.

Applies(n) ==
    /\ choice[n].key = Main \/ choice[n].key \in DOMAIN versions
    /\ choice[n].key \in DOMAIN versions =>
          versions[choice[n].key] = Unknown \/ versions[choice[n].key] >= choice[n].min

Applicable == { n \in 1..Len(choice) : Applies(n) }

Named(n) == choice[n].key # Main

\* Two alternatives that both apply name different products.
TwoProducts ==
    \E m, n \in Applicable : Named(m) /\ Named(n) /\ choice[m].key # choice[n].key

\* Nothing that applies is more specific or, under the same key, newer; of two
\* alike the model's first is used.
Winner(n) ==
    /\ n \in Applicable
    /\ \A m \in Applicable :
          /\ Named(m) => Named(n)
          /\ choice[m].key = choice[n].key =>
                choice[m].min < choice[n].min \/ (choice[m].min = choice[n].min /\ n <= m)

WrongProduct ==
    /\ choice # <<>>
    /\ \A n \in 1..Len(choice) : Named(n) /\ choice[n].key \notin DOMAIN versions

\* Whatever order the alternatives are written in, Choice.Resolve returns what
\* its three rules say of the whole choice: an ambiguity is reported wherever
\* the two clashing alternatives stand, a winner is the one no other beats,
\* and the two refusals are told apart by whether an upgrade could help.
ThreeRules ==
    result # Pending =>
        /\ result.err = ErrAmbiguousFragment <=> TwoProducts
        /\ result.err = "nil" <=> (Applicable # {} /\ ~TwoProducts)
        /\ result.err = "nil" => \E n \in Applicable : Winner(n) /\ result.query = choice[n].query
        /\ result.err = ErrNotSupported <=> (Applicable = {} /\ WrongProduct)
        /\ result.err = ErrVersionTooOld <=> (Applicable = {} /\ ~WrongProduct)

\* The loop's own view: what it holds after i - 1 alternatives is the winner
\* among them, and reachable is zero exactly when none of them can be met on
\* any release.
Seen == 1..(i - 1)

HeldIsBest(w) ==
    /\ w \in Seen /\ Applies(w) /\ best = choice[w]
    /\ \A m \in Seen : Applies(m) =>
          /\ choice[m].key # Main => choice[m].key = choice[w].key
          /\ choice[m].key = choice[w].key =>
                choice[m].min < choice[w].min \/ (choice[m].min = choice[w].min /\ w <= m)

LoopInv ==
    /\ result.err # ErrAmbiguousFragment =>
          /\ found <=> \E n \in Seen : Applies(n)
          /\ found => \E w \in Seen : HeldIsBest(w)
          /\ reachable = 0 <=> \A n \in Seen : ~Reachable(versions, choice[n])
    /\ result.err = ErrAmbiguousFragment => TwoProducts
    /\ result.err \notin {"pending", ErrAmbiguousFragment} => i = Len(choice) + 1 /\ result = Outcome

=============================================================================
