--------------------------- MODULE ResolveProofs ---------------------------
(***************************************************************************)
(* Proofs about Choice.Resolve for every set of keys, every choice and     *)
(* every version set: what it returns is what its three rules say.         *)
(*                                                                         *)
(* The argument: LoopInv says that after i - 1 alternatives the one held   *)
(* is the winner among them.  Each kind of turn of the loop preserves it,  *)
(* and when the loop ends "among them" is the whole choice.                *)
(*                                                                         *)
(* Then about upgrades: between the gates of a choice nothing depends on   *)
(* the release, what has an answer keeps one, and never an older one.      *)
(*                                                                         *)
(* Then about the models, on every release of every product: what wins on  *)
(* a server is beaten by nothing that the server meets (WinnerIsUnbeaten), *)
(* so what RegistryFacts says of the tables, where no server occurs, holds *)
(* of what Build puts together; BuildInv says what that is after each      *)
(* piece, and what it was before an upgrade.                               *)
(*                                                                         *)
(* Then about what Resolve compares: Version.Compare of VersionOrder says  *)
(* the order of versions of every length, and that order is one that a     *)
(* version's rank among others, a number, can stand for.                   *)
(***************************************************************************)
EXTENDS Resolve, VersionOrder, Models, RegistryFacts, Integers, WellFoundedInduction, TLAPS

Inv == TypeOK /\ LoopInv

\* Gate.Met and the reference agree on which alternatives apply.
LEMMA AppliesIsMet == \A n : Applies(n) <=> Met(versions, choice[n])
  BY DEF Applies, Met, Has, Get, AtLeast

\* The empty choice holds nothing, before the first turn (Choice.Resolve).
LEMMA InitInv == Init => Inv
<1> SUFFICES ASSUME Init PROVE Inv
  OBVIOUS
<1> USE ResolveAssumption
<1>1. choice \in Seq(Fragment) /\ IsVersionSet(versions)
  BY DEF Init
<1>2. ZeroFragment \in Fragment
  BY DEF ZeroFragment, Fragment, Rank
<1>3. TypeOK
  <2>1. Pending \in Results
    BY DEF Results
  <2>2. 1 \in 1..(Len(choice) + 1)
    BY <1>1
  <2> QED
    BY <1>1, <1>2, <2>1, <2>2 DEF Init, TypeOK
<1>4. Seen = {}
  BY DEF Init, Seen
<1>5. LoopInv
  BY <1>4 DEF Init, LoopInv, Pending, ErrAmbiguousFragment
<1> QED
  BY <1>3, <1>5 DEF Inv

\* A turn of the loop looks at an alternative of the choice, and the turns
\* before it are the ones already seen (the range loop of Choice.Resolve).
LEMMA TurnFacts ==
  ASSUME Inv, Looking, Count
  PROVE  /\ i \in 1..Len(choice)
         /\ choice[i] \in Fragment
         /\ choice[i].key \in Keys /\ choice[i].min \in Nat
         /\ \A n \in Seen : n \in 1..Len(choice) /\ n < i
         /\ Seen \cup {i} = 1..i
         /\ result = Pending /\ result.err = "pending"
         /\ reachable' \in Nat
         /\ reachable' = 0 <=> reachable = 0 /\ ~Reachable(versions, choice[i])
<1>1. i \in 1..Len(choice) /\ Len(choice) \in Nat
  BY DEF Inv, TypeOK, Looking
<1>2. choice[i] \in Fragment
  BY <1>1 DEF Inv, TypeOK
<1>3. choice[i].key \in Keys /\ choice[i].min \in Nat
  BY <1>2 DEF Fragment, Rank
<1>4. \A n \in Seen : n \in 1..Len(choice) /\ n < i
  BY <1>1 DEF Seen
<1>5. Seen \cup {i} = 1..i
  BY <1>1 DEF Seen
<1>6. result = Pending /\ result.err = "pending"
  BY DEF Looking, Pending
<1>7. reachable \in Nat
  BY DEF Inv, TypeOK
<1>8. reachable' \in Nat /\ (reachable' = 0 <=> reachable = 0 /\ ~Reachable(versions, choice[i]))
  BY <1>7 DEF Count
<1> QED
  BY <1>1, <1>2, <1>3, <1>4, <1>5, <1>6, <1>8

\* A turn that does not stop the loop leaves the count right: it is zero
\* exactly when nothing seen, the new one included, is within reach.
LEMMA CountStep ==
  ASSUME Inv, Looking, Count, i' = i + 1
  PROVE  /\ Seen' = Seen \cup {i}
         /\ i' \in 1..(Len(choice') + 1)
         /\ reachable' = 0 <=> \A n \in Seen' : ~Reachable(versions', choice'[n])
<1>1. UNCHANGED <<versions, choice>>
  BY DEF Count
<1>2. i \in Nat /\ i \in 1..Len(choice) /\ Len(choice) \in Nat
  BY TurnFacts DEF Inv, TypeOK
<1>3. Seen' = 1..i
  BY <1>2 DEF Seen
<1>4. Seen' = Seen \cup {i}
  BY <1>3, TurnFacts
<1>5. reachable = 0 <=> \A n \in Seen : ~Reachable(versions, choice[n])
  BY TurnFacts DEF Inv, LoopInv, ErrAmbiguousFragment
<1>6. reachable' = 0 <=> \A n \in Seen' : ~Reachable(versions, choice[n])
  BY <1>4, <1>5, TurnFacts
<1> QED
  BY <1>1, <1>2, <1>4, <1>6

\* An alternative whose gate is not met changes nothing but the place.
LEMMA UnmetInv == ASSUME Inv, Unmet PROVE Inv'
<1>1. Looking /\ Count /\ i' = i + 1 /\ UNCHANGED <<versions, choice, best, found, result>>
  BY DEF Unmet, Count
<1>2. TypeOK'
  BY <1>1, CountStep, TurnFacts DEF Inv, TypeOK, IsVersionSet
<1>3. \A n : Applies(n)' = Applies(n)
  BY <1>1 DEF Applies
<1>4. ~Applies(i)
  BY AppliesIsMet DEF Unmet
<1>5. found <=> \E n \in Seen : Applies(n)
  BY <1>1, TurnFacts DEF Inv, LoopInv, ErrAmbiguousFragment
<1>6. found' <=> \E n \in Seen' : Applies(n)'
  BY <1>1, <1>3, <1>4, <1>5, CountStep
<1>7. ASSUME found' PROVE \E w \in Seen' : HeldIsBest(w)'
  <2>1. PICK w \in Seen : HeldIsBest(w)
    BY <1>1, <1>7, TurnFacts DEF Inv, LoopInv, ErrAmbiguousFragment
  <2>2. HeldIsBest(w)'
    BY <1>1, <1>4, <2>1, CountStep, TurnFacts DEF HeldIsBest, Applies
  <2> QED
    BY <2>1, <2>2, CountStep, <1>1
<1>8. LoopInv'
  BY <1>1, <1>6, <1>7, CountStep, TurnFacts DEF LoopInv, ErrAmbiguousFragment
<1> QED
  BY <1>2, <1>8 DEF Inv

\* An alternative that is met and beats the one held is held from then on,
\* and beats everything that one had beaten.
LEMMA TakeInv == ASSUME Inv, Take PROVE Inv'
<1>1. /\ Looking /\ Count /\ i' = i + 1 /\ best' = choice[i] /\ found'
      /\ UNCHANGED <<versions, choice, result>>
  BY DEF Take, Count
<1>2. TypeOK'
  BY <1>1, CountStep, TurnFacts DEF Inv, TypeOK, IsVersionSet
<1>3. \A n : Applies(n)' = Applies(n)
  BY <1>1 DEF Applies
<1>4. Applies(i)
  BY AppliesIsMet DEF Take
<1>5. found' <=> \E n \in Seen' : Applies(n)'
  BY <1>1, <1>3, <1>4, CountStep
<1>6. \A n \in Seen : choice[n] \in Fragment /\ choice[n].min \in Nat /\ choice[n].key \in Keys
  <2>1. \A n \in Seen : choice[n] \in Fragment
    BY <1>1, TurnFacts DEF Inv, TypeOK
  <2> QED
    BY <2>1 DEF Fragment, Rank
<1>7. ASSUME NEW m \in Seen', Applies(m)
      PROVE  /\ choice[m].key # Main => choice[m].key = choice[i].key
             /\ choice[m].key = choice[i].key =>
                   choice[m].min < choice[i].min \/ (choice[m].min = choice[i].min /\ i <= m)
  <2>1. CASE m = i
    BY <1>1, <2>1, TurnFacts
  <2>2. CASE m \in Seen
    <3>1. found
      BY <1>1, <1>7, <2>2, TurnFacts DEF Inv, LoopInv, ErrAmbiguousFragment
    <3>2. PICK w \in Seen : HeldIsBest(w)
      BY <1>1, <3>1, TurnFacts DEF Inv, LoopInv, ErrAmbiguousFragment
    <3>3. /\ best = choice[w]
          /\ choice[m].key # Main => choice[m].key = choice[w].key
          /\ choice[m].key = choice[w].key => choice[m].min <= choice[w].min
      BY <1>6, <1>7, <2>2, <3>2 DEF HeldIsBest
    <3>4. Better(choice[w], choice[i])
      BY <3>1, <3>3 DEF Take
    <3>5. CASE choice[w].key = choice[i].key /\ choice[w].min < choice[i].min
      BY <1>1, <1>6, <2>2, <3>3, <3>5, TurnFacts
    <3>6. CASE choice[w].key # choice[i].key /\ choice[w].key = Main
      BY <3>3, <3>6
    <3> QED
      BY <3>4, <3>5, <3>6 DEF Better
  <2> QED
    BY <1>1, <1>7, <2>1, <2>2, CountStep
<1>8. \E w \in Seen' : HeldIsBest(w)'
  <2>1. i \in Seen'
    BY <1>1, CountStep
  <2>2. \A m \in Seen' : Applies(m) =>
          /\ choice[m].key # Main => choice[m].key = choice[i].key
          /\ choice[m].key = choice[i].key =>
                choice[m].min < choice[i].min \/ (choice[m].min = choice[i].min /\ i <= m)
    BY <1>7
  <2>3. PICK k : k = i
    OBVIOUS
  <2>4. HeldIsBest(k)'
    BY <1>1, <1>4, <2>1, <2>2, <2>3 DEF HeldIsBest, Applies
  <2> QED
    BY <2>1, <2>3, <2>4
<1>9. LoopInv'
  BY <1>1, <1>5, <1>8, CountStep, TurnFacts DEF LoopInv, ErrAmbiguousFragment
<1> QED
  BY <1>2, <1>9 DEF Inv

\* An alternative that is met and does not beat the one held is beaten by it.
LEMMA KeepInv == ASSUME Inv, Keep PROVE Inv'
<1>1. /\ Looking /\ Count /\ i' = i + 1 /\ found
      /\ UNCHANGED <<versions, choice, best, found, result>>
  BY DEF Keep, Count
<1>2. TypeOK'
  BY <1>1, CountStep, TurnFacts DEF Inv, TypeOK, IsVersionSet
<1>3. \A n : Applies(n)' = Applies(n)
  BY <1>1 DEF Applies
<1>4. PICK w \in Seen : HeldIsBest(w)
  BY <1>1, TurnFacts DEF Inv, LoopInv, ErrAmbiguousFragment
<1>5. w < i /\ w \in Nat /\ choice[w] \in Fragment
  BY <1>1, TurnFacts DEF Inv, TypeOK
<1>6. Keeps(choice[w], choice[i])
  BY <1>4 DEF Keep, HeldIsBest
<1>7. /\ choice[i].key # Main => choice[i].key = choice[w].key
      /\ choice[i].key = choice[w].key => choice[i].min <= choice[w].min
  BY <1>1, <1>5, <1>6, TurnFacts DEF Keeps, Fragment, Rank
<1>8. HeldIsBest(w)'
  <2>1. \A m \in Seen' : m \in Seen \/ m = i
    BY <1>1, CountStep
  <2>2. choice[i].key = choice[w].key =>
           choice[i].min < choice[w].min \/ (choice[i].min = choice[w].min /\ w <= i)
    BY <1>1, <1>5, <1>7, TurnFacts DEF Fragment, Rank
  <2> QED
    BY <1>1, <1>4, <1>7, <2>1, <2>2, CountStep DEF HeldIsBest, Applies
<1>9. LoopInv'
  <2>1. \E n \in Seen' : Applies(n)'
    BY <1>8 DEF HeldIsBest
  <2> QED
    BY <1>1, <1>8, <2>1, CountStep, TurnFacts DEF LoopInv, ErrAmbiguousFragment, HeldIsBest
<1> QED
  BY <1>2, <1>9 DEF Inv

\* Resolve stops at a clash: the one held and the one looked at both apply and
\* name different products.
LEMMA AmbiguousInv == ASSUME Inv, Ambiguous PROVE Inv'
<1>1. /\ Looking /\ Count /\ found
      /\ UNCHANGED <<versions, choice, i, best, found>>
      /\ result' = Fails(ErrAmbiguousFragment)
  BY DEF Ambiguous, Count
<1>2. Fails(ErrAmbiguousFragment) \in Results
  BY DEF Results
<1>3. TypeOK'
  BY <1>1, <1>2, TurnFacts DEF Inv, TypeOK, IsVersionSet
<1>4. result'.err = ErrAmbiguousFragment
  BY <1>1 DEF Fails
<1>5. PICK w \in Seen : HeldIsBest(w)
  BY <1>1, TurnFacts DEF Inv, LoopInv, ErrAmbiguousFragment
<1>6. Clash(choice[w], choice[i])
  BY <1>5 DEF Ambiguous, HeldIsBest
<1>7. w \in Applicable /\ i \in Applicable
  BY <1>1, <1>5, TurnFacts, AppliesIsMet DEF HeldIsBest, Applicable, Ambiguous
<1>8. TwoProducts
  BY <1>6, <1>7 DEF TwoProducts, Named, Clash
<1>9. TwoProducts'
  BY <1>1, <1>8 DEF TwoProducts, Named, Applicable, Applies
<1> QED
  BY <1>3, <1>4, <1>9 DEF Inv, LoopInv, ErrAmbiguousFragment

\* After the loop, Outcome is one of the three ends that is not a clash.
LEMMA OutcomeKind ==
  ASSUME TypeOK
  PROVE  Outcome \in Results /\ Outcome.err \in {"nil", ErrNotSupported, ErrVersionTooOld}
<1>1. best.query \in Texts \cup {NoText}
  BY DEF TypeOK, Fragment
<1> QED
  BY <1>1 DEF Outcome, Results, Answer, Fails

LEMMA ReturnInv == ASSUME Inv, Return PROVE Inv'
<1>1. /\ result = Pending /\ i > Len(choice)
      /\ UNCHANGED <<versions, choice, i, best, found, reachable>>
      /\ result' = Outcome
  BY DEF Return
<1>2. TypeOK' /\ result'.err \in {"nil", ErrNotSupported, ErrVersionTooOld}
  BY <1>1, OutcomeKind DEF Inv, TypeOK, IsVersionSet
<1>3. i = Len(choice) + 1
  BY <1>1 DEF Inv, TypeOK
<1>4. result.err = "pending"
  BY <1>1 DEF Pending
<1>5. /\ found <=> \E n \in Seen : Applies(n)
      /\ found => \E w \in Seen : HeldIsBest(w)
      /\ reachable = 0 <=> \A n \in Seen : ~Reachable(versions, choice[n])
  BY <1>4 DEF Inv, LoopInv, ErrAmbiguousFragment
<1>6. /\ (found <=> \E n \in Seen : Applies(n))'
      /\ (found => \E w \in Seen : HeldIsBest(w))'
      /\ (reachable = 0 <=> \A n \in Seen : ~Reachable(versions, choice[n]))'
  BY <1>1, <1>5 DEF Seen, Applies, HeldIsBest
<1>7. (i = Len(choice) + 1 /\ result = Outcome)'
  BY <1>1, <1>3 DEF Outcome
<1> QED
  BY <1>2, <1>6, <1>7
  DEF Inv, LoopInv, ErrAmbiguousFragment, ErrNotSupported, ErrVersionTooOld

LEMMA StutterInv == ASSUME Inv, UNCHANGED vars PROVE Inv'
  BY DEF vars, Inv, TypeOK, IsVersionSet, LoopInv, Seen, Applies, HeldIsBest,
         TwoProducts, Applicable, Named, Outcome

LEMMA NextInv == Inv /\ [Next]_vars => Inv'
  BY UnmetInv, TakeInv, KeepInv, AmbiguousInv, ReturnInv, StutterInv DEF Next

\* What the loop holds at its end is what the three rules say of the choice.
LEMMA InvRules == Inv => ThreeRules
<1> SUFFICES ASSUME Inv, result # Pending PROVE ThreeRules
  BY DEF ThreeRules
<1>1. CASE result.err = ErrAmbiguousFragment
  <2>1. TwoProducts
    BY <1>1 DEF Inv, LoopInv
  <2>2. Applicable # {}
    BY <2>1 DEF TwoProducts
  <2> QED
    BY <1>1, <2>1, <2>2
    DEF ThreeRules, ErrAmbiguousFragment, ErrNotSupported, ErrVersionTooOld
<1>2. CASE result.err # ErrAmbiguousFragment
  <2>1. result.err # "pending"
    <3>1. result \in Results
      BY DEF Inv, TypeOK
    <3> QED
      BY <3>1 DEF Results, Answer, Fails, Pending,
                  ErrAmbiguousFragment, ErrNotSupported, ErrVersionTooOld
  <2>2. i = Len(choice) + 1 /\ result = Outcome
    BY <1>2, <2>1 DEF Inv, LoopInv
  <2>3. Len(choice) \in Nat /\ choice \in Seq(Fragment)
    BY DEF Inv, TypeOK
  <2>4. Seen = 1..Len(choice)
    BY <2>2, <2>3 DEF Seen
  <2>5. /\ found <=> \E n \in Seen : Applies(n)
        /\ found => \E w \in Seen : HeldIsBest(w)
        /\ reachable = 0 <=> \A n \in Seen : ~Reachable(versions, choice[n])
    BY <1>2 DEF Inv, LoopInv
  <2>6. found <=> Applicable # {}
    BY <2>4, <2>5 DEF Applicable
  <2>7. ASSUME found
        PROVE  ~TwoProducts /\ \E n \in Applicable : Winner(n) /\ best.query = choice[n].query
    <3>1. PICK w \in Seen : HeldIsBest(w)
      BY <2>5, <2>7
    <3>2. \A m \in Applicable :
             /\ Named(m) => choice[m].key = choice[w].key
             /\ choice[m].key = choice[w].key =>
                   choice[m].min < choice[w].min \/ (choice[m].min = choice[w].min /\ w <= m)
      BY <2>4, <3>1 DEF HeldIsBest, Applicable, Named
    <3>3. ~TwoProducts
      BY <3>2 DEF TwoProducts
    <3>4. w \in Applicable /\ best = choice[w]
      BY <2>4, <3>1 DEF HeldIsBest, Applicable
    <3>5. Winner(w)
      BY <3>2, <3>4 DEF Winner, Named
    <3> QED
      BY <3>3, <3>4, <3>5
  <2>8. Len(choice) > 0 /\ reachable = 0 <=> WrongProduct
    BY <2>3, <2>4, <2>5 DEF WrongProduct, Reachable, Has, Named
  <2>9. CASE found
    <3>1. result = Answer(best.query)
      BY <2>2, <2>9 DEF Outcome
    <3> QED
      BY <2>6, <2>7, <2>9, <3>1
      DEF ThreeRules, Answer, ErrAmbiguousFragment, ErrNotSupported, ErrVersionTooOld
  <2>10. CASE ~found
    <3>1. Applicable = {} /\ ~TwoProducts
      BY <2>6, <2>10 DEF TwoProducts
    <3>2. result = IF WrongProduct THEN Fails(ErrNotSupported) ELSE Fails(ErrVersionTooOld)
      BY <2>2, <2>8, <2>10 DEF Outcome
    <3> QED
      BY <3>1, <3>2
      DEF ThreeRules, Fails, ErrAmbiguousFragment, ErrNotSupported, ErrVersionTooOld
  <2> QED
    BY <2>9, <2>10
<1> QED
  BY <1>1, <1>2

\* The variables keep their types through every run of Choice.Resolve.
THEOREM TypeCorrect == Spec => []TypeOK
<1>1. Inv => TypeOK
  BY DEF Inv
<1> QED
  BY InitInv, NextInv, <1>1, PTL DEF Spec

\* The loop holds the winner of what it has seen, in every run of
\* Choice.Resolve: the invariant the three rules follow from.
THEOREM LoopCorrect == Spec => []LoopInv
<1>1. Inv => LoopInv
  BY DEF Inv
<1> QED
  BY InitInv, NextInv, <1>1, PTL DEF Spec

\* Choice.Resolve returns what its three rules say, for every choice and every
\* version set, in whatever order the alternatives are written.
THEOREM ResolveCorrect == Spec => []ThreeRules
  BY InitInv, NextInv, InvRules, PTL DEF Spec

---------------------------------------------------------------------------
(* What another release is answered: versions' is the version set of a       *)
(* server that is asked the same.                                            *)

\* A set of numbers that is not empty has a least.
LEMMA LeastIn ==
    ASSUME NEW T, T \subseteq Nat, T # {}
    PROVE  \E n \in T : \A m \in T : n <= m
<1>1. PICK n \in T : \A m \in T : ~(<<m, n>> \in OpToRel(<, Nat))
  BY WFMin, NatLessThanWellFounded
<1>2. ASSUME NEW m \in T PROVE n <= m
  <2>1. <<m, n>> \in Nat \X Nat /\ <<m, n>>[1] = m /\ <<m, n>>[2] = n
    OBVIOUS
  <2>2. ~(m < n)
    BY <1>1, <2>1, Zenon DEF OpToRel
  <2> QED BY <2>2
<1> QED BY <1>2

\* Between the gates of a choice nothing depends on the release: a server that
\* reports the same keys, and is on the same side of each gate, has the same
\* alternatives, and so the same answer.  One release on either side of each gate
\* of a model is every release (module Models, which is run on those).
THEOREM GatesDecide ==
    ASSUME UNCHANGED choice, DOMAIN versions' = DOMAIN versions,
           \A n \in 1..Len(choice) :
              choice[n].key \in DOMAIN versions =>
                 (AtLeast(versions'[choice[n].key], choice[n].min)
                    <=> AtLeast(versions[choice[n].key], choice[n].min))
    PROVE  /\ Applicable' = Applicable
           /\ TwoProducts' <=> TwoProducts
           /\ WrongProduct' <=> WrongProduct
           /\ \A n : Winner(n)' <=> Winner(n)
<1>1. \A n \in 1..Len(choice) : Applies(n)' <=> Applies(n)
  BY DEF Applies, AtLeast
<1>2. Applicable' = Applicable
  BY <1>1 DEF Applicable
<1>3. \A n : Named(n)' <=> Named(n)
  BY DEF Named
<1>4. TwoProducts' <=> TwoProducts
  BY <1>2, <1>3 DEF TwoProducts
<1>5. WrongProduct' <=> WrongProduct
  BY <1>3 DEF WrongProduct
<1>6. \A n : Winner(n)' <=> Winner(n)
  BY <1>2, <1>3 DEF Winner
<1> QED BY <1>2, <1>4, <1>5, <1>6

LEMMA MinimumOf ==
    ASSUME choice \in Seq(Fragment), NEW n \in 1..Len(choice)
    PROVE  choice[n].min \in Nat
<1>1. choice[n] \in Fragment
  OBVIOUS
<1> QED BY <1>1 DEF Fragment, Rank

\* m is no better than w, and not before it where it is as good.
NotAhead(texts, m, w) ==
    texts[m].min < texts[w].min \/ (texts[m].min = texts[w].min /\ w <= m)

\* Of some alternatives of a choice, one is ahead of all: the first of those with
\* the highest minimum.
LEMMA OneLeads ==
    ASSUME NEW texts, NEW last \in Nat, NEW A, A \subseteq 1..last, A # {},
           \A m \in A : texts[m].min \in Nat
    PROVE  \E w \in A : \A m \in A : NotAhead(texts, m, w)
<1> DEFINE Upto(k) == { m \in A : m <= k }
<1> DEFINE Led(k) == Upto(k) = {} \/ \E w \in Upto(k) : \A m \in Upto(k) : NotAhead(texts, m, w)
<1>1. \A m \in A : m \in Nat /\ 1 <= m /\ m <= last
  OBVIOUS
<1>2. ASSUME NEW k \in Nat, \A j \in Nat : j < k => Led(j)
      PROVE  Led(k)
  <2>0. \A m \in A : (m <= k <=> m <= k - 1 \/ m = k) /\ ~(m <= 0)
    BY <1>1
  <2>1. CASE k \notin A /\ k = 0
    <3>1. Upto(k) = {}
      BY <2>0, <2>1
    <3> HIDE DEF Upto
    <3> QED BY <3>1
  <2>2. CASE k \notin A /\ k # 0
    <3>0. k - 1 \in Nat /\ k - 1 < k
      BY <2>2
    <3>1. Upto(k) = Upto(k - 1)
      BY <2>0, <2>2
    <3>2. Led(k - 1)
      BY <1>2, <3>0
    <3> HIDE DEF Upto
    <3> QED BY <3>1, <3>2
  <2>3. CASE k \in A /\ Upto(k - 1) = {}
    <3>1. Upto(k) = {k}
      BY <2>0, <2>3
    <3>2. NotAhead(texts, k, k)
      BY <1>1, <2>3 DEF NotAhead
    <3> HIDE DEF Upto
    <3> QED BY <3>1, <3>2
  <2>4. CASE k \in A /\ Upto(k - 1) # {}
    <3>0. k - 1 \in Nat /\ k - 1 < k
      BY <1>1, <2>4
    <3>1. Upto(k) = Upto(k - 1) \cup {k}
      BY <2>0, <2>4
    <3>2. \A m \in Upto(k) : m \in Nat /\ texts[m].min \in Nat
      BY <1>1
    <3>3. \A m \in Upto(k - 1) : m < k
      BY <1>1
    <3>4. Led(k - 1)
      BY <1>2, <3>0
    <3> HIDE DEF Upto
    <3>5. PICK w \in Upto(k - 1) : \A m \in Upto(k - 1) : NotAhead(texts, m, w)
      BY <2>4, <3>4
    <3>6. CASE texts[w].min < texts[k].min
      <4>1. \A m \in Upto(k) : NotAhead(texts, m, k)
        BY <3>1, <3>2, <3>5, <3>6 DEF NotAhead
      <4> QED BY <3>1, <4>1
    <3>7. CASE ~(texts[w].min < texts[k].min)
      <4>1. NotAhead(texts, k, w)
        BY <3>1, <3>2, <3>3, <3>5, <3>7 DEF NotAhead
      <4> QED BY <3>1, <3>5, <4>1
    <3> QED BY <3>6, <3>7
  <2> QED BY <2>1, <2>2, <2>3, <2>4
<1> HIDE DEF Led
<1>3. Led(last)
  <2> SUFFICES ASSUME ~Led(last) PROVE FALSE
    OBVIOUS
  <2> DEFINE T == { k \in Nat : ~Led(k) }
  <2>1. T \subseteq Nat /\ T # {}
    OBVIOUS
  <2>2. PICK k \in T : \A j \in T : k <= j
    <3> HIDE DEF T
    <3> QED BY <2>1, LeastIn
  <2>3. \A j \in Nat : j < k => Led(j)
    BY <2>2
  <2> QED BY <1>2, <2>2, <2>3
<1>4. Upto(last) = A
  BY <1>1
<1> HIDE DEF Upto
<1> QED BY <1>3, <1>4 DEF Led

\* A choice has a winner wherever something applies and no two products are met:
\* the three rules say what to return of every choice.
THEOREM WinnerIsThere ==
    choice \in Seq(Fragment) /\ Applicable # {} /\ ~TwoProducts
      => \E n \in Applicable : Winner(n)
<1> SUFFICES ASSUME choice \in Seq(Fragment), Applicable # {}, ~TwoProducts
             PROVE  \E n \in Applicable : Winner(n)
  OBVIOUS
<1> DEFINE A == IF \E n \in Applicable : Named(n) THEN { n \in Applicable : Named(n) } ELSE Applicable
<1>1. A # {} /\ A \subseteq Applicable /\ Applicable \subseteq 1..Len(choice)
  BY DEF Applicable
<1>2. PICK w \in A : \A m \in A : NotAhead(choice, m, w)
  <2>1. Len(choice) \in Nat /\ A \subseteq 1..Len(choice)
    <3>1. Len(choice) \in Nat
      OBVIOUS
    <3> HIDE DEF A
    <3> QED BY <1>1, <3>1
  <2>2. \A m \in A : choice[m].min \in Nat
    BY <2>1, MinimumOf
  <2> HIDE DEF A
  <2> QED BY <1>1, <2>1, <2>2, OneLeads
<1>3. \A m \in Applicable : Named(m) => Named(w)
  BY <1>2
<1>4. \A m \in Applicable : choice[m].key = choice[w].key => m \in A
  BY <1>2 DEF Named
<1> QED BY <1>1, <1>2, <1>3, <1>4 DEF Winner, NotAhead

\* A later release of the same product: it reports the same keys.
Upgraded ==
    /\ UNCHANGED choice
    /\ DOMAIN versions' = DOMAIN versions
    /\ \A key \in DOMAIN versions :
          versions[key] \in Nat /\ versions'[key] \in Nat /\ versions[key] <= versions'[key]

\* What a server can be asked it can be asked after an upgrade: an alternative that
\* applied applies, and a statement that had an answer has one, unless a second
\* product of the choice is met now.  (A choice has no upper bound to a gate:
\* Gate.Met.)
THEOREM UpgradeAnswers ==
    ASSUME choice \in Seq(Fragment), Upgraded
    PROVE  /\ Applicable \subseteq Applicable'
           /\ WrongProduct' <=> WrongProduct
           /\ Applicable # {} /\ ~TwoProducts' => ~TwoProducts /\ \E n \in Applicable' : Winner(n)'
<1>1. \A n \in 1..Len(choice) : choice[n].min \in Nat
  BY MinimumOf
<1>2. ASSUME NEW n \in Applicable PROVE n \in Applicable'
  BY <1>1, <1>2, ResolveAssumption DEF Upgraded, Applicable, Applies, Rank
<1>3. \A n : Named(n)' <=> Named(n)
  BY DEF Named, Upgraded
<1>4. WrongProduct' <=> WrongProduct
  BY <1>3 DEF WrongProduct, Upgraded
<1>5. TwoProducts => TwoProducts'
  BY <1>2, <1>3 DEF TwoProducts, Upgraded
<1>6. choice' \in Seq(Fragment)
  BY DEF Upgraded
<1>7. Applicable' # {} /\ ~TwoProducts' => \E n \in Applicable' : Winner(n)'
  <2>1. (choice \in Seq(Fragment) /\ Applicable # {} /\ ~TwoProducts
           => \E n \in Applicable : Winner(n))'
    BY WinnerIsThere, PTL
  <2> QED BY <1>6, <2>1
<1> QED BY <1>2, <1>4, <1>5, <1>7

\* An upgrade never falls back to an older text: of what wins before and after it,
\* the later names a product if the earlier did, and under the same key it has no
\* smaller minimum (the second and third rule of Choice.Resolve).
THEOREM UpgradeNeverFallsBack ==
    ASSUME choice \in Seq(Fragment), Upgraded, ~TwoProducts',
           NEW m, Winner(m), NEW n, Winner(n)'
    PROVE  /\ Named(m) => choice[n].key = choice[m].key
           /\ choice[n].key = choice[m].key => choice[m].min <= choice[n].min
<1>1. m \in Applicable' /\ n \in Applicable' /\ choice' = choice
  BY UpgradeAnswers DEF Winner, Upgraded
<1>2. m \in 1..Len(choice) /\ n \in 1..Len(choice)
  BY <1>1 DEF Applicable
<1>3. choice[m].min \in Nat /\ choice[n].min \in Nat
  BY <1>2, MinimumOf
<1>4. \A h : Named(h)' <=> Named(h)
  BY <1>1 DEF Named
<1>5. Named(m) => Named(n)
  BY <1>1, <1>4 DEF Winner
<1>6. Named(m) => choice[n].key = choice[m].key
  BY <1>1, <1>4, <1>5 DEF TwoProducts
<1>7. choice[n].key = choice[m].key =>
         choice[m].min < choice[n].min \/ choice[m].min = choice[n].min
  BY <1>1 DEF Winner
<1> QED BY <1>3, <1>6, <1>7

---------------------------------------------------------------------------
(* The models: what Resolve is asked, on every release of every product.     *)

\* The server's release of the key of the gate is that of the gate or a later one.
Reaches(vs, g) == vs[g.key] = Unreported \/ vs[g.key] >= g.min

\* What a server of product p reports.
Reported(p, vs) == DOMAIN vs = KeysOf(p) /\ \A key \in KeysOf(p) : vs[key] \in ReportedVersion

LEMMA ServersReport == ASSUME NEW p \in Products PROVE \A vs \in Servers(p) : Reported(p, vs)
<1>1. ASSUME NEW r \in Releases[p] PROVE Reported(p, VersionSet(p, r))
  <2>1. r.main \in ReportedVersion /\ r.own \in ReportedVersion
    BY ModelsAssumption
  <2> QED BY <2>1 DEF Reported, VersionSet
<1> QED BY <1>1 DEF Servers

LEMMA MainIsReported == ASSUME NEW p PROVE "" \in KeysOf(p)
  BY DEF KeysOf, MainKeys

LEMMA TextsType ==
    ASSUME NEW texts \in Seq(FragmentType)
    PROVE  /\ Len(texts) \in Nat /\ DOMAIN texts = 1..Len(texts)
           /\ \A n \in DOMAIN texts : texts[n].min \in Nat
<1>1. Len(texts) \in Nat /\ DOMAIN texts = 1..Len(texts)
  OBVIOUS
<1>2. ASSUME NEW n \in DOMAIN texts PROVE texts[n].min \in Nat
  <2>1. texts[n] \in FragmentType
    BY <1>1
  <2> QED BY <2>1 DEF FragmentType
<1> QED BY <1>1, <1>2

\* What applies on a server is meant for its product and reached by its release.
LEMMA AppliesWhere ==
    ASSUME NEW p, NEW vs, Reported(p, vs), NEW texts \in Seq(FragmentType), NEW n
    PROVE  n \in Rules(vs, texts)!Applicable <=> n \in Meant(p, texts) /\ Reaches(vs, texts[n])
  BY TextsType, MainIsReported
  DEF Rules!Applicable, Rules!Applies, Meant, Reaches, Reported, ReportedVersion

LEMMA ImpliedIsReached ==
    ASSUME NEW p, NEW vs, Reported(p, vs), NEW f, NEW g, f.min \in Nat, g.min \in Nat,
           f.key \in KeysOf(p), g.key \in KeysOf(p), Implied(f, g), Reaches(vs, g)
    PROVE  Reaches(vs, f)
<1>1. vs[f.key] = Unreported \/ vs[f.key] \in Nat
  BY DEF Reported, ReportedVersion
<1>2. CASE f.min = 0
  BY <1>1, <1>2 DEF Reaches
<1>3. CASE f.key = g.key /\ f.min <= g.min
  BY <1>1, <1>3 DEF Reaches
<1> QED BY <1>2, <1>3 DEF Implied

\* A piece that resolves has a winner, and its text is the answer.
LEMMA ResolvedByWinner ==
    ASSUME NEW vs, NEW texts \in Seq(FragmentType), Resolves(vs, texts)
    PROVE  \E w \in DOMAIN texts : Rules(vs, texts)!Winner(w) /\ Resolved(vs, texts) = texts[w].query
<1> DEFINE P == Rules(vs, texts)!Applicable
<1> DEFINE A == IF \E n \in P : Rules(vs, texts)!Named(n) THEN { n \in P : Rules(vs, texts)!Named(n) } ELSE P
<1>1. P # {} /\ P \subseteq 1..Len(texts)
  BY DEF Resolves, Rules!Applicable
<1>2. A # {} /\ A \subseteq P
  BY <1>1
<1>3. PICK w \in A : \A m \in A : NotAhead(texts, m, w)
  <2>1. A \subseteq 1..Len(texts) /\ \A m \in A : texts[m].min \in Nat
    BY <1>1, <1>2, TextsType
  <2> HIDE DEF A, P
  <2> QED BY <1>2, <2>1, OneLeads, TextsType
<1>4. \A m \in P : Rules(vs, texts)!Named(m) => Rules(vs, texts)!Named(w)
  BY <1>3
<1>5. \A m \in P : texts[m].key = texts[w].key => m \in A
  BY <1>3 DEF Rules!Named
<1>6. Rules(vs, texts)!Winner(w)
  BY <1>2, <1>3, <1>4, <1>5 DEF Rules!Winner, NotAhead
<1>7. w \in DOMAIN texts
  BY <1>1, <1>2, TextsType
<1> DEFINE c == CHOOSE n \in DOMAIN texts : Rules(vs, texts)!Winner(n)
<1>8. c \in DOMAIN texts /\ Rules(vs, texts)!Winner(c)
  BY <1>6, <1>7
<1>9. Resolved(vs, texts) = texts[c].query
  BY DEF Resolved
<1> HIDE DEF c
<1> QED BY <1>8, <1>9

\* What is beaten where a gate is met does not win on a server that meets it.
LEMMA WinnerIsUnbeaten ==
    ASSUME NEW p, NEW vs, Reported(p, vs), NEW texts \in Seq(FragmentType),
           NEW m, Rules(vs, texts)!Winner(m),
           NEW g, g.min \in Nat, g.key \in KeysOf(p), Reaches(vs, g)
    PROVE  ~Beaten(p, texts, m, g)
<1> SUFFICES ASSUME NEW h \in Meant(p, texts), Implied(texts[h], g), Beats(texts[h], texts[m])
             PROVE  FALSE
  BY DEF Beaten
<1>1. h \in DOMAIN texts /\ texts[h].key \in KeysOf(p) /\ texts[h].min \in Nat
  BY TextsType DEF Meant
<1>2. h \in Rules(vs, texts)!Applicable
  BY <1>1, AppliesWhere, ImpliedIsReached
<1>3. m \in Rules(vs, texts)!Applicable
  BY DEF Rules!Winner
<1>4. texts[m].min \in Nat
  BY <1>3, AppliesWhere, TextsType DEF Meant
<1>5. /\ Names(texts[h]) => Names(texts[m])
      /\ texts[h].key = texts[m].key => texts[h].min < texts[m].min \/ texts[h].min = texts[m].min
  BY <1>2 DEF Rules!Winner, Rules!Named, Names
<1> QED BY <1>1, <1>4, <1>5 DEF Beats

LEMMA WinnerReached ==
    ASSUME NEW p, NEW vs, Reported(p, vs), NEW texts \in Seq(FragmentType),
           NEW m, Rules(vs, texts)!Winner(m)
    PROVE  /\ m \in Meant(p, texts) /\ Reaches(vs, texts[m])
           /\ texts[m].min \in Nat /\ texts[m].key \in KeysOf(p)
<1>1. m \in Rules(vs, texts)!Applicable
  BY DEF Rules!Winner
<1> QED BY <1>1, AppliesWhere, TextsType DEF Meant

---------------------------------------------------------------------------
\* The choice of piece j of a binding.
Choice(b, j) == b.stmt[j].choice

LEMMA BindingsType ==
    ASSUME NEW p \in Products, NEW b \in Registered(p)
    PROVE  /\ Len(b.stmt) \in Nat /\ DOMAIN b.stmt = 1..Len(b.stmt)
           /\ \A j \in DOMAIN b.stmt : /\ Choice(b, j) \in Seq(FragmentType)
                                       /\ b.stmt[j].gates \subseteq GateType
<1>1. b \in BindingType
  BY ModelsAssumption, RegistryAssumption
<1>2. b.stmt \in Seq(PieceType)
  BY <1>1 DEF BindingType
<1>3. \A j \in DOMAIN b.stmt : b.stmt[j] \in PieceType
  BY <1>2
<1>4. \A j \in DOMAIN b.stmt : /\ Choice(b, j) \in Seq(FragmentType)
                               /\ b.stmt[j].gates \subseteq GateType
  BY <1>3 DEF PieceType, Choice
<1> QED BY <1>2, <1>4

\* No server of a product meets two products in one piece.
LEMMA NeverAmbiguous ==
    ASSUME NEW p \in Products, NEW b \in Registered(p), NEW j \in DOMAIN b.stmt,
           NEW vs, Reported(p, vs)
    PROVE  ~Rules(vs, Choice(b, j))!TwoProducts
<1>1. Choice(b, j) \in Seq(FragmentType)
  BY BindingsType
<1>2. NamesOneKey(p, b)
  BY ModelsAssumption, RegistryAssumption
<1>3. \A m, n \in Meant(p, Choice(b, j)) :
         Names(Choice(b, j)[m]) /\ Names(Choice(b, j)[n]) => Choice(b, j)[m].key = Choice(b, j)[n].key
  BY <1>2 DEF NamesOneKey, Choice
<1>4. \A n \in Rules(vs, Choice(b, j))!Applicable : n \in Meant(p, Choice(b, j))
  BY <1>1, AppliesWhere
<1> QED BY <1>3, <1>4 DEF Rules!TwoProducts, Rules!Named, Names

\* A release can resolve a piece where it reaches an alternative of its product.
LEMMA ResolvesWhere ==
    ASSUME NEW p \in Products, NEW b \in Registered(p), NEW j \in DOMAIN b.stmt,
           NEW vs, Reported(p, vs)
    PROVE  Resolves(vs, Choice(b, j))
             <=> \E n \in Meant(p, Choice(b, j)) : Reaches(vs, Choice(b, j)[n])
<1>1. Choice(b, j) \in Seq(FragmentType)
  BY BindingsType
<1>2. \A n : n \in Rules(vs, Choice(b, j))!Applicable
               <=> n \in Meant(p, Choice(b, j)) /\ Reaches(vs, Choice(b, j)[n])
  BY <1>1, AppliesWhere
<1> QED BY <1>2, NeverAmbiguous DEF Resolves

\* What a later release of a server reaches.
LEMMA NewerReaches ==
    ASSUME NEW p, NEW vs, Reported(p, vs), NEW ws, Reported(p, ws), Newer(vs, ws),
           NEW g, g.key \in KeysOf(p), g.min \in Nat, Reaches(vs, g)
    PROVE  Reaches(ws, g)
<1>1. vs[g.key] \in Nat /\ ws[g.key] \in Nat /\ vs[g.key] <= ws[g.key]
  BY DEF Newer, Reported
<1>2. Unreported \notin Nat
  BY ModelsAssumption
<1> QED BY <1>1, <1>2 DEF Reaches

LEMMA NewerResolves ==
    ASSUME NEW p \in Products, NEW b \in Registered(p), NEW j \in DOMAIN b.stmt,
           NEW vs, Reported(p, vs), NEW ws, Reported(p, ws), Newer(vs, ws),
           Resolves(vs, Choice(b, j))
    PROVE  Resolves(ws, Choice(b, j))
<1>1. PICK n \in Meant(p, Choice(b, j)) : Reaches(vs, Choice(b, j)[n])
  BY ResolvesWhere
<1>2. Choice(b, j)[n].key \in KeysOf(p) /\ Choice(b, j)[n].min \in Nat
  BY <1>1, BindingsType, TextsType DEF Meant
<1>3. Reaches(ws, Choice(b, j)[n])
  BY <1>1, <1>2, NewerReaches
<1> QED BY <1>1, <1>3, ResolvesWhere

---------------------------------------------------------------------------
(* The four facts, of one server. *)

Answers(b, vs) == \A j \in DOMAIN b.stmt : Resolves(vs, Choice(b, j))

TextOf(b, vs, j) == Resolved(vs, Choice(b, j))

\* What the text of one piece reads, the text of another joins.
LEMMA ReadsJoined ==
    ASSUME NEW p \in Products, NEW b \in Registered(p), NEW vs, Reported(p, vs), Answers(b, vs),
           NEW j \in DOMAIN b.stmt, NEW relation \in TextOf(b, vs, j).reads, relation # Everywhere
    PROVE  \E d \in DOMAIN b.stmt : relation \in TextOf(b, vs, d).joins
<1>1. \A d \in DOMAIN b.stmt :
         /\ Choice(b, d) \in Seq(FragmentType)
         /\ \E w : Rules(vs, Choice(b, d))!Winner(w) /\ TextOf(b, vs, d) = Choice(b, d)[w].query
  BY BindingsType, ResolvedByWinner DEF Answers, TextOf
<1>2. PICK m : Rules(vs, Choice(b, j))!Winner(m) /\ TextOf(b, vs, j) = Choice(b, j)[m].query
  BY <1>1
<1>3. /\ m \in Meant(p, Choice(b, j)) /\ Reaches(vs, Choice(b, j)[m])
      /\ Choice(b, j)[m].min \in Nat /\ Choice(b, j)[m].key \in KeysOf(p)
  BY <1>1, <1>2, WinnerReached
<1>4. ReadsAreHosted(p, b)
  BY ModelsAssumption, RegistryAssumption
<1>5. PICK d \in DOMAIN b.stmt : HostedBy(p, b, j, m, relation, d)
  BY <1>2, <1>3, <1>4 DEF ReadsAreHosted, Choice
<1>6. PICK h : Rules(vs, Choice(b, d))!Winner(h) /\ TextOf(b, vs, d) = Choice(b, d)[h].query
  BY <1>1
<1>7. /\ h \in Meant(p, Choice(b, d)) /\ Reaches(vs, Choice(b, d)[h])
      /\ Choice(b, d)[h].min \in Nat /\ Choice(b, d)[h].key \in KeysOf(p)
  BY <1>1, <1>6, WinnerReached
<1>8. ~Beaten(p, Choice(b, d), h, Choice(b, j)[m])
  BY <1>1, <1>3, <1>6, WinnerIsUnbeaten
<1>9. ~Beaten(p, Choice(b, j), m, Choice(b, d)[h])
  BY <1>1, <1>2, <1>7, WinnerIsUnbeaten
<1> QED BY <1>5, <1>6, <1>7, <1>8, <1>9 DEF HostedBy, Choice

\* The gates of a field that is told apart are met exactly where its column is not
\* padded.
LEMMA GatesAreRight ==
    ASSUME NEW p \in Products, NEW b \in Registered(p), NEW vs, Reported(p, vs),
           NEW j \in DOMAIN b.stmt, Resolves(vs, Choice(b, j)), GatesTell(p, b.stmt[j])
    PROVE  Present(b.stmt[j].gates, vs) <=> ~TextOf(b, vs, j).pads
<1>1. Choice(b, j) \in Seq(FragmentType)
  BY BindingsType
<1>2. PICK m : Rules(vs, Choice(b, j))!Winner(m) /\ TextOf(b, vs, j) = Choice(b, j)[m].query
  BY <1>1, ResolvedByWinner DEF TextOf
<1>3. /\ m \in Meant(p, Choice(b, j)) /\ Reaches(vs, Choice(b, j)[m])
      /\ Choice(b, j)[m].min \in Nat /\ Choice(b, j)[m].key \in KeysOf(p)
  BY <1>1, <1>2, WinnerReached
<1>4. \A g \in b.stmt[j].gates : g.min \in Nat
  BY BindingsType DEF GateType
<1>5. \A g \in b.stmt[j].gates : GateMet(g, vs) <=> g.key \in KeysOf(p) /\ Reaches(vs, g)
  BY <1>4, MainIsReported
  DEF GateMet, Rules!Met, Rules!Has, Rules!Get, Rules!AtLeast, Reaches, Reported, ReportedVersion
<1>6. CASE Choice(b, j)[m].query.pads
  <2>1. ASSUME NEW g \in b.stmt[j].gates, g.key \in KeysOf(p), Reaches(vs, g)
        PROVE  FALSE
    <3>1. Beaten(p, Choice(b, j), m, g)
      BY <1>3, <1>6, <2>1 DEF GatesTell, Choice
    <3> QED BY <1>1, <1>2, <1>4, <2>1, <3>1, WinnerIsUnbeaten
  <2> QED BY <1>2, <1>5, <1>6, <2>1 DEF Present
<1>7. CASE ~Choice(b, j)[m].query.pads
  <2>1. ~Beaten(p, Choice(b, j), m, Choice(b, j)[m])
    BY <1>1, <1>2, <1>3, WinnerIsUnbeaten
  <2>2. PICK g \in b.stmt[j].gates : g.key \in KeysOf(p) /\ Implied(g, Choice(b, j)[m])
    BY <1>3, <1>7, <2>1 DEF GatesTell, Choice
  <2>3. Reaches(vs, g)
    BY <1>3, <1>4, <2>2, ImpliedIsReached
  <2> QED BY <1>2, <1>5, <1>7, <2>2, <2>3 DEF Present
<1> QED BY <1>6, <1>7

\* A column that a release has a source for is not padded on a later one.
LEMMA PadsStayAway ==
    ASSUME NEW p \in Products, NEW b \in Registered(p), NEW j \in DOMAIN b.stmt,
           NEW vs, Reported(p, vs), NEW ws, Reported(p, ws), Newer(vs, ws),
           Resolves(vs, Choice(b, j)), TextOf(b, ws, j).pads
    PROVE  TextOf(b, vs, j).pads
<1>1. Choice(b, j) \in Seq(FragmentType) /\ Resolves(ws, Choice(b, j))
  BY BindingsType, NewerResolves
<1>2. PICK m : Rules(vs, Choice(b, j))!Winner(m) /\ TextOf(b, vs, j) = Choice(b, j)[m].query
  BY <1>1, ResolvedByWinner DEF TextOf
<1>3. PICK n : Rules(ws, Choice(b, j))!Winner(n) /\ TextOf(b, ws, j) = Choice(b, j)[n].query
  BY <1>1, ResolvedByWinner DEF TextOf
<1>4. /\ m \in Meant(p, Choice(b, j)) /\ Reaches(vs, Choice(b, j)[m])
      /\ Choice(b, j)[m].min \in Nat /\ Choice(b, j)[m].key \in KeysOf(p)
  BY <1>1, <1>2, WinnerReached
<1>5. n \in Meant(p, Choice(b, j))
  BY <1>1, <1>3, WinnerReached
<1>6. Reaches(ws, Choice(b, j)[m])
  BY <1>4, NewerReaches
<1>7. ~Beaten(p, Choice(b, j), n, Choice(b, j)[m]) /\ ~Beaten(p, Choice(b, j), m, Choice(b, j)[m])
  BY <1>1, <1>2, <1>3, <1>4, <1>6, WinnerIsUnbeaten
<1>8. PadsRunOut(p, b)
  BY ModelsAssumption, RegistryAssumption
<1>9. Choice(b, j)[n].query.pads => Choice(b, j)[m].query.pads
  BY <1>4, <1>5, <1>7, <1>8 DEF PadsRunOut, Choice
<1> QED BY <1>2, <1>3, <1>9

---------------------------------------------------------------------------
(* What Build has done, of this release and of the one before. *)

Whom ==
    /\ product \in Products
    /\ server \in Servers(product)
    /\ binding \in Registered(product)

TextsOf(b) ==
    UNION { { Choice(b, j)[n].query : n \in DOMAIN Choice(b, j) } : j \in DOMAIN b.stmt }

\* The texts so far are those of the pieces so far, which all resolve.
SoFar ==
    /\ place \in 1..(Len(binding.stmt) + 1)
    /\ built \in Seq(TextsOf(binding))
    /\ Len(built) = place - 1
    /\ \A j \in 1..Len(built) :
          built[j] = TextOf(binding, server, j) /\ Resolves(server, Choice(binding, j))

\* What Build returned, it returned of the piece it came to.
Ended ==
    /\ err = "nil" => place = Len(binding.stmt) + 1
    /\ err \notin {NotBuilt, "nil"} =>
          /\ place <= Len(binding.stmt)
          /\ ~Resolves(server, Choice(binding, place))
          /\ err = WhyNot(server, Choice(binding, place))

\* Before the upgrade an older release of the same product was asked the same.
Earlier ==
    before # NotAsked =>
        /\ before.server \in Servers(product)
        /\ Newer(before.server, server)
        /\ before.err = "nil" =>
              /\ Answers(binding, before.server)
              /\ DOMAIN before.built = DOMAIN binding.stmt
              /\ \A j \in DOMAIN binding.stmt : before.built[j] = TextOf(binding, before.server, j)

BuildInv == Whom /\ SoFar /\ Ended /\ Earlier

\* What a statement that was built is.
LEMMA WholeIs ==
    ASSUME Whom, SoFar, place = Len(binding.stmt) + 1
    PROVE  /\ Answers(binding, server)
           /\ DOMAIN built = DOMAIN binding.stmt
           /\ \A j \in DOMAIN binding.stmt : built[j] = TextOf(binding, server, j)
<1>1. Len(binding.stmt) \in Nat /\ DOMAIN binding.stmt = 1..Len(binding.stmt)
  BY BindingsType DEF Whom
<1>2. Len(built) = Len(binding.stmt) /\ DOMAIN built = 1..Len(built)
  BY <1>1 DEF SoFar
<1> QED BY <1>1, <1>2 DEF SoFar, Answers

LEMMA BuildBegins == ModelsInit => BuildInv
<1> SUFFICES ASSUME ModelsInit PROVE BuildInv
  OBVIOUS
<1>1. Whom
  BY DEF ModelsInit, Whom
<1>2. Len(binding.stmt) \in Nat
  BY <1>1, BindingsType DEF Whom
<1>3. SoFar
  BY <1>2 DEF ModelsInit, SoFar
<1>4. Ended /\ Earlier
  BY DEF ModelsInit, Ended, Earlier, NotBuilt
<1> QED BY <1>1, <1>3, <1>4 DEF BuildInv

LEMMA NextPieceKeeps == ASSUME BuildInv, NextPiece PROVE BuildInv'
<1>1. /\ product' = product /\ server' = server /\ binding' = binding
      /\ err' = err /\ before' = before /\ place' = place + 1
      /\ built' = Append(built, TextOf(binding, server, place))
      /\ Resolves(server, Choice(binding, place)) /\ err = NotBuilt /\ place <= Len(binding.stmt)
  BY DEF NextPiece, Asking, Piece, TextOf, Choice
<1>2. Len(binding.stmt) \in Nat /\ DOMAIN binding.stmt = 1..Len(binding.stmt) /\ Whom
  BY BindingsType DEF BuildInv, Whom
<1>3. place \in DOMAIN binding.stmt
  BY <1>1, <1>2 DEF BuildInv, SoFar
<1>4. TextOf(binding, server, place) \in TextsOf(binding)
  <2>1. Choice(binding, place) \in Seq(FragmentType)
    BY <1>2, <1>3, BindingsType DEF Whom
  <2>2. PICK w \in DOMAIN Choice(binding, place) :
           Resolved(server, Choice(binding, place)) = Choice(binding, place)[w].query
    BY <1>1, <2>1, ResolvedByWinner
  <2> QED BY <1>3, <2>2 DEF TextsOf, TextOf
<1>5. Whom' /\ Ended' /\ Earlier'
  BY <1>1 DEF BuildInv, Whom, Ended, Earlier, NotBuilt
<1>6. /\ built' \in Seq(TextsOf(binding)) /\ Len(built') = Len(built) + 1
      /\ \A j \in 1..Len(built) : built'[j] = built[j]
      /\ built'[Len(built) + 1] = TextOf(binding, server, place)
  BY <1>1, <1>4 DEF BuildInv, SoFar
<1>7. Len(built) = place - 1 /\ place \in 1..(Len(binding.stmt) + 1)
  BY DEF BuildInv, SoFar
<1>8. \A j \in 1..Len(built') :
         built'[j] = TextOf(binding, server, j) /\ Resolves(server, Choice(binding, j))
  <2> SUFFICES ASSUME NEW j \in 1..Len(built')
               PROVE  built'[j] = TextOf(binding, server, j) /\ Resolves(server, Choice(binding, j))
    OBVIOUS
  <2>1. CASE j = place
    BY <1>1, <1>2, <1>6, <1>7, <2>1
  <2>2. CASE j # place
    <3>1. j \in 1..Len(built)
      BY <1>2, <1>6, <1>7, <2>2
    <3> QED BY <1>6, <3>1 DEF BuildInv, SoFar
  <2> QED BY <2>1, <2>2
<1>9. SoFar'
  <2>1. place' \in 1..(Len(binding.stmt) + 1) /\ Len(built') = place' - 1
    BY <1>1, <1>2, <1>6, <1>7
  <2> QED BY <1>1, <1>6, <1>8, <2>1 DEF SoFar
<1> QED BY <1>5, <1>9 DEF BuildInv

LEMMA ReturnsKeep == ASSUME BuildInv, Refused \/ Built PROVE BuildInv'
<1>1. UNCHANGED <<product, server, binding, place, built, before>>
  BY DEF Refused, Built
<1>2. Whom' /\ SoFar' /\ Earlier'
  BY <1>1 DEF BuildInv, Whom, SoFar, Earlier
<1>3. CASE Refused
  <2>1. /\ ~Resolves(server, Choice(binding, place)) /\ place <= Len(binding.stmt)
        /\ err' = WhyNot(server, Choice(binding, place))
    BY <1>3 DEF Refused, Asking, Piece, Choice
  <2>2. err' # "nil"
    BY <2>1 DEF WhyNot
  <2> QED BY <1>1, <1>2, <2>1, <2>2 DEF BuildInv, Ended
<1>4. CASE Built
  <2>1. place > Len(binding.stmt) /\ err' = "nil"
    BY <1>4 DEF Built
  <2>2. Len(binding.stmt) \in Nat /\ place \in 1..(Len(binding.stmt) + 1)
    BY BindingsType DEF BuildInv, Whom, SoFar
  <2>3. place = Len(binding.stmt) + 1
    BY <2>1, <2>2
  <2> QED BY <1>1, <1>2, <2>1, <2>3 DEF BuildInv, Ended
<1> QED BY <1>3, <1>4

LEMMA UpgradeKeeps == ASSUME BuildInv, Upgrade PROVE BuildInv'
<1>1. /\ product' = product /\ binding' = binding /\ err # NotBuilt
      /\ server' \in Servers(product) /\ Newer(server, server')
      /\ before' = [server |-> server, built |-> built, err |-> err]
      /\ place' = 1 /\ built' = <<>> /\ err' = NotBuilt
  BY DEF Upgrade
<1>2. Whom' /\ Ended'
  BY <1>1 DEF BuildInv, Whom, Ended, NotBuilt
<1>3. Len(binding.stmt) \in Nat
  BY BindingsType DEF BuildInv, Whom
<1>4. SoFar'
  BY <1>1, <1>3 DEF SoFar
<1>5. before'.server = server /\ before'.built = built /\ before'.err = err
  BY <1>1
<1>6. before'.err = "nil" =>
         /\ Answers(binding, server)
         /\ DOMAIN built = DOMAIN binding.stmt
         /\ \A j \in DOMAIN binding.stmt : built[j] = TextOf(binding, server, j)
  BY <1>5, WholeIs DEF BuildInv, Ended
<1>7. Earlier'
  BY <1>1, <1>5, <1>6 DEF BuildInv, Whom, Earlier
<1> QED BY <1>2, <1>4, <1>7 DEF BuildInv

LEMMA BuildAlways == ModelsSpec => []BuildInv
<1>1. BuildInv /\ [ModelsNext]_modelsVars => BuildInv'
  <2>1. ASSUME BuildInv, UNCHANGED modelsVars PROVE BuildInv'
    BY <2>1 DEF BuildInv, Whom, SoFar, Ended, Earlier, modelsVars
  <2> QED BY <2>1, NextPieceKeeps, ReturnsKeep, UpgradeKeeps DEF ModelsNext
<1> QED BY <1>1, BuildBegins, PTL DEF ModelsSpec

---------------------------------------------------------------------------
\* On every release of every product that is in the binary, what a statement reads
\* is joined in it.
THEOREM JoinsCorrect == ModelsSpec => []ReadsWhatIsJoined
<1>1. BuildInv => ReadsWhatIsJoined
  <2> SUFFICES ASSUME BuildInv, err = "nil", NEW j \in DOMAIN built,
                      NEW relation \in built[j].reads, relation # Everywhere
               PROVE  relation \in Joined
    BY DEF ReadsWhatIsJoined
  <2>1. Whom /\ Reported(product, server)
    BY ServersReport DEF BuildInv, Whom
  <2>2. /\ Answers(binding, server) /\ DOMAIN built = DOMAIN binding.stmt
        /\ \A l \in DOMAIN binding.stmt : built[l] = TextOf(binding, server, l)
    BY WholeIs DEF BuildInv, Ended
  <2>3. PICK d \in DOMAIN binding.stmt : relation \in TextOf(binding, server, d).joins
    BY <2>1, <2>2, ReadsJoined DEF Whom
  <2> QED BY <2>2, <2>3 DEF Joined
<1> QED BY <1>1, BuildAlways, PTL

\* On every release, a field that is not among those known to lead astray is present
\* exactly where its column has a source.
THEOREM PresentCorrect == ModelsSpec => []PresentTells
<1>1. BuildInv => PresentTells
  <2> SUFFICES ASSUME BuildInv, err = "nil",
                      NEW name \in Astray, name \notin KnownAstray(product, binding.query)
               PROVE  FALSE
    BY DEF PresentTells, Astray
  <2>1. Whom /\ Reported(product, server)
    BY ServersReport DEF BuildInv, Whom
  <2>2. /\ Answers(binding, server) /\ DOMAIN built = DOMAIN binding.stmt
        /\ \A l \in DOMAIN binding.stmt : built[l] = TextOf(binding, server, l)
    BY WholeIs DEF BuildInv, Ended
  <2>3. FieldsTell(product, binding)
    BY <2>1, ModelsAssumption, RegistryAssumption DEF Whom
  <2> DEFINE Mine == { j \in DOMAIN binding.stmt : name \in binding.stmt[j].names }
  <2>4. \A j \in Mine : Present(binding.stmt[j].gates, server) <=> ~built[j].pads
    <3>1. ASSUME NEW j \in Mine PROVE Present(binding.stmt[j].gates, server) <=> ~TextOf(binding, server, j).pads
      <4>1. GatesTell(product, binding.stmt[j])
        BY <2>3 DEF FieldsTell
      <4> QED BY <2>1, <2>2, <4>1, GatesAreRight DEF Whom, Answers
    <3> QED BY <2>2, <3>1
  <2>5. \A j, l \in Mine : binding.stmt[j].gates = binding.stmt[l].gates
    BY <2>3 DEF FieldsTell, GatedAlike
  <2>6. name \in SaysPresent <=> \E j \in Mine : Present(binding.stmt[j].gates, server)
    BY DEF SaysPresent
  <2>7. name \in Padded <=> \E j \in Mine : built[j].pads
    BY <2>2 DEF Padded
  <2>8. Mine # {} /\ ((name \in SaysPresent) # (name \notin Padded))
    BY <2>2 DEF Astray
  <2> HIDE DEF Mine
  <2> QED BY <2>4, <2>5, <2>6, <2>7, <2>8
<1> QED BY <1>1, BuildAlways, PTL

\* From any release of a product to any later one, a statement that answered goes on
\* answering and no column that had a source loses it.
THEOREM UpgradeCorrect == ModelsSpec => []UpgradeLosesNothing
<1>1. BuildInv => UpgradeLosesNothing
  <2> SUFFICES ASSUME BuildInv, before.err = "nil", err # NotBuilt
               PROVE  err = "nil" /\ Padded \subseteq PaddedBefore
    BY DEF UpgradeLosesNothing
  <2>1. before # NotAsked
    <3>1. NotAsked.err = "not asked"
      BY DEF NotAsked
    <3> QED BY <3>1
  <2>2. /\ Whom /\ Reported(product, server) /\ Reported(product, before.server)
        /\ Newer(before.server, server) /\ Answers(binding, before.server)
        /\ DOMAIN before.built = DOMAIN binding.stmt
        /\ \A j \in DOMAIN binding.stmt : before.built[j] = TextOf(binding, before.server, j)
    BY <2>1, ServersReport DEF BuildInv, Earlier, Whom
  <2>3. \A j \in DOMAIN binding.stmt : Resolves(server, Choice(binding, j))
    BY <2>2, NewerResolves DEF Whom, Answers
  <2>4. err = "nil"
    <3> SUFFICES ASSUME err # "nil" PROVE FALSE
      OBVIOUS
    <3>1. place <= Len(binding.stmt) /\ ~Resolves(server, Choice(binding, place))
      BY DEF BuildInv, Ended
    <3>2. place \in DOMAIN binding.stmt
      <4>1. Len(binding.stmt) \in Nat /\ DOMAIN binding.stmt = 1..Len(binding.stmt)
        BY <2>2, BindingsType DEF Whom
      <4> QED BY <3>1, <4>1 DEF BuildInv, SoFar
    <3> QED BY <2>3, <3>1, <3>2
  <2>5. /\ DOMAIN built = DOMAIN binding.stmt
        /\ \A j \in DOMAIN binding.stmt : built[j] = TextOf(binding, server, j)
    BY <2>4, WholeIs DEF BuildInv, Ended
  <2>6. \A j \in DOMAIN binding.stmt : built[j].pads => before.built[j].pads
    <3>1. ASSUME NEW j \in DOMAIN binding.stmt, TextOf(binding, server, j).pads
          PROVE  TextOf(binding, before.server, j).pads
      BY <2>2, <3>1, PadsStayAway DEF Whom, Answers
    <3> QED BY <2>2, <2>5, <3>1
  <2>7. Padded \subseteq PaddedBefore
    BY <2>2, <2>5, <2>6 DEF Padded, PaddedBefore
  <2> QED BY <2>4, <2>7
<1> QED BY <1>1, BuildAlways, PTL

\* The releases that servers report go on until all that is due is reached.
ReleasesGoOn ==
    \A p \in Products : \A vs \in Servers(p) :
      \E ws \in Servers(p) :
        /\ ws = vs \/ Newer(vs, ws)
        /\ \A b \in Registered(p) : \A j \in DOMAIN b.stmt :
             \A n \in Meant(p, Choice(b, j)) : Due(p, Choice(b, j)[n]) => Reaches(ws, Choice(b, j)[n])

\* Then every statement that a product supports is answered on the release that a
\* server is upgraded to in the end.
LEMMA AnsweredInTheEnd ==
    ASSUME ReleasesGoOn, NEW p \in Products, NEW b \in Registered(p), Supports(p, b),
           NEW vs \in Servers(p)
    PROVE  \E ws \in Servers(p) : (ws = vs \/ Newer(vs, ws)) /\ Answers(b, ws)
<1>1. PICK ws \in Servers(p) :
         /\ ws = vs \/ Newer(vs, ws)
         /\ \A j \in DOMAIN b.stmt : \A n \in Meant(p, Choice(b, j)) :
              Due(p, Choice(b, j)[n]) => Reaches(ws, Choice(b, j)[n])
  BY DEF ReleasesGoOn
<1>2. EachPieceIsDue(p, b)
  BY ModelsAssumption, RegistryAssumption
<1>3. \A j \in DOMAIN b.stmt : \E n \in Meant(p, Choice(b, j)) : Reaches(ws, Choice(b, j)[n])
  BY <1>1, <1>2 DEF EachPieceIsDue, Choice
<1>4. Answers(b, ws)
  BY <1>3, ResolvesWhere, ServersReport DEF Answers
<1> QED BY <1>1, <1>4

\* A piece that is refused is no alternative's of the product, or its release is too
\* old for all that are.
LEMMA WhyIs ==
    ASSUME NEW p \in Products, NEW b \in Registered(p), NEW j \in DOMAIN b.stmt,
           NEW vs, Reported(p, vs)
    PROVE  /\ WhyNot(vs, Choice(b, j)) # "ErrAmbiguousFragment"
           /\ WhyNot(vs, Choice(b, j)) = "ErrNotSupported" => Meant(p, Choice(b, j)) = {}
           /\ WhyNot(vs, Choice(b, j)) = "ErrVersionTooOld" => Supports(p, b)
<1>1. Choice(b, j) \in Seq(FragmentType)
  BY BindingsType
<1>2. ~Rules(vs, Choice(b, j))!TwoProducts
  BY NeverAmbiguous
<1>3. Rules(vs, Choice(b, j))!WrongProduct <=> Choice(b, j) # <<>> /\ Meant(p, Choice(b, j)) = {}
  BY <1>1, TextsType, MainIsReported
  DEF Rules!WrongProduct, Rules!Named, Meant, Reported
<1>4. AllOrNothing(p, b)
  BY ModelsAssumption, RegistryAssumption
<1>5. ~Supports(p, b) => Choice(b, j) # <<>> /\ Meant(p, Choice(b, j)) = {}
  BY <1>4 DEF AllOrNothing, Choice
<1> QED BY <1>2, <1>3, <1>5 DEF WhyNot

\* Whatever is refused, the reason is right: ErrNotSupported where no release of the
\* product answers and ErrVersionTooOld where a later one does, as long as the product
\* goes on to release what its pieces are gated on.
THEOREM RefusalCorrect ==
    ASSUME ReleasesGoOn
    PROVE  ModelsSpec => []RefusalTells
<1>1. BuildInv => RefusalTells
  <2> SUFFICES ASSUME BuildInv, err \notin {NotBuilt, "nil"} PROVE RefusalTells
    BY DEF RefusalTells, NotBuilt
  <2>1. Whom /\ Reported(product, server)
    BY ServersReport DEF BuildInv, Whom
  <2>2. place \in DOMAIN binding.stmt /\ ~Resolves(server, Choice(binding, place))
    <3>1. Len(binding.stmt) \in Nat /\ DOMAIN binding.stmt = 1..Len(binding.stmt)
      BY <2>1, BindingsType DEF Whom
    <3> QED BY <3>1 DEF BuildInv, SoFar, Ended
  <2>3. err = WhyNot(server, Choice(binding, place))
    BY DEF BuildInv, Ended
  <2>4. /\ err # "ErrAmbiguousFragment"
        /\ err = "ErrNotSupported" => Meant(product, Choice(binding, place)) = {}
        /\ err = "ErrVersionTooOld" => Supports(product, binding)
    BY <2>1, <2>2, <2>3, WhyIs DEF Whom
  <2>5. ASSUME err = "ErrVersionTooOld"
        PROVE  \E vs \in Servers(product) : Newer(server, vs) /\ Answered(vs)
    <3>1. PICK ws \in Servers(product) :
             (ws = server \/ Newer(server, ws)) /\ Answers(binding, ws)
      BY <2>1, <2>4, <2>5, AnsweredInTheEnd DEF Whom
    <3>2. Newer(server, ws)
      BY <2>2, <3>1 DEF Answers
    <3> QED BY <3>1, <3>2 DEF Answered, Answers, Choice
  <2>6. ASSUME err = "ErrNotSupported", NEW vs \in Servers(product)
        PROVE  ~Answered(vs)
    <3>1. Reported(product, vs)
      BY <2>1, ServersReport DEF Whom
    <3>2. ~Resolves(vs, Choice(binding, place))
      BY <2>1, <2>2, <2>4, <2>6, <3>1, ResolvesWhere DEF Whom
    <3> QED BY <2>2, <3>2 DEF Answered, Choice
  <2> QED BY <2>4, <2>5, <2>6 DEF RefusalTells
<1> QED BY <1>1, BuildAlways, PTL

---------------------------------------------------------------------------
(* What Resolve compares are versions: the order of VersionOrder, proved     *)
(* here for versions of every length.                                        *)

\* What is within one list is within the bound on both.
LEMMA SumBound ==
    ASSUME NEW x \in Nat, NEW y \in Nat
    PROVE  /\ 0..(x + y) \subseteq Nat
           /\ \A n \in Nat : n <= x \/ n <= y => n \in 0..(x + y)
  OBVIOUS

\* A component, there or padded, is a uint32.
LEMMA PartType ==
    ASSUME MaxPart \in Nat, MaxInt \in Nat \ {0},
           NEW a \in Version, NEW k \in Nat
    PROVE  part(a, k) \in 0..MaxPart
  BY DEF Version, part

\* A component past both lists is zero in both.
LEMMA PartPadded ==
    ASSUME NEW a \in Version, NEW k \in Nat, k >= Len(a.parts)
    PROVE  part(a, k) = 0
  BY DEF Version, part

\* The version that is smaller in the first component they differ in is older,
\* and the other is not.
LEMMA FirstDecides ==
    ASSUME MaxPart \in Nat, MaxInt \in Nat \ {0},
           NEW a \in Version, NEW b \in Version, ~a.unknown, ~b.unknown,
           NEW k \in 0..(Len(a.parts) + Len(b.parts)),
           \A j \in 0..(k - 1) : part(a, j) = part(b, j),
           part(a, k) < part(b, k)
    PROVE  Older(a, b) /\ ~Older(b, a)
<1> USE DEF Version
<1>1. Len(a.parts) \in Nat /\ Len(b.parts) \in Nat
  OBVIOUS
<1>2. Older(a, b)
  BY DEF Older
<1>3. ASSUME NEW m \in 0..(Len(b.parts) + Len(a.parts)),
             part(b, m) < part(a, m),
             \A j \in 0..(m - 1) : part(b, j) = part(a, j)
      PROVE  FALSE
  <2>1. part(a, k) \in Int /\ part(b, k) \in Int /\ part(a, m) \in Int /\ part(b, m) \in Int
    BY PartType, <1>1
  <2>2. CASE m < k
    BY <1>3, <2>1, <2>2, <1>1
  <2>3. CASE k < m
    BY <1>3, <2>1, <2>3, <1>1
  <2>4. CASE k = m
    BY <1>3, <2>1, <2>4
  <2> QED BY <2>2, <2>3, <2>4, <1>1
<1> QED BY <1>2, <1>3 DEF Older

\* Versions that agree in every component are neither older than the other.
LEMMA NoneDecides ==
    ASSUME MaxPart \in Nat, MaxInt \in Nat \ {0},
           NEW a \in Version, NEW b \in Version, ~a.unknown, ~b.unknown,
           \A j \in Nat : part(a, j) = part(b, j)
    PROVE  ~Older(a, b) /\ ~Older(b, a)
<1>1. Len(a.parts) \in Nat /\ Len(b.parts) \in Nat
  BY DEF Version
<1>2. \A j \in Nat : part(a, j) \in Int /\ part(b, j) \in Int
  BY PartType
<1>3. \A j \in Nat : ~(part(a, j) < part(b, j)) /\ ~(part(b, j) < part(a, j))
  BY <1>2
<1>4. 0..(Len(a.parts) + Len(b.parts)) \subseteq Nat /\ 0..(Len(b.parts) + Len(a.parts)) \subseteq Nat
  BY <1>1, SumBound
<1> QED BY <1>3, <1>4 DEF Older

\* Where an int holds every component, nothing wraps.
LEMMA DifferenceExact ==
    ASSUME MaxPart \in Nat, MaxInt \in Nat \ {0}, MaxPart <= MaxInt,
           NEW a \in Version, NEW b \in Version, NEW k \in Nat
    PROVE  /\ Difference(a, b, k) = part(a, k) - part(b, k)
           /\ Difference(a, b, k) \in -(MaxInt + 1)..MaxInt
<1>1. part(a, k) \in 0..MaxPart /\ part(b, k) \in 0..MaxPart
  BY PartType
<1>2. AsInt(part(a, k)) = part(a, k) /\ AsInt(part(b, k)) = part(b, k)
  BY <1>1 DEF AsInt
<1> QED BY <1>1, <1>2 DEF Difference, AsInt

---------------------------------------------------------------------------

\* Every component the loop has passed is the same in both.
Passed == \A j \in 0..(at - 1) : part(receiver, j) = part(argument, j)

CompareInv == CompareTypeOK /\ Passed /\ SaysTheOrder

\* Compare begins with two versions and nothing passed (Version.Compare).
LEMMA CompareBegins == CompareInit => CompareInv
<1> SUFFICES ASSUME MaxPart \in Nat, MaxInt \in Nat \ {0}, Versions \subseteq Version, CompareInit PROVE CompareInv
  BY VersionAssumption
<1>1. receiver \in Version /\ argument \in Version
  BY DEF CompareInit
<1>2. Components \in Nat
  BY <1>1 DEF Components, Version
<1>3. 0 \in 0..Components /\ 0 \in -(MaxInt + 1)..MaxInt
  BY <1>2
<1>4. CompareTypeOK
  BY <1>3 DEF CompareInit, CompareTypeOK
<1>5. Passed
  BY DEF CompareInit, Passed
<1>6. SaysTheOrder
  BY DEF CompareInit, SaysTheOrder
<1> QED BY <1>4, <1>5, <1>6 DEF CompareInv

\* Each turn of Compare's loop keeps what it has found, and each return says the
\* order (Version.Compare).
LEMMA CompareSteps == MaxPart <= MaxInt /\ CompareInv /\ [CompareNext]_compareVars => CompareInv'
<1> SUFFICES ASSUME MaxPart \in Nat, MaxInt \in Nat \ {0}, Versions \subseteq Version, MaxPart <= MaxInt,
                    CompareInv, [CompareNext]_compareVars
             PROVE  CompareInv'
  BY VersionAssumption
<1>1. /\ receiver \in Version /\ argument \in Version
      /\ receiver.unknown \in BOOLEAN /\ argument.unknown \in BOOLEAN
      /\ Len(receiver.parts) \in Nat /\ Len(argument.parts) \in Nat
  BY DEF CompareInv, CompareTypeOK, Version
<1>2. Components \in Nat /\ at \in Nat /\ at <= Components
  BY <1>1 DEF Components, CompareInv, CompareTypeOK
<1>3. at \in 0..(Len(receiver.parts) + Len(argument.parts)) /\ at \in 0..(Len(argument.parts) + Len(receiver.parts))
  <2>1. at <= Len(receiver.parts) \/ at <= Len(argument.parts)
    BY <1>2 DEF Components
  <2> QED BY <2>1, <1>1, <1>2, SumBound
<1>4. ASSUME NEW n \in -(MaxInt + 1)..MaxInt, Returns(n),
             n < 0 <=> Older(receiver, argument), n > 0 <=> Older(argument, receiver)
      PROVE  CompareInv'
  <2>1. receiver' = receiver /\ argument' = argument /\ at' = at /\ sign' = n /\ returned' = TRUE
    BY <1>4 DEF Returns
  <2>2. Components' = Components
    BY <2>1 DEF Components
  <2>3. CompareTypeOK'
    BY <2>1, <2>2, <1>4 DEF CompareInv, CompareTypeOK
  <2>4. Passed'
    BY <2>1 DEF CompareInv, Passed, part
  <2>5. Older(receiver, argument)' = Older(receiver, argument) /\ Older(argument, receiver)' = Older(argument, receiver)
    BY <2>1 DEF Older, part
  <2> QED BY <2>1, <2>3, <2>4, <2>5, <1>4 DEF CompareInv, SaysTheOrder
<1>5. CASE Unknowns
  <2>1. CASE receiver.unknown /\ argument.unknown /\ Returns(0)
    BY <1>4, <2>1 DEF Older
  <2>2. CASE receiver.unknown /\ ~argument.unknown /\ Returns(1)
    BY <1>4, <2>2 DEF Older
  <2>3. CASE ~receiver.unknown /\ argument.unknown /\ Returns(-1)
    BY <1>4, <2>3 DEF Older
  <2> QED BY <1>5, <2>1, <2>2, <2>3 DEF Unknowns
<1>6. CASE Differ
  <2>1. ~receiver.unknown /\ ~argument.unknown /\ at < Components /\ part(receiver, at) # part(argument, at)
          /\ Returns(Difference(receiver, argument, at))
    BY <1>6 DEF Differ, Looping
  <2>2. part(receiver, at) \in Int /\ part(argument, at) \in Int
    <3>1. part(receiver, at) \in 0..MaxPart /\ part(argument, at) \in 0..MaxPart
      BY PartType, <1>1, <1>2
    <3> QED BY <3>1
  <2>3. \A j \in 0..(at - 1) : part(receiver, j) = part(argument, j)
    BY DEF CompareInv, Passed
  <2>4. /\ Difference(receiver, argument, at) = part(receiver, at) - part(argument, at)
        /\ Difference(receiver, argument, at) \in -(MaxInt + 1)..MaxInt
    BY DifferenceExact, <1>1, <1>2
  <2>5. CASE part(receiver, at) < part(argument, at)
    <3>1. Older(receiver, argument) /\ ~Older(argument, receiver)
      <4>1. at \in 0..(Len(receiver.parts) + Len(argument.parts))
        BY <1>3
      <4>2. \A j \in 0..(at - 1) : part(receiver, j) = part(argument, j)
        BY <2>3
      <4> QED BY FirstDecides, <1>1, <2>1, <2>5, <4>1, <4>2
    <3> QED BY <1>4, <2>1, <2>2, <2>4, <2>5, <3>1
  <2>6. CASE part(argument, at) < part(receiver, at)
    <3>1. Older(argument, receiver) /\ ~Older(receiver, argument)
      <4>1. at \in 0..(Len(argument.parts) + Len(receiver.parts))
        BY <1>3
      <4>2. \A j \in 0..(at - 1) : part(argument, j) = part(receiver, j)
        BY <2>3
      <4> QED BY FirstDecides, <1>1, <2>1, <2>6, <4>1, <4>2
    <3> QED BY <1>4, <2>1, <2>2, <2>4, <2>6, <3>1
  <2> QED BY <2>1, <2>2, <2>5, <2>6
<1>7. CASE Equal
  <2>1. /\ at < Components /\ part(receiver, at) = part(argument, at) /\ at' = at + 1
        /\ receiver' = receiver /\ argument' = argument /\ sign' = sign /\ returned' = returned /\ ~returned
    BY <1>7 DEF Equal, Looping
  <2>2. Components' = Components
    BY <2>1 DEF Components
  <2>3. CompareTypeOK'
    BY <2>1, <2>2, <1>2 DEF CompareInv, CompareTypeOK
  <2>4. Passed'
    <3>1. \A j \in 0..at : part(receiver, j) = part(argument, j)
      BY <2>1, <1>2 DEF CompareInv, Passed
    <3> QED BY <3>1, <2>1, <1>2 DEF Passed, part
  <2> QED BY <2>1, <2>3, <2>4 DEF CompareInv, SaysTheOrder
<1>8. CASE Same
  <2>1. ~receiver.unknown /\ ~argument.unknown /\ at = Components /\ Returns(0)
    BY <1>8 DEF Same, Looping
  <2>2. ASSUME NEW j \in Nat PROVE part(receiver, j) = part(argument, j)
    <3>1. CASE j < Components
      BY <3>1, <2>1, <1>2 DEF CompareInv, Passed
    <3>2. CASE j >= Components
      BY <3>2, PartPadded, <1>1 DEF Components
    <3> QED BY <3>1, <3>2, <1>2
  <2>3. ~Older(receiver, argument) /\ ~Older(argument, receiver)
    BY NoneDecides, <1>1, <2>1, <2>2
  <2> QED BY <1>4, <2>1, <2>3
<1>9. CASE UNCHANGED compareVars
  BY <1>9 DEF compareVars, CompareInv, CompareTypeOK, Components, Passed, SaysTheOrder, Older, part
<1> QED BY <1>5, <1>6, <1>7, <1>8, <1>9 DEF CompareNext

\* Compare says the order of any two versions, of any length, on a build whose
\* int holds every component (the comment on Version.Compare).
THEOREM CompareCorrect ==
    ASSUME MaxPart <= MaxInt
    PROVE  CompareSpec => []SaysTheOrder
<1>1. CompareInv /\ [CompareNext]_compareVars => CompareInv'
  BY CompareSteps
<1>2. CompareInv => SaysTheOrder
  BY DEF CompareInv
<1> QED BY CompareBegins, <1>1, <1>2, PTL DEF CompareSpec

\* The loop stays within the longer list, and the answer is an int of the build.
THEOREM CompareTypeCorrect ==
    ASSUME MaxPart <= MaxInt
    PROVE  CompareSpec => []CompareTypeOK
<1>1. CompareInv /\ [CompareNext]_compareVars => CompareInv'
  BY CompareSteps
<1>2. CompareInv => CompareTypeOK
  BY DEF CompareInv
<1> QED BY CompareBegins, <1>1, <1>2, PTL DEF CompareSpec

\* What Compare says is an order that has a newest: a version is not older than
\* itself, and what is older than an older one is older (Choice.Resolve takes the
\* newest of the alternatives that are met, whatever order it reads them in).
THEOREM OlderIsAnOrder ==
    ASSUME MaxPart \in Nat, MaxInt \in Nat \ {0},
           NEW a \in Version, NEW b \in Version, NEW c \in Version
    PROVE  /\ ~Older(a, a)
           /\ Older(a, b) /\ Older(b, c) => Older(a, c)
<1>1. /\ Len(a.parts) \in Nat /\ Len(b.parts) \in Nat /\ Len(c.parts) \in Nat
      /\ a.unknown \in BOOLEAN /\ b.unknown \in BOOLEAN /\ c.unknown \in BOOLEAN
  BY DEF Version
<1>2. \A k \in Nat : part(a, k) \in Int /\ part(b, k) \in Int /\ part(c, k) \in Int
  BY PartType
<1>3. ~Older(a, a)
  BY <1>1, <1>2 DEF Older
<1>4. ASSUME Older(a, b), Older(b, c) PROVE Older(a, c)
  <2>1. CASE b.unknown
    BY <1>4, <2>1 DEF Older
  <2>2. CASE ~b.unknown /\ c.unknown
    BY <1>4, <2>2 DEF Older
  <2>3. CASE ~b.unknown /\ ~c.unknown
    <3>1. ~a.unknown
      BY <1>4 DEF Older
    <3>2. PICK k \in 0..(Len(a.parts) + Len(b.parts)) :
             /\ part(a, k) < part(b, k)
             /\ \A j \in 0..(k - 1) : part(a, j) = part(b, j)
      BY <1>4, <2>3 DEF Older
    <3>3. PICK m \in 0..(Len(b.parts) + Len(c.parts)) :
             /\ part(b, m) < part(c, m)
             /\ \A j \in 0..(m - 1) : part(b, j) = part(c, j)
      BY <1>4, <2>3 DEF Older
    <3>4. ASSUME NEW n \in Nat, n <= k, n <= m, n = k \/ n = m
          PROVE  Older(a, c)
      <4>1. \A j \in 0..(n - 1) : part(a, j) = part(b, j) /\ part(b, j) = part(c, j)
        BY <3>2, <3>3, <3>4, <1>1
      <4>2. /\ k \in Nat /\ m \in Nat
            /\ part(a, n) \in Int /\ part(b, n) \in Int /\ part(c, n) \in Int
        BY <1>1, <1>2
      <4>3. part(a, n) < part(c, n)
        <5>1. CASE n = k /\ n < m
          <6>1. part(b, n) = part(c, n)
            BY <5>1, <3>3, <4>2
          <6> QED BY <5>1, <6>1, <3>2
        <5>2. CASE n = m /\ n < k
          <6>1. part(a, n) = part(b, n)
            BY <5>2, <3>2, <4>2
          <6> QED BY <5>2, <6>1, <3>3
        <5>3. CASE n = k /\ n = m
          <6>1. part(a, n) < part(b, n) /\ part(b, n) < part(c, n)
            BY <5>3, <3>2, <3>3
          <6> QED BY <6>1, <4>2
        <5> QED BY <5>1, <5>2, <5>3, <3>4, <4>2
      <4>4. n < Len(c.parts)
        <5>1. SUFFICES ASSUME n >= Len(c.parts) PROVE FALSE
          BY <1>1
        <5>2. part(c, n) = 0
          BY PartPadded, <5>1
        <5>3. part(a, n) \in 0..MaxPart
          BY PartType
        <5> QED BY <5>2, <5>3, <4>3
      <4>5. n \in 0..(Len(a.parts) + Len(c.parts))
        <5>1. n <= Len(c.parts)
          BY <4>4, <1>1
        <5> QED BY <5>1, <1>1, SumBound
      <4>6. \A j \in 0..(n - 1) : part(a, j) = part(c, j)
        BY <4>1
      <4> QED BY <4>3, <4>5, <4>6, <3>1, <2>3 DEF Older
    <3>5. k \in Nat /\ m \in Nat
      BY <1>1
    <3>6. CASE k <= m
      BY <3>4, <3>5, <3>6
    <3>7. CASE m <= k
      BY <3>4, <3>5, <3>7
    <3> QED BY <3>5, <3>6, <3>7
  <2> QED BY <2>1, <2>2, <2>3, <1>1
<1> QED BY <1>3, <1>4

\* A version that is in no order with two others puts them in none: whenever one
\* version is older than another, a third is newer than the one or older than the
\* other.  With OlderIsAnOrder this is what lets Resolve stand for a version by
\* its rank, a number, among the versions in play.
THEOREM OlderHasRanks ==
    ASSUME MaxPart \in Nat, MaxInt \in Nat \ {0},
           NEW a \in Version, NEW b \in Version, NEW c \in Version,
           Older(a, c)
    PROVE  Older(a, b) \/ Older(b, c)
<1>1. /\ Len(a.parts) \in Nat /\ Len(b.parts) \in Nat /\ Len(c.parts) \in Nat
      /\ a.unknown \in BOOLEAN /\ b.unknown \in BOOLEAN /\ c.unknown \in BOOLEAN
  BY DEF Version
<1>2. CASE b.unknown \/ c.unknown
  BY <1>2 DEF Older
<1>3. CASE ~b.unknown /\ ~c.unknown
  <2>1. ~a.unknown
    BY DEF Older
  <2>2. PICK k \in 0..(Len(a.parts) + Len(c.parts)) :
           /\ part(a, k) < part(c, k)
           /\ \A j \in 0..(k - 1) : part(a, j) = part(c, j)
    BY <1>3 DEF Older
  <2>3. \A j \in Nat : part(a, j) \in 0..MaxPart /\ part(b, j) \in 0..MaxPart
                         /\ part(c, j) \in 0..MaxPart
    BY PartType
  <2>4. k \in Nat
    BY <1>1
  <2>5. PICK n \in Nat :
           /\ n <= k /\ ~(part(a, n) = part(b, n) /\ part(b, n) = part(c, n))
           /\ \A j \in Nat : j < n => part(a, j) = part(b, j) /\ part(b, j) = part(c, j)
    <3> DEFINE apart == { j \in 0..k : ~(part(a, j) = part(b, j)
                                           /\ part(b, j) = part(c, j)) }
    <3>1. k \in apart
      <4>1. ~(part(a, k) = part(b, k) /\ part(b, k) = part(c, k))
        BY <2>2, <2>3, <2>4
      <4> QED BY <4>1, <2>4
    <3>2. apart \subseteq Nat /\ apart # {}
      BY <3>1, <2>4
    <3>3. PICK n \in apart : \A j \in apart : n <= j
      <4> HIDE DEF apart
      <4> QED BY <3>2, LeastIn
    <3> QED BY <3>3, <2>4
  <2>6. n \in Nat /\ n <= k
    BY <2>5
  <2>7. \A j \in 0..(n - 1) : part(a, j) = part(b, j) /\ part(b, j) = part(c, j)
    BY <2>5
  <2>8. part(a, n) <= part(c, n)
    <3>1. CASE n = k
      BY <3>1, <2>2, <2>3, <2>4
    <3>2. CASE n # k
      <4>1. n \in 0..(k - 1)
        BY <3>2, <2>4, <2>6
      <4>2. part(a, n) = part(c, n) /\ part(a, n) \in 0..MaxPart
        BY <4>1, <2>2, <2>3, <2>6
      <4> QED BY <4>2
    <3> QED BY <3>1, <3>2
  <2>9. part(a, n) < part(b, n) \/ part(b, n) < part(c, n)
    <3>1. /\ part(a, n) \in Int /\ part(b, n) \in Int /\ part(c, n) \in Int
      BY <2>3, <2>6
    <3> QED BY <2>5, <2>8, <3>1
  <2>10. CASE part(a, n) < part(b, n)
    <3>1. n < Len(b.parts)
      <4> SUFFICES ASSUME n >= Len(b.parts) PROVE FALSE
        BY <2>6, <1>1
      <4>1. part(b, n) # 0
        <5>1. part(a, n) \in Nat /\ part(b, n) \in Nat
          BY <2>3, <2>6
        <5> QED BY <5>1, <2>10
      <4>2. part(b, n) = 0
        BY PartPadded, <2>6
      <4> QED BY <4>1, <4>2
    <3>2. n \in 0..(Len(a.parts) + Len(b.parts))
      <4>1. n <= Len(b.parts)
        BY <3>1, <2>6, <1>1
      <4> QED BY <4>1, <2>6, <1>1, SumBound
    <3> QED BY <3>2, <2>1, <1>3, <2>7, <2>10 DEF Older
  <2>11. CASE part(b, n) < part(c, n)
    <3>1. n < Len(c.parts)
      <4> SUFFICES ASSUME n >= Len(c.parts) PROVE FALSE
        BY <2>6, <1>1
      <4>1. part(c, n) # 0
        <5>1. part(b, n) \in Nat /\ part(c, n) \in Nat
          BY <2>3, <2>6
        <5> QED BY <5>1, <2>11
      <4>2. part(c, n) = 0
        BY PartPadded, <2>6
      <4> QED BY <4>1, <4>2
    <3>2. n \in 0..(Len(b.parts) + Len(c.parts))
      <4>1. n <= Len(c.parts)
        BY <3>1, <2>6, <1>1
      <4> QED BY <4>1, <2>6, <1>1, SumBound
    <3> QED BY <3>2, <1>3, <2>7, <2>11 DEF Older
  <2> QED BY <2>9, <2>10, <2>11
<1> QED BY <1>2, <1>3

=============================================================================
