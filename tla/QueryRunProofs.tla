--------------------------- MODULE QueryRunProofs ----------------------------
(***************************************************************************)
(* The connections of the iterators, for every number of callers, whatever *)
(* they range over and however deep, and every size of the pool.           *)
(***************************************************************************)
EXTENDS QueryRun, TLAPS, SequenceTheorems, FiniteSetTheorems

Stacks == [Callers -> Seq(Frame)]

\* The iterators of a stack whose rows are open.
OpenOf(s) == UNION { { <<c, k>> : k \in { i \in 1..Len(s[c]) : s[c][i].conn } } : c \in Callers }

LEMMA OpenElim ==
    ASSUME NEW s, NEW x, x \in OpenOf(s)
    PROVE  /\ x[1] \in Callers /\ x[2] \in 1..Len(s[x[1]]) /\ s[x[1]][x[2]].conn
           /\ x = <<x[1], x[2]>>
<1>1. PICK c \in Callers :
        x \in { <<c, k>> : k \in { i \in 1..Len(s[c]) : s[c][i].conn } }
  BY Zenon DEF OpenOf
<1>2. PICK k \in { i \in 1..Len(s[c]) : s[c][i].conn } : x = <<c, k>>
  BY <1>1, Zenon
<1>3. x[1] = c /\ x[2] = k
  BY <1>2
<1> QED BY <1>2, <1>3, Zenon

LEMMA OpenIntro ==
    ASSUME NEW s, NEW c \in Callers, NEW k \in 1..Len(s[c]), s[c][k].conn
    PROVE  <<c, k>> \in OpenOf(s)
<1>1. k \in { i \in 1..Len(s[c]) : s[c][i].conn }
  BY Zenon
<1>2. <<c, k>> \in { <<c, j>> : j \in { i \in 1..Len(s[c]) : s[c][i].conn } }
  BY <1>1, Zenon
<1> QED BY <1>2, Zenon DEF OpenOf

\* One frame of a stack is replaced.
Swapped(r, s, c, k, f) ==
    /\ r \in Stacks
    /\ \A d \in Callers : Len(r[d]) = Len(s[d])
    /\ \A d \in Callers : \A i \in 1..Len(s[d]) :
          r[d][i] = IF d = c /\ i = k THEN f ELSE s[d][i]

LEMMA Replaced ==
    ASSUME NEW s \in Stacks, NEW c \in Callers, NEW k \in 1..Len(s[c]), NEW f \in Frame
    PROVE  Swapped([s EXCEPT ![c][k] = f], s, c, k, f)
<1> DEFINE q == [s[c] EXCEPT ![k] = f]
           r == [s EXCEPT ![c] = q]
<1>1. s[c] \in Seq(Frame)
  BY DEF Stacks
<1>2. q \in Seq(Frame) /\ Len(q) = Len(s[c])
      /\ \A j \in 1..Len(s[c]) : q[j] = IF j = k THEN f ELSE s[c][j]
  BY <1>1, ExceptSeq
<1>3. [s EXCEPT ![c][k] = f] = r
  OBVIOUS
<1> HIDE DEF q
<1>4. r \in Stacks /\ r[c] = q /\ \A d \in Callers : d # c => r[d] = s[d]
  BY <1>2 DEF Stacks
<1> HIDE DEF r
<1>5. Swapped(r, s, c, k, f)
  BY <1>2, <1>4 DEF Swapped
<1> QED BY <1>3, <1>5

\* And the innermost one is dropped.
Cut(r, s, c) ==
    /\ r \in Stacks
    /\ Len(r[c]) = Len(s[c]) - 1
    /\ \A d \in Callers : d # c => r[d] = s[d]
    /\ \A i \in 1..(Len(s[c]) - 1) : r[c][i] = s[c][i]

LEMMA Popped ==
    ASSUME NEW s \in Stacks, NEW c \in Callers, Len(s[c]) > 0
    PROVE  Cut([s EXCEPT ![c] = SubSeq(@, 1, Len(s[c]) - 1)], s, c)
<1> DEFINE n == Len(s[c]) - 1
           q == SubSeq(s[c], 1, n)
           r == [s EXCEPT ![c] = q]
<1>1. s[c] \in Seq(Frame) /\ Len(s[c]) \in Nat /\ n \in Nat
  BY DEF Stacks
<1>2. \A i \in 1..n : s[c][i] \in Frame
  BY <1>1
<1>3. q \in Seq(Frame) /\ Len(q) = n /\ \A i \in 1..n : q[i] = s[c][i]
  <2>1. 1 \in Int /\ n \in Int /\ n - 1 + 1 = n /\ (1 <= n \/ n = 0)
    <3> HIDE DEF n, q
    <3> QED BY <1>1
  <2>2. /\ q \in Seq(Frame) /\ Len(q) = IF 1 <= n THEN n - 1 + 1 ELSE 0
        /\ \A i \in 1..(n - 1 + 1) : q[i] = s[c][1 + i - 1]
    BY <1>2, <2>1, SubSeqProperties
  <2> HIDE DEF q
  <2> QED BY <1>1, <2>1, <2>2
<1> HIDE DEF q
<1>4. r \in Stacks /\ r[c] = q /\ \A d \in Callers : d # c => r[d] = s[d]
  BY <1>3 DEF Stacks
<1> HIDE DEF r
<1>5. Cut(r, s, c)
  BY <1>3, <1>4 DEF Cut
<1> QED BY <1>5 DEF r, q

\* What a replaced frame leaves open.
LEMMA OpenReplaced ==
    ASSUME NEW s \in Stacks, NEW c \in Callers, NEW k \in 1..Len(s[c]), NEW f \in Frame,
           NEW r, Swapped(r, s, c, k, f)
    PROVE  OpenOf(r) = IF f.conn THEN OpenOf(s) \cup {<<c, k>>} ELSE OpenOf(s) \ {<<c, k>>}
<1>1. /\ \A d \in Callers : Len(r[d]) = Len(s[d])
      /\ \A d \in Callers : \A i \in 1..Len(s[d]) :
           r[d][i] = IF d = c /\ i = k THEN f ELSE s[d][i]
  BY DEF Swapped
<1>2. ASSUME NEW d \in Callers, NEW i \in 1..Len(s[d])
      PROVE  r[d][i].conn <=> IF <<d, i>> = <<c, k>> THEN f.conn ELSE s[d][i].conn
  BY <1>1
<1>3. ASSUME NEW x, x \in OpenOf(r)
      PROVE  x \in IF f.conn THEN OpenOf(s) \cup {<<c, k>>} ELSE OpenOf(s) \ {<<c, k>>}
  <2> DEFINE d == x[1]
             i == x[2]
  <2>1. d \in Callers /\ i \in 1..Len(r[d]) /\ r[d][i].conn /\ x = <<d, i>>
    BY <1>3, OpenElim
  <2> HIDE DEF d, i
  <2>2. i \in 1..Len(s[d])
    BY <1>1, <2>1
  <2>3. CASE x = <<c, k>>
    BY <1>2, <2>1, <2>2, <2>3
  <2>4. CASE x # <<c, k>>
    <3>1. s[d][i].conn
      BY <1>2, <2>1, <2>2, <2>4
    <3>2. x \in OpenOf(s)
      BY <2>1, <2>2, <3>1, OpenIntro
    <3> QED BY <2>4, <3>2
  <2> QED BY <2>3, <2>4
<1>4. ASSUME NEW x, x \in IF f.conn THEN OpenOf(s) \cup {<<c, k>>} ELSE OpenOf(s) \ {<<c, k>>}
      PROVE  x \in OpenOf(r)
  <2>1. CASE x = <<c, k>>
    <3>1. f.conn
      BY <1>4, <2>1
    <3>2. r[c][k].conn /\ k \in 1..Len(r[c])
      BY <1>1, <1>2, <3>1
    <3> QED BY <2>1, <3>2, OpenIntro
  <2>2. CASE x # <<c, k>>
    <3> DEFINE d == x[1]
               i == x[2]
    <3>1. x \in OpenOf(s)
      BY <1>4, <2>2
    <3>2. d \in Callers /\ i \in 1..Len(s[d]) /\ s[d][i].conn /\ x = <<d, i>>
      BY <3>1, OpenElim
    <3> HIDE DEF d, i
    <3>3. r[d][i].conn /\ i \in 1..Len(r[d])
      BY <1>1, <1>2, <2>2, <3>2
    <3> QED BY <3>2, <3>3, OpenIntro
  <2> QED BY <2>1, <2>2
<1> QED BY <1>3, <1>4, Zenon

LEMMA OpenPopped ==
    ASSUME NEW s \in Stacks, NEW c \in Callers, Len(s[c]) > 0,
           NEW r, Cut(r, s, c)
    PROVE  OpenOf(r) = OpenOf(s) \ {<<c, Len(s[c])>>}
<1>0. Len(s[c]) \in Nat
  BY DEF Stacks
<1>1. /\ Len(r[c]) = Len(s[c]) - 1
      /\ \A d \in Callers : d # c => r[d] = s[d]
      /\ \A i \in 1..(Len(s[c]) - 1) : r[c][i] = s[c][i]
  BY DEF Cut
<1>2. ASSUME NEW x, x \in OpenOf(r) PROVE x \in OpenOf(s) \ {<<c, Len(s[c])>>}
  <2> DEFINE d == x[1]
             i == x[2]
  <2>1. d \in Callers /\ i \in 1..Len(r[d]) /\ r[d][i].conn /\ x = <<d, i>>
    BY <1>2, OpenElim
  <2> HIDE DEF d, i
  <2>2. i \in 1..Len(s[d]) /\ s[d][i].conn /\ ~(d = c /\ i = Len(s[c]))
    BY <1>0, <1>1, <2>1
  <2> QED BY <2>1, <2>2, OpenIntro
<1>3. ASSUME NEW x, x \in OpenOf(s), x # <<c, Len(s[c])>> PROVE x \in OpenOf(r)
  <2> DEFINE d == x[1]
             i == x[2]
  <2>1. d \in Callers /\ i \in 1..Len(s[d]) /\ s[d][i].conn /\ x = <<d, i>>
    BY <1>3, OpenElim
  <2> HIDE DEF d, i
  <2>2. i \in 1..Len(r[d]) /\ r[d][i].conn
    <3>1. CASE d # c
      BY <1>1, <2>1, <3>1
    <3>2. CASE d = c
      <4>1. i # Len(s[c])
        BY <1>3, <2>1, <3>2
      <4>2. i \in 1..(Len(s[c]) - 1)
        BY <1>0, <2>1, <3>2, <4>1
      <4> QED BY <1>1, <2>1, <3>2, <4>2
    <3> QED BY <3>1, <3>2
  <2> QED BY <2>1, <2>2, OpenIntro
<1> QED BY <1>2, <1>3, Zenon

---------------------------------------------------------------------------
(* The invariant. *)

\* A walk has given its connection back when it yields, and asks for one again
\* when it goes on.
HoldsNothing(f) ==
    f.kind = "walk" /\ f.at \in {"build", "query", "body"} => ~f.conn

WalksHoldNothing == \A c \in Callers : \A k \in 1..Depth(c) : HoldsNothing(stack[c][k])

Counted == IsFiniteSet(OpenOf(stack)) /\ free + Cardinality(OpenOf(stack)) = PoolSize

IInv == TypeOK /\ WalksHoldNothing /\ Counted

LEMMA TopIn ==
    ASSUME TypeOK, NEW c \in Callers, Depth(c) > 0
    PROVE  /\ stack \in Stacks /\ Depth(c) \in Nat /\ Depth(c) \in 1..Len(stack[c])
           /\ Top(c) \in Frame /\ free \in Nat /\ PoolSize \in Nat
<1>1. stack[c] \in Seq(Frame) /\ stack \in Stacks /\ free \in Nat /\ PoolSize \in Nat
  BY QueryRunAssumption DEF TypeOK, Stacks
<1>2. Depth(c) \in Nat /\ Depth(c) \in 1..Len(stack[c])
  BY <1>1 DEF Depth
<1> QED BY <1>1, <1>2 DEF Top

\* The number of connections that are open after one was taken or given back.
LEMMA Counting ==
    ASSUME Counted, NEW x, NEW held \in BOOLEAN, NEW holds \in BOOLEAN, free \in Nat,
           held <=> x \in OpenOf(stack), NEW S,
           S = IF holds THEN OpenOf(stack) \cup {x} ELSE OpenOf(stack) \ {x},
           NEW n, n = free + (IF held THEN 1 ELSE 0) - (IF holds THEN 1 ELSE 0)
    PROVE  IsFiniteSet(S) /\ n + Cardinality(S) = PoolSize /\ n <= PoolSize
<1> DEFINE O == OpenOf(stack)
<1>1. IsFiniteSet(O) /\ free + Cardinality(O) = PoolSize /\ Cardinality(O) \in Nat
  BY FS_CardinalityType DEF Counted
<1>2. /\ IsFiniteSet(O \cup {x}) /\ IsFiniteSet(O \ {x})
      /\ Cardinality(O \cup {x}) = IF x \in O THEN Cardinality(O) ELSE Cardinality(O) + 1
      /\ Cardinality(O \ {x}) = IF x \in O THEN Cardinality(O) - 1 ELSE Cardinality(O)
  BY <1>1, FS_AddElement, FS_RemoveElement
<1>3. Cardinality(O \cup {x}) \in Nat /\ Cardinality(O \ {x}) \in Nat
  BY <1>2, FS_CardinalityType
<1>4. held <=> x \in O
  OBVIOUS
<1>5. S = IF holds THEN O \cup {x} ELSE O \ {x}
  OBVIOUS
<1> HIDE DEF O
<1>6. CASE held /\ holds
  <2>1. n = free + 1 - 1 /\ x \in O /\ S = O \cup {x}
    BY <1>4, <1>5, <1>6, Zenon
  <2>2. IsFiniteSet(S) /\ Cardinality(S) = Cardinality(O)
    BY <1>2, <2>1, Zenon
  <2>3. n = free
    BY <2>1
  <2> QED BY <1>1, <2>2, <2>3
<1>7. CASE held /\ ~holds
  <2>1. n = free + 1 - 0 /\ x \in O /\ S = O \ {x}
    BY <1>4, <1>5, <1>7, Zenon
  <2> QED BY <1>1, <1>2, <1>3, <2>1
<1>8. CASE ~held /\ holds
  <2>1. n = free + 0 - 1 /\ x \notin O /\ S = O \cup {x}
    BY <1>4, <1>5, <1>8, Zenon
  <2> QED BY <1>1, <1>2, <1>3, <2>1
<1>9. CASE ~held /\ ~holds
  <2>1. n = free + 0 - 0 /\ x \notin O /\ S = O \ {x}
    BY <1>4, <1>5, <1>9, Zenon
  <2>2. IsFiniteSet(S) /\ Cardinality(S) = Cardinality(O)
    BY <1>2, <2>1, Zenon
  <2>3. n = free
    BY <2>1
  <2> QED BY <1>1, <2>2, <2>3
<1> QED BY <1>6, <1>7, <1>8, <1>9, Zenon

LEMMA HeldIsOpen ==
    ASSUME TypeOK, NEW c \in Callers, NEW k \in 1..Len(stack[c])
    PROVE  stack[c][k].conn <=> <<c, k>> \in OpenOf(stack)
<1>1. stack[c][k].conn => <<c, k>> \in OpenOf(stack)
  BY OpenIntro
<1>2. <<c, k>>[1] = c /\ <<c, k>>[2] = k
  OBVIOUS
<1>3. <<c, k>> \in OpenOf(stack) => stack[c][k].conn
  <2>1. SUFFICES ASSUME <<c, k>> \in OpenOf(stack) PROVE stack[c][k].conn
    OBVIOUS
  <2>2. stack[<<c, k>>[1]][<<c, k>>[2]].conn
    BY <2>1, OpenElim, Zenon
  <2> QED BY <1>2, <2>2
<1> QED BY <1>1, <1>3, Zenon

\* One iterator becomes f, and its connection is taken or given back.
LEMMA SwapKeeps ==
    ASSUME IInv, NEW c \in Callers, NEW k \in 1..Len(stack[c]), NEW f \in Frame,
           stack' = [stack EXCEPT ![c][k] = f],
           free' = free + Given(stack[c][k]) - Given(f),
           f.conn => stack[c][k].conn \/ free > 0,
           HoldsNothing(f), k < Depth(c) => f.at = "body",
           UNCHANGED <<plan, canceled>>
    PROVE  IInv'
<1>1. /\ stack \in Stacks /\ stack[c][k] \in Frame /\ free \in Nat /\ PoolSize \in Nat /\ TypeOK
  BY QueryRunAssumption DEF IInv, TypeOK, Stacks
<1>2. Swapped(stack', stack, c, k, f)
  BY <1>1, Replaced
<1>3. OpenOf(stack') = IF f.conn THEN OpenOf(stack) \cup {<<c, k>>} ELSE OpenOf(stack) \ {<<c, k>>}
  BY <1>1, <1>2, OpenReplaced
<1>4. stack[c][k].conn <=> <<c, k>> \in OpenOf(stack)
  BY <1>1, HeldIsOpen
<1>5. stack[c][k].conn \in BOOLEAN /\ f.conn \in BOOLEAN
  BY <1>1 DEF Frame
<1>6. free' = free + (IF stack[c][k].conn THEN 1 ELSE 0) - (IF f.conn THEN 1 ELSE 0)
  BY DEF Given
<1>7. Counted /\ TypeOK /\ WalksHoldNothing
  BY DEF IInv
<1>8. /\ IsFiniteSet(OpenOf(stack')) /\ free' + Cardinality(OpenOf(stack')) = PoolSize
      /\ free' <= PoolSize
  <2> DEFINE held == stack[c][k].conn
             holds == f.conn
             S == OpenOf(stack')
             n == free'
             x == <<c, k>>
  <2>1. held \in BOOLEAN /\ holds \in BOOLEAN /\ (held <=> x \in OpenOf(stack))
    BY <1>4, <1>5
  <2>2. S = IF holds THEN OpenOf(stack) \cup {x} ELSE OpenOf(stack) \ {x}
    BY <1>3
  <2>3. n = free + (IF held THEN 1 ELSE 0) - (IF holds THEN 1 ELSE 0)
    BY <1>6
  <2> HIDE DEF held, holds, S, n, x
  <2>4. IsFiniteSet(S) /\ n + Cardinality(S) = PoolSize /\ n <= PoolSize
    BY <1>1, <1>7, <2>1, <2>2, <2>3, Counting
  <2> QED BY <2>4 DEF S, n
<1>9. free' \in 0..PoolSize
  <2>1. CASE f.conn
    <3>1. free' \in Nat
      BY <1>1, <1>5, <1>6, <2>1
    <3> QED BY <1>1, <1>8, <3>1
  <2>2. CASE ~f.conn
    <3>1. free' \in Nat
      BY <1>1, <1>5, <1>6, <2>2
    <3> QED BY <1>1, <1>8, <3>1
  <2> QED BY <2>1, <2>2
<1>10. TypeOK'
  <2>1. /\ plan' \in Plans /\ stack' \in [Callers -> Seq(Frame)]
        /\ canceled' \in [Callers -> BOOLEAN]
    BY <1>2, <1>7 DEF TypeOK, Swapped, Stacks
  <2>2. ASSUME NEW d \in Callers
        PROVE  /\ Depth(d)' <= Len(plan'[d])
               /\ \A i \in 1..(Depth(d)') : i < Depth(d)' => stack'[d][i].at = "body"
    <3>1. Depth(d)' = Depth(d) /\ Depth(d) <= Len(plan[d]) /\ plan' = plan
          /\ \A i \in 1..Depth(d) : i < Depth(d) => stack[d][i].at = "body"
      BY <1>2, <1>7 DEF Swapped, Depth, TypeOK
    <3>2. ASSUME NEW i \in 1..Depth(d), i < Depth(d) PROVE stack'[d][i].at = "body"
      <4>1. i \in 1..Len(stack[d]) /\ stack'[d][i] = IF d = c /\ i = k THEN f ELSE stack[d][i]
        BY <1>2 DEF Depth, Swapped
      <4> QED BY <3>1, <3>2, <4>1
    <3> QED BY <3>1, <3>2
  <2> QED BY <1>9, <2>1, <2>2 DEF TypeOK
<1>11. WalksHoldNothing'
  <2>1. ASSUME NEW d \in Callers, NEW i \in 1..Len(stack'[d]) PROVE HoldsNothing(stack'[d][i])
    <3>1. i \in 1..Len(stack[d]) /\ stack'[d][i] = IF d = c /\ i = k THEN f ELSE stack[d][i]
      BY <1>2 DEF Swapped
    <3>2. HoldsNothing(stack[d][i])
      BY <1>7, <3>1 DEF WalksHoldNothing, Depth
    <3> QED BY <3>1, <3>2
  <2> QED BY <2>1 DEF WalksHoldNothing, Depth
<1> QED BY <1>8, <1>10, <1>11 DEF IInv, Counted

\* The innermost iterator becomes f.
LEMMA BecomesKeeps ==
    ASSUME IInv, NEW c \in Callers, Depth(c) > 0, NEW f \in Frame, Becomes(c, f),
           f.conn => Top(c).conn \/ free > 0, HoldsNothing(f)
    PROVE  IInv'
<1>1. Depth(c) \in 1..Len(stack[c]) /\ Depth(c) \in Nat
  BY TopIn DEF IInv
<1>2. /\ stack' = [stack EXCEPT ![c][Depth(c)] = f]
      /\ free' = free + Given(stack[c][Depth(c)]) - Given(f)
      /\ UNCHANGED <<plan, canceled>>
      /\ f.conn => stack[c][Depth(c)].conn \/ free > 0
  BY DEF Becomes, Top
<1>3. ~(Depth(c) < Depth(c))
  BY <1>1
<1> QED BY <1>1, <1>2, <1>3, SwapKeeps

\* And when it is dropped.
LEMMA ReturnsKeeps ==
    ASSUME IInv, NEW c \in Callers, Depth(c) > 0, Returns(c)
    PROVE  IInv'
<1>1. /\ stack \in Stacks /\ Depth(c) \in Nat /\ Depth(c) \in 1..Len(stack[c])
      /\ Top(c) \in Frame /\ free \in Nat /\ PoolSize \in Nat /\ TypeOK
  BY TopIn DEF IInv
<1> DEFINE k == Depth(c)
<1>2. Cut(stack', stack, c)
  BY <1>1, Popped DEF Returns, Depth
<1>3. OpenOf(stack') = OpenOf(stack) \ {<<c, k>>}
  BY <1>1, <1>2, OpenPopped DEF Depth
<1>4. Top(c).conn <=> <<c, k>> \in OpenOf(stack)
  BY <1>1, HeldIsOpen DEF Top
<1>5. Top(c).conn \in BOOLEAN
  BY <1>1 DEF Frame
<1>6. free' = free + (IF Top(c).conn THEN 1 ELSE 0) - (IF FALSE THEN 1 ELSE 0)
  BY <1>1, <1>5 DEF Returns, Given
<1>7. Counted /\ TypeOK /\ WalksHoldNothing
  BY DEF IInv
<1>8. /\ IsFiniteSet(OpenOf(stack')) /\ free' + Cardinality(OpenOf(stack')) = PoolSize
      /\ free' <= PoolSize
  <2> DEFINE held == Top(c).conn
             holds == FALSE
             S == OpenOf(stack')
             n == free'
             x == <<c, k>>
  <2>1. held \in BOOLEAN /\ holds \in BOOLEAN /\ (held <=> x \in OpenOf(stack))
    BY <1>4, <1>5
  <2>2. S = IF holds THEN OpenOf(stack) \cup {x} ELSE OpenOf(stack) \ {x}
    BY <1>3
  <2>3. n = free + (IF held THEN 1 ELSE 0) - (IF holds THEN 1 ELSE 0)
    BY <1>6
  <2> HIDE DEF held, holds, S, n, x
  <2>4. IsFiniteSet(S) /\ n + Cardinality(S) = PoolSize /\ n <= PoolSize
    BY <1>1, <1>7, <2>1, <2>2, <2>3, Counting
  <2> QED BY <2>4 DEF S, n
<1>9. free' \in 0..PoolSize
  BY <1>1, <1>5, <1>6, <1>8
<1>10. TypeOK'
  <2>1. /\ plan' \in Plans /\ stack' \in [Callers -> Seq(Frame)]
        /\ canceled' \in [Callers -> BOOLEAN]
    BY <1>2, <1>7 DEF Returns, TypeOK, Cut, Stacks
  <2>2. ASSUME NEW d \in Callers
        PROVE  /\ Depth(d)' <= Len(plan'[d])
               /\ \A i \in 1..(Depth(d)') : i < Depth(d)' => stack'[d][i].at = "body"
    <3>1. plan' = plan /\ Depth(d) <= Len(plan[d]) /\ Depth(d) \in Nat /\ Len(plan[d]) \in Nat
          /\ \A i \in 1..Depth(d) : i < Depth(d) => stack[d][i].at = "body"
      <4>1. plan[d] \in Seq(Kinds) /\ stack[d] \in Seq(Frame)
        BY <1>7, QueryRunAssumption DEF TypeOK
      <4> QED BY <1>7, <4>1 DEF TypeOK, Returns, Depth
    <3>2. CASE d # c
      BY <1>2, <3>1, <3>2 DEF Cut, Depth
    <3>3. CASE d = c
      <4>1. Depth(d)' = k - 1 /\ \A i \in 1..(k - 1) : stack'[d][i] = stack[d][i]
        BY <1>2, <3>3 DEF Cut, Depth
      <4>2. ASSUME NEW i \in 1..(k - 1) PROVE stack'[d][i].at = "body"
        <5>1. i \in 1..Depth(d) /\ i < Depth(d)
          BY <1>1, <3>3
        <5> QED BY <3>1, <4>1, <5>1
      <4> QED BY <1>1, <3>1, <3>3, <4>1, <4>2
    <3> QED BY <3>2, <3>3
  <2> QED BY <1>9, <2>1, <2>2 DEF TypeOK
<1>11. WalksHoldNothing'
  <2>1. ASSUME NEW d \in Callers, NEW i \in 1..Len(stack'[d]) PROVE HoldsNothing(stack'[d][i])
    <3>1. i \in 1..Len(stack[d]) /\ stack'[d][i] = stack[d][i]
      BY <1>1, <1>2 DEF Cut, Depth
    <3>2. HoldsNothing(stack[d][i])
      BY <1>7, <3>1 DEF WalksHoldNothing, Depth
    <3> QED BY <3>1, <3>2
  <2> QED BY <2>1 DEF WalksHoldNothing, Depth
<1> QED BY <1>8, <1>10, <1>11 DEF IInv, Counted

\* A stack with another iterator on top, that holds nothing.
LEMMA OpenPushed ==
    ASSUME NEW s \in Stacks, NEW c \in Callers, NEW r \in Stacks, Len(s[c]) > 0,
           Len(r[c]) = Len(s[c]) + 1, \A d \in Callers : d # c => r[d] = s[d],
           \A i \in 1..Len(s[c]) : r[c][i].conn <=> s[c][i].conn,
           ~r[c][Len(s[c]) + 1].conn
    PROVE  OpenOf(r) = OpenOf(s)
<1>1. Len(s[c]) \in Nat
  BY DEF Stacks
<1>2. ASSUME NEW x, x \in OpenOf(r) PROVE x \in OpenOf(s)
  <2> DEFINE d == x[1]
             i == x[2]
  <2>1. d \in Callers /\ i \in 1..Len(r[d]) /\ r[d][i].conn /\ x = <<d, i>>
    BY <1>2, OpenElim
  <2> HIDE DEF d, i
  <2>2. i \in 1..Len(s[d]) /\ s[d][i].conn
    BY <1>1, <2>1
  <2> QED BY <2>1, <2>2, OpenIntro
<1>3. ASSUME NEW x, x \in OpenOf(s) PROVE x \in OpenOf(r)
  <2> DEFINE d == x[1]
             i == x[2]
  <2>1. d \in Callers /\ i \in 1..Len(s[d]) /\ s[d][i].conn /\ x = <<d, i>>
    BY <1>3, OpenElim
  <2> HIDE DEF d, i
  <2>2. i \in 1..Len(r[d]) /\ r[d][i].conn
    BY <1>1, <2>1
  <2> QED BY <2>1, <2>2, OpenIntro
<1> QED BY <1>2, <1>3, Zenon

\* The body ranges over another iterator.
LEMMA NestKeeps ==
    ASSUME IInv, NEW c \in Callers, Nest(c)
    PROVE  IInv'
<1>1. /\ stack \in Stacks /\ Depth(c) \in Nat /\ Depth(c) \in 1..Len(stack[c]) /\ Depth(c) > 0
      /\ Top(c) \in Frame /\ free \in Nat /\ PoolSize \in Nat /\ TypeOK
  BY TopIn DEF IInv, Nest
<1> DEFINE k == Depth(c)
           g == [stack[c][k] EXCEPT !.asked = TRUE]
           o == Opened(plan[c][k + 1])
           q == [stack[c] EXCEPT ![k] = g]
           p == Append(q, o)
<1>2. g \in Frame /\ g.conn = stack[c][k].conn /\ g.kind = stack[c][k].kind /\ g.at = "body"
      /\ stack[c][k].at = "body"
  <2>1. stack[c][k] \in Frame /\ stack[c][k].at = "body"
    BY <1>1 DEF Top, Nest
  <2> QED BY <2>1 DEF Frame
<1>3. o \in Frame /\ ~o.conn /\ o.at = "build"
  <2>1. plan[c] \in Seq(Kinds) /\ k + 1 \in 1..Len(plan[c])
    BY <1>1, QueryRunAssumption DEF TypeOK, Nest
  <2>2. plan[c][k + 1] \in Kinds /\ MaxRows \in 0..MaxRows
    BY <2>1, QueryRunAssumption
  <2> QED BY <2>2 DEF Frame, Opened, Places
<1>4. stack[c] \in Seq(Frame) /\ k = Len(stack[c])
  BY <1>1 DEF Stacks, Depth
<1> HIDE DEF g, o
<1>5. q \in Seq(Frame) /\ Len(q) = k /\ \A j \in 1..k : q[j] = IF j = k THEN g ELSE stack[c][j]
  BY <1>1, <1>2, <1>4, ExceptSeq
<1> HIDE DEF q
<1>6. p \in Seq(Frame) /\ Len(p) = k + 1 /\ p[k + 1] = o /\ \A j \in 1..k : p[j] = q[j]
  BY <1>3, <1>5, AppendProperties
<1> HIDE DEF p
<1>7. stack' = [stack EXCEPT ![c] = p]
  BY DEF Nest, p, q, g, o
<1>8. stack' \in Stacks /\ stack'[c] = p /\ \A d \in Callers : d # c => stack'[d] = stack[d]
  BY <1>1, <1>6, <1>7 DEF Stacks
<1>9. UNCHANGED <<plan, free, canceled>> /\ k < Len(plan[c])
  BY DEF Nest
<1> HIDE DEF k
<1>10. \A j \in 1..k : stack'[c][j].conn = stack[c][j].conn
  BY <1>2, <1>5, <1>6, <1>8
<1>11. OpenOf(stack') = OpenOf(stack)
  <2>1. /\ Len(stack[c]) > 0 /\ Len(stack'[c]) = Len(stack[c]) + 1
        /\ ~stack'[c][Len(stack[c]) + 1].conn
        /\ \A i \in 1..Len(stack[c]) : stack'[c][i].conn <=> stack[c][i].conn
    BY <1>1, <1>3, <1>4, <1>6, <1>8, <1>10 DEF k
  <2> QED BY <1>1, <1>8, <2>1, OpenPushed
<1>12. Counted'
  BY <1>9, <1>11 DEF IInv, Counted
<1>13. \A j \in 1..k : stack'[c][j] = IF j = k THEN g ELSE stack[c][j]
  BY <1>5, <1>6, <1>8
<1>14. k \in Nat /\ Depth(c)' = k + 1 /\ stack'[c][k + 1] = o
  BY <1>1, <1>6, <1>8 DEF Depth, k
<1>15. TypeOK'
  <2>1. ASSUME NEW d \in Callers
        PROVE  /\ Depth(d)' <= Len(plan'[d])
               /\ \A i \in 1..(Depth(d)') : i < Depth(d)' => stack'[d][i].at = "body"
    <3>1. CASE d # c
      BY <1>1, <1>8, <1>9, <3>1 DEF TypeOK, Depth
    <3>2. CASE d = c
      <4>1. Len(plan[c]) \in Nat
        BY <1>1, QueryRunAssumption DEF TypeOK
      <4>2. Depth(c)' <= Len(plan'[c])
        BY <1>9, <1>14, <4>1
      <4>3. ASSUME NEW i \in 1..(k + 1), i < k + 1 PROVE stack'[c][i].at = "body"
        <5>1. i \in 1..k
          BY <1>14, <4>3
        <5>2. i < k => stack[c][i].at = "body"
          BY <1>1, <5>1 DEF TypeOK, k
        <5>3. i = k \/ i < k
          BY <1>14, <5>1
        <5> QED BY <1>2, <1>13, <5>1, <5>2, <5>3
      <4> QED BY <1>14, <3>2, <4>2, <4>3
    <3> QED BY <3>1, <3>2
  <2> QED BY <1>1, <1>8, <1>9, <2>1 DEF TypeOK, Stacks
<1>16. WalksHoldNothing'
  <2>1. ASSUME NEW d \in Callers, NEW i \in 1..Len(stack'[d]) PROVE HoldsNothing(stack'[d][i])
    <3>1. CASE d # c
      BY <1>8, <3>1 DEF IInv, WalksHoldNothing, Depth
    <3>2. CASE d = c /\ i = k + 1
      BY <1>3, <1>14, <3>2 DEF HoldsNothing
    <3>3. CASE d = c /\ i # k + 1
      <4>1. i \in 1..k
        BY <1>6, <1>8, <1>14, <3>3
      <4>2. HoldsNothing(stack[c][i])
        BY <4>1 DEF IInv, WalksHoldNothing, k
      <4>3. i = k => HoldsNothing(g)
        BY <1>2, <4>2 DEF HoldsNothing
      <4> QED BY <1>13, <3>3, <4>1, <4>2, <4>3
    <3> QED BY <3>1, <3>2, <3>3
  <2> QED BY <2>1 DEF WalksHoldNothing, Depth
<1> QED BY <1>12, <1>15, <1>16 DEF IInv

\* database/sql closes the rows of a context that is done.
LEMMA ClosesKeeps ==
    ASSUME IInv, NEW c \in Callers, Closes(c)
    PROVE  IInv'
<1>1. PICK k \in 1..Depth(c) :
          /\ stack[c][k].conn
          /\ stack' = [stack EXCEPT ![c][k].conn = FALSE]
          /\ free' = free + 1
  BY DEF Closes
<1> DEFINE f == [stack[c][k] EXCEPT !.conn = FALSE]
<1>2. stack[c][k] \in Frame /\ k \in 1..Len(stack[c]) /\ TypeOK /\ free \in Nat
  BY QueryRunAssumption DEF IInv, TypeOK, Depth
<1>3. f \in Frame /\ ~f.conn /\ f.at = stack[c][k].at
  BY <1>2 DEF Frame
<1>4. stack' = [stack EXCEPT ![c][k] = f]
  BY <1>1
<1> HIDE DEF f
<1>5. free' = free + Given(stack[c][k]) - Given(f)
  BY <1>1, <1>2, <1>3 DEF Given
<1>6. HoldsNothing(f) /\ (k < Depth(c) => f.at = "body")
  BY <1>2, <1>3 DEF HoldsNothing, TypeOK
<1>7. UNCHANGED <<plan, canceled>>
  BY DEF Closes
<1> QED BY <1>2, <1>3, <1>4, <1>5, <1>6, <1>7, SwapKeeps

\* An iterator that goes on without touching its rows.
LEMMA MovesKeeps ==
    ASSUME IInv, NEW c \in Callers, Depth(c) > 0, NEW place \in Places, Moves(c, place),
           place \in {"build", "query", "body"} => Top(c).kind = "stmt" \/ ~Top(c).conn
    PROVE  IInv'
<1>1. Top(c) \in Frame
  BY TopIn DEF IInv
<1> DEFINE f == [Top(c) EXCEPT !.at = place]
<1>2. f \in Frame /\ f.conn = Top(c).conn /\ f.kind = Top(c).kind /\ f.at = place
  BY <1>1 DEF Frame
<1>3. Becomes(c, f)
  BY DEF Moves
<1> HIDE DEF f
<1>4. HoldsNothing(f)
  BY <1>2 DEF HoldsNothing
<1> QED BY <1>2, <1>3, <1>4, BecomesKeeps

LEMMA StepKeeps ==
    ASSUME IInv, NEW c \in Callers, Step(c)
    PROVE  IInv'
<1>1. Depth(c) > 0
  BY DEF Step, Build, Query, QueryCanceled, KeepFails, Row, RowsEnd, ReadAll, Body, Nest, Last, At
<1>2. /\ Top(c) \in Frame /\ Depth(c) \in 1..Depth(c) /\ Top(c) = stack[c][Depth(c)]
      /\ free \in Nat /\ MaxRows \in Nat
  BY <1>1, TopIn, QueryRunAssumption DEF IInv, Top
<1>3. HoldsNothing(Top(c))
  BY <1>2 DEF IInv, WalksHoldNothing
<1>4. Top(c).kind \in {"stmt", "walk"} /\ Top(c).left \in 0..MaxRows /\ Top(c).conn \in BOOLEAN
  BY <1>2 DEF Frame, Kinds
<1>5. CASE Build(c)
  <2>1. Top(c).kind = "stmt" \/ ~Top(c).conn
    BY <1>3, <1>4, <1>5 DEF Build, HoldsNothing
  <2> QED BY <1>1, <1>5, <2>1, MovesKeeps DEF Build, Places
<1>6. CASE Query(c)
  <2>1. free > 0
    BY <1>6 DEF Query
  <2>2. ASSUME NEW n \in 0..MaxRows, At(c, "stmt", "query"),
               Becomes(c, [Top(c) EXCEPT !.at = "rows", !.conn = TRUE, !.left = n])
        PROVE  IInv'
    <3> DEFINE f == [Top(c) EXCEPT !.at = "rows", !.conn = TRUE, !.left = n]
    <3>1. f \in Frame /\ f.at = "rows"
      BY <1>2 DEF Frame, Places
    <3> HIDE DEF f
    <3>2. Becomes(c, f)
      BY <2>2 DEF f
    <3> QED BY <1>1, <2>1, <3>1, <3>2, BecomesKeeps DEF HoldsNothing
  <2>3. ASSUME At(c, "walk", "query"),
               Becomes(c, [Top(c) EXCEPT !.at = "reading", !.conn = TRUE])
        PROVE  IInv'
    <3> DEFINE f == [Top(c) EXCEPT !.at = "reading", !.conn = TRUE]
    <3>1. f \in Frame /\ f.at = "reading"
      BY <1>2 DEF Frame, Places
    <3> HIDE DEF f
    <3>2. Becomes(c, f)
      BY <2>3 DEF f
    <3> QED BY <1>1, <2>1, <3>1, <3>2, BecomesKeeps DEF HoldsNothing
  <2>4. ASSUME Moves(c, "last") PROVE IInv'
    BY <1>1, <2>4, MovesKeeps DEF Places
  <2> QED BY <1>6, <2>2, <2>3, <2>4 DEF Query
<1>7. CASE QueryCanceled(c)
  BY <1>1, <1>7, MovesKeeps DEF QueryCanceled, Places
<1>8. CASE KeepFails(c)
  BY <1>1, <1>8, MovesKeeps DEF KeepFails, Places
<1>9. CASE Row(c)
  <2>1. Top(c).kind = "stmt" /\ Top(c).conn /\ Top(c).left > 0
    BY <1>9 DEF Row, At
  <2>2. Top(c).left - 1 \in 0..MaxRows
    BY <1>2, <1>4, <2>1
  <2>3. ASSUME Becomes(c, Yields(Top(c))) PROVE IInv'
    <3> DEFINE f == Yields(Top(c))
    <3>1. f \in Frame /\ f.kind = "stmt"
      BY <1>2, <2>1, <2>2 DEF Frame, Places, Yields
    <3> HIDE DEF f
    <3>2. Becomes(c, f)
      BY <2>3 DEF f
    <3> QED BY <1>1, <2>1, <3>1, <3>2, BecomesKeeps DEF HoldsNothing
  <2>4. ASSUME Becomes(c, [Top(c) EXCEPT !.left = @ - 1]) PROVE IInv'
    <3> DEFINE f == [Top(c) EXCEPT !.left = @ - 1]
    <3>1. f \in Frame /\ f.kind = "stmt"
      BY <1>2, <2>1, <2>2 DEF Frame
    <3> HIDE DEF f
    <3>2. Becomes(c, f)
      BY <2>4 DEF f
    <3> QED BY <1>1, <2>1, <3>1, <3>2, BecomesKeeps DEF HoldsNothing
  <2> QED BY <1>9, <2>3, <2>4 DEF Row
\* An iterator that gives its connection back and goes to a place of its kind.
<1>10. ASSUME NEW f \in Frame, ~f.conn, Becomes(c, f) PROVE IInv'
  BY <1>1, <1>10, BecomesKeeps DEF HoldsNothing
<1>11. [Top(c) EXCEPT !.at = "last", !.conn = FALSE] \in Frame
       /\ ~[Top(c) EXCEPT !.at = "last", !.conn = FALSE].conn
  BY <1>2 DEF Frame, Places
<1>12. ASSUME Returns(c) PROVE IInv'
  BY <1>1, <1>12, ReturnsKeeps
<1>13. CASE RowsEnd(c)
  BY <1>10, <1>11, <1>12, <1>13 DEF RowsEnd
<1>14. CASE ReadAll(c)
  <2>1. ASSUME Top(c).left > 0,
               \/ Becomes(c, [Yields(Top(c)) EXCEPT !.conn = FALSE])
               \/ Becomes(c, [Top(c) EXCEPT !.at = "query", !.conn = FALSE, !.left = @ - 1])
        PROVE  IInv'
    <3>1. Top(c).left - 1 \in 0..MaxRows
      BY <1>2, <1>4, <2>1
    <3>2. /\ [Yields(Top(c)) EXCEPT !.conn = FALSE] \in Frame
          /\ ~[Yields(Top(c)) EXCEPT !.conn = FALSE].conn
      BY <1>2, <3>1 DEF Frame, Places, Yields
    <3>3. /\ [Top(c) EXCEPT !.at = "query", !.conn = FALSE, !.left = @ - 1] \in Frame
          /\ ~[Top(c) EXCEPT !.at = "query", !.conn = FALSE, !.left = @ - 1].conn
      BY <1>2, <3>1 DEF Frame, Places
    <3> QED BY <1>10, <2>1, <3>2, <3>3
  <2> QED BY <1>10, <1>11, <1>12, <1>14, <2>1 DEF ReadAll
<1>15. CASE Body(c)
  <2>1. Top(c).kind = "stmt" \/ ~Top(c).conn
    BY <1>3, <1>4, <1>15 DEF Body, HoldsNothing
  <2> QED BY <1>1, <1>12, <1>15, <2>1, MovesKeeps DEF Body, Places
<1>16. CASE Nest(c)
  BY <1>16, NestKeeps
<1>17. CASE Last(c)
  BY <1>12, <1>17 DEF Last
<1> QED BY <1>5, <1>6, <1>7, <1>8, <1>9, <1>13, <1>14, <1>15, <1>16, <1>17 DEF Step

LEMMA IteratorsInit == Init => IInv
<1> SUFFICES ASSUME Init PROVE IInv
  OBVIOUS
<1>1. /\ plan \in Plans /\ plan \in [Callers -> Seq(Kinds) \ {<<>>}]
      /\ MaxRows \in 0..MaxRows /\ PoolSize \in Nat
  BY QueryRunAssumption DEF Init
<1>2. ASSUME NEW c \in Callers
      PROVE  /\ Opened(plan[c][1]) \in Frame /\ ~Opened(plan[c][1]).conn
             /\ stack[c] = <<Opened(plan[c][1])>> /\ 1 <= Len(plan[c])
  <2>1. plan[c] \in Seq(Kinds) /\ plan[c] # <<>>
    BY <1>1
  <2>2. Len(plan[c]) \in Nat /\ 1 <= Len(plan[c]) /\ plan[c][1] \in Kinds
    BY <2>1
  <2> QED BY <1>1, <2>2 DEF Init, Opened, Frame, Places
<1>3. ASSUME NEW c \in Callers
      PROVE  /\ stack[c] \in Seq(Frame) /\ Len(stack[c]) = 1 /\ ~stack[c][1].conn
             /\ Depth(c) <= Len(plan[c])
  <2> DEFINE o == Opened(plan[c][1])
  <2>1. o \in Frame /\ ~o.conn /\ stack[c] = <<o>> /\ 1 <= Len(plan[c])
    BY <1>2
  <2> HIDE DEF o
  <2>2. <<o>> \in Seq(Frame) /\ Len(<<o>>) = 1 /\ <<o>>[1] = o
    BY <2>1
  <2> QED BY <2>1, <2>2 DEF Depth
<1>4. TypeOK
  <2>1. stack \in [Callers -> Seq(Frame)]
    BY <1>3 DEF Init
  <2>2. free \in 0..PoolSize /\ canceled \in [Callers -> BOOLEAN]
    BY <1>1 DEF Init
  <2>3. ASSUME NEW c \in Callers PROVE \A k \in 1..Depth(c) : ~(k < Depth(c))
    <3>1. Depth(c) = 1
      BY <1>3, Zenon DEF Depth
    <3> QED BY <3>1
  <2>4. \A c \in Callers : Depth(c) <= Len(plan[c])
    BY <1>3
  <2> QED BY <1>1, <2>1, <2>2, <2>3, <2>4, Zenon DEF TypeOK
<1>5. OpenOf(stack) = {}
  <2> SUFFICES ASSUME NEW x, x \in OpenOf(stack) PROVE FALSE
    OBVIOUS
  <2> DEFINE d == x[1]
             i == x[2]
  <2>1. d \in Callers /\ i \in 1..Len(stack[d]) /\ stack[d][i].conn
    BY OpenElim
  <2> HIDE DEF d, i
  <2> QED BY <1>3, <2>1
<1>6. Counted
  BY <1>1, <1>5, FS_EmptySet DEF Counted, Init
<1>7. WalksHoldNothing
  BY <1>3 DEF WalksHoldNothing, HoldsNothing, Depth
<1> QED BY <1>4, <1>6, <1>7 DEF IInv

LEMMA IteratorsStep == IInv /\ [Next]_vars => IInv'
<1> SUFFICES ASSUME IInv, [Next]_vars PROVE IInv'
  OBVIOUS
<1>1. ASSUME NEW c \in Callers, Step(c) PROVE IInv'
  BY <1>1, StepKeeps
<1>2. ASSUME NEW c \in Callers, Closes(c) PROVE IInv'
  BY <1>2, ClosesKeeps
<1>3. ASSUME NEW c \in Callers, Cancel(c) PROVE IInv'
  <2>1. UNCHANGED <<plan, stack, free>> /\ canceled' \in [Callers -> BOOLEAN]
    BY <1>3 DEF Cancel, IInv, TypeOK
  <2>2. TypeOK'
    BY <2>1 DEF IInv, TypeOK, Depth
  <2>3. WalksHoldNothing'
    BY <2>1 DEF IInv, WalksHoldNothing, Depth
  <2>4. Counted'
    BY <2>1 DEF IInv, Counted
  <2> QED BY <2>2, <2>3, <2>4 DEF IInv
<1>4. CASE UNCHANGED vars
  <2>1. UNCHANGED <<plan, stack, free, canceled>>
    BY <1>4 DEF vars
  <2>2. TypeOK'
    BY <2>1 DEF IInv, TypeOK, Depth
  <2>3. WalksHoldNothing'
    BY <2>1 DEF IInv, WalksHoldNothing, Depth
  <2>4. Counted'
    BY <2>1 DEF IInv, Counted
  <2> QED BY <2>2, <2>3, <2>4 DEF IInv
<1> QED BY <1>1, <1>2, <1>3, <1>4 DEF Next

LEMMA IteratorsAlways == Spec => []IInv
<1>1. IInv /\ [Next]_vars => IInv'
  BY IteratorsStep
<1> QED BY IteratorsInit, <1>1, PTL DEF Spec

---------------------------------------------------------------------------
(* What follows. *)

\* Every variable keeps its type, and only the innermost iterator of a caller
\* is anywhere but in its body.
THEOREM TypeCorrect == Spec => []TypeOK
<1>1. IInv => TypeOK
  BY DEF IInv
<1> QED BY IteratorsAlways, <1>1, PTL

\* No connection is lost or given back twice, however the iterators end (the
\* deferred Rows.Close of Query.All).
THEOREM PoolCorrect == Spec => []NoneLeaked
<1>1. Open = OpenOf(stack)
  BY DEF Open, OpenOf, Depth
<1>2. IInv => NoneLeaked
  BY <1>1 DEF IInv, Counted, NoneLeaked
<1> QED BY IteratorsAlways, <1>2, PTL

\* A walk holds no connection while it yields (readAll).
THEOREM WalkCorrect == Spec => []WalkYieldsEmptyHanded
<1>1. IInv => WalkYieldsEmptyHanded
  BY DEF IInv, WalksHoldNothing, HoldsNothing, WalkYieldsEmptyHanded
<1> QED BY IteratorsAlways, <1>1, PTL
=============================================================================
