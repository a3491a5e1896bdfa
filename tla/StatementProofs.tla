--------------------------- MODULE StatementProofs ---------------------------
(***************************************************************************)
(* What a caller may rely on when it asks a query, for every statement,    *)
(* variant, parameter, argument and server: the statement and the values   *)
(* it is run with agree, Support foretells the answer, and Each and Keep   *)
(* see what bind sees.                                                     *)
(***************************************************************************)
EXTENDS Statement, WellFoundedInduction, TLAPS

\* The lookup has found a binding, and the statement is being made of it.
Found == {"pieces", "args", "tokens", "defaults"}

\* What each part of the way has done and not yet done.
StageInv ==
    /\ pc \in Found =>
          stmt = Chosen(binding, given) /\ LookupErr(binding, server) = "nil"
    /\ pc \in {"pieces", "args", "tokens"} => ~binding.walk
    /\ pc \in {"params", "lookup", "pieces", "args"} => out = <<>> /\ vals = <<>>
    /\ pc \in {"params", "lookup", "args"} => k = 1
    /\ pc = "tokens" => Len(out) = k - 1

---------------------------------------------------------------------------
(* Helpers. *)

LEMMA LeastNatural ==
    ASSUME NEW S, S \subseteq Nat, S # {}
    PROVE  \E n \in S : \A m \in S : n <= m
<1>1. PICK n \in S : \A m \in S : ~(<<m, n>> \in OpToRel(<, Nat))
  BY WFMin, NatLessThanWellFounded
<1>2. \A m \in S : n <= m
  <2> SUFFICES ASSUME NEW m \in S PROVE n <= m
    OBVIOUS
  <2>1. <<m, n>> \in Nat \X Nat /\ <<m, n>>[1] = m /\ <<m, n>>[2] = n
    OBVIOUS
  <2>2. ~(m < n)
    BY <1>1, <2>1, Zenon DEF OpToRel
  <2> QED BY <2>2
<1> QED BY <1>2

\* The first of a set of positions, as the loops of Stmt.Build and Query.Build
\* find it.
LEMMA FirstOf ==
    ASSUME NEW S, S \subseteq Nat, S # {},
           NEW n, n = CHOOSE j \in S : \A h \in S : j <= h
    PROVE  n \in S /\ \A h \in S : n <= h
  BY LeastNatural

LEMMA StmtPiece ==
    ASSUME NEW st \in Stmt, NEW j \in 1..Len(st), NEW s \in Servers
    PROVE  /\ st[j][s] \in Resolution
           /\ st[j][s].text \in Seq(Token)
           /\ st[j][s].err \in {"nil", "ErrNotSupported", "ErrVersionTooOld",
                                "ErrAmbiguousFragment"}
<1>1. st[j] \in [Servers -> Resolution]
  BY DEF Stmt
<1> QED BY <1>1 DEF Resolution

LEMMA BindingFields ==
    ASSUME NEW b \in Bindings
    PROVE  /\ b.stmt \in Stmt /\ b.variants \in Seq(Variant)
           /\ b.params \in Maps(Values \cup {NoDefault})
           /\ b.derived \subseteq Names
           /\ b.literal \in BOOLEAN /\ b.keep \in BOOLEAN /\ b.walk \in BOOLEAN
  BY StatementAssumption DEF Binding

LEMMA ChosenType ==
    ASSUME NEW b \in Bindings, NEW args
    PROVE  Chosen(b, args) \in Stmt
<1> DEFINE on == { j \in DOMAIN b.variants :
                     /\ b.variants[j].param \in DOMAIN args
                     /\ args[b.variants[j].param] = On }
           n == CHOOSE j \in on : \A h \in on : j <= h
<1>1. CASE on = {}
  BY <1>1, BindingFields DEF Chosen
<1>2. CASE on # {}
  <2>1. on \subseteq 1..Len(b.variants) /\ on \subseteq Nat
    BY BindingFields
  <2>2. n \in on
    <3> HIDE DEF on
    <3> QED BY <1>2, <2>1, FirstOf
  <2>3. n \in 1..Len(b.variants) /\ b.variants \in Seq(Variant)
    BY <2>1, <2>2, BindingFields
  <2>4. Chosen(b, args) = b.variants[n].stmt
    BY <1>2 DEF Chosen
  <2> HIDE DEF n
  <2>5. b.variants[n] \in Variant
    BY <2>3
  <2> QED BY <2>4, <2>5 DEF Variant
<1> QED BY <1>1, <1>2

LEMMA MapsType ==
    ASSUME NEW S, NEW m \in Maps(S)
    PROVE  /\ m = [n \in DOMAIN m |-> m[n]]
           /\ DOMAIN m \subseteq Names
           /\ \A n \in DOMAIN m : m[n] \in S
<1>1. PICK D \in SUBSET Names : m \in [D -> S]
  BY DEF Maps
<1> QED BY <1>1

LEMMA MapsIn ==
    ASSUME NEW S, NEW D \in SUBSET Names, NEW f \in [D -> S]
    PROVE  f \in Maps(S)
  BY DEF Maps

LEMMA TakenType ==
    ASSUME NEW b \in Bindings, NEW args \in Maps(Values)
    PROVE  Taken(b, args) \in Maps(Values) /\ DOMAIN Taken(b, args) \subseteq DOMAIN b.params
<1>1. DOMAIN args \cap DOMAIN b.params \in SUBSET Names
  BY MapsType
<1>2. \A n \in DOMAIN args \cap DOMAIN b.params : args[n] \in Values
  BY MapsType
<1>3. Taken(b, args) \in [DOMAIN args \cap DOMAIN b.params -> Values]
  BY <1>2 DEF Taken, Restricted
<1> QED BY <1>1, <1>3, MapsIn

LEMMA WithKnownType ==
    ASSUME NEW b \in Bindings, NEW args \in Maps(Values)
    PROVE  WithKnown(b.params, args) \in Maps(Values)
<1> DEFINE D == { m \in DOMAIN b.params : m \in DOMAIN args \/ b.params[m] # NoDefault }
<1>1. D \in SUBSET Names
  BY MapsType, BindingFields
<1>2. \A n \in D : (IF n \in DOMAIN args THEN args[n] ELSE b.params[n]) \in Values
  BY MapsType, BindingFields
<1>3. WithKnown(b.params, args) \in [D -> Values]
  BY <1>2 DEF WithKnown
<1> HIDE DEF D
<1> QED BY <1>1, <1>3, MapsIn

LEMMA FillType ==
    ASSUME NEW b \in Bindings, NEW args \in Maps(Values), ~Missing(b.params, args)
    PROVE  Fill(b.params, args) \in Maps(Values)
<1>1. DOMAIN b.params \in SUBSET Names
  BY MapsType, BindingFields
<1>2. \A n \in DOMAIN b.params :
         (IF n \in DOMAIN args THEN Joined[args[n]] ELSE b.params[n]) \in Values
  <2>1. Joined \in [Values -> Values]
    BY StatementAssumption
  <2>2. \A n \in DOMAIN args : args[n] \in Values
    BY MapsType
  <2>3. \A n \in DOMAIN b.params : b.params[n] \in Values \cup {NoDefault}
    BY MapsType, BindingFields
  <2> QED BY <2>1, <2>2, <2>3 DEF Missing
<1>3. Fill(b.params, args) \in [DOMAIN b.params -> Values]
  BY <1>2 DEF Fill
<1> QED BY <1>1, <1>3, MapsIn

---------------------------------------------------------------------------
(* Support and lookup. *)

LEMMA LookupErrs ==
    ASSUME NEW b, NEW s
    PROVE  LookupErr(b, s) \in {"ErrModelNotBuilt", "ErrNotSupported", "nil"}
  BY DEF LookupErr

LEMMA LookupFinds ==
    ASSUME NEW b \in Bindings \cup {NotBuilt, NotRegistered}, NEW s, LookupErr(b, s) = "nil"
    PROVE  b \in Bindings
  BY DEF LookupErr, Support

---------------------------------------------------------------------------
(* bind. *)

LEMMA WrittenType ==
    /\ Text \in Written
    /\ \A v \in Values : Literal(v) \in Written
    /\ \A n \in Nat : Slot(n) \in Written
  BY DEF Text, Literal, Slot, Written

\* A parameter that is not refused stands for a value.
LEMMA ValueType ==
    ASSUME binding \in Bindings, given \in Maps(Values), NEW name, ParamErr(name) = "nil"
    PROVE  Value(name) \in Values /\ Joined[Value(name)] \in Values
<1>1. name \in binding.derived \cup DOMAIN binding.params
  BY DEF ParamErr
<1>2. CASE name \in binding.derived
  <2>1. name \in Names
    BY <1>2, BindingFields
  <2>2. WithKnown(binding.params, given) \in Maps(Values)
    BY WithKnownType
  <2>3. From(name, WithKnown(binding.params, given)) \in Values
    BY <2>1, <2>2, StatementAssumption
  <2> QED BY <1>2, <2>3, StatementAssumption DEF Value
<1>3. CASE name \notin binding.derived
  <2>1. name \in DOMAIN given \/ binding.params[name] # NoDefault
    BY <1>3 DEF ParamErr
  <2>2. binding.params[name] \in Values \cup {NoDefault}
    BY <1>1, <1>3, MapsType, BindingFields
  <2>3. Value(name) \in Values
    BY <1>3, <2>1, <2>2, MapsType DEF Value
  <2> QED BY <2>3, StatementAssumption
<1> QED BY <1>2, <1>3

\* What bind writes for a value, and the value it binds.
LEMMA WritesType ==
    ASSUME out \in Seq(Written), vals \in Seq(Values), NEW v, Joined[v] \in Values, Writes(v)
    PROVE  /\ out' \in Seq(Written) /\ vals' \in Seq(Values)
           /\ Len(out') = Len(out) + 1
<1>1. CASE binding.literal
  BY <1>1, WrittenType DEF Writes
<1>2. CASE ~binding.literal
  <2>1. Slot(Len(vals) + 1) \in Written
    BY WrittenType
  <2>2. out' = Append(out, Slot(Len(vals) + 1)) /\ vals' = Append(vals, Joined[v])
    BY <1>2 DEF Writes
  <2>3. out' \in Seq(Written) /\ Len(out') = Len(out) + 1
    BY <2>1, <2>2
  <2> QED BY <2>2, <2>3
<1> QED BY <1>1, <1>2

---------------------------------------------------------------------------
(* Types and stages. *)

Inv == TypeOK /\ StageInv

LEMMA InitInv == Init => Inv
<1> SUFFICES ASSUME Init PROVE Inv
  OBVIOUS
<1>1. call \in Call /\ call.args \in Maps(Values)
  BY StatementAssumption DEF Init, Call
<1>2. <<>> \in Stmt /\ <<>> \in Seq(Token) /\ <<>> \in Seq(Written) /\ <<>> \in Seq(Values)
  BY DEF Stmt
<1>3. [n \in {} |-> NoDefault] \in Maps(Values)
  <2>1. {} \in SUBSET Names /\ [n \in {} |-> NoDefault] \in [{} -> Values]
    OBVIOUS
  <2> QED BY <2>1, MapsIn
<1>4. pc \in {"params", "lookup"}
  BY DEF Init
<1>5. TypeOK
  BY <1>1, <1>2, <1>3, <1>4 DEF Init, TypeOK
<1>6. StageInv
  BY <1>4 DEF Init, StageInv, Found
<1> QED BY <1>5, <1>6 DEF Inv

LEMMA ParamsInv == Inv /\ Params => Inv'
<1> SUFFICES ASSUME Inv, Params PROVE Inv'
  OBVIOUS
<1> USE DEF Inv
<1>1. call.args \in Maps(Values)
  BY StatementAssumption DEF TypeOK, Call
<1>2. given' \in Maps(Values)
  <2>1. CASE LookupErr(binding, server) # "nil"
    BY <2>1 DEF Params, TypeOK
  <2>2. CASE LookupErr(binding, server) = "nil"
    BY <1>1, <2>2, LookupFinds, TakenType DEF Params, TypeOK
  <2> QED BY <2>1, <2>2
<1>3. pc = "params" /\ pc' \in {"lookup", "done"}
  BY DEF Params, Finish
<1>4. TypeOK'
  BY <1>2, <1>3 DEF Params, TypeOK, asked
<1>5. StageInv'
  BY <1>3 DEF Params, StageInv, Found
<1> QED BY <1>4, <1>5

LEMMA LookupInv == Inv /\ Lookup => Inv'
<1> SUFFICES ASSUME Inv, Lookup PROVE Inv'
  OBVIOUS
<1> USE DEF Inv
<1>1. pc = "lookup" /\ UNCHANGED <<server, binding, call, given, k, text, out, vals, filled>>
  BY DEF Lookup, asked
<1>2. CASE pc' = "done" /\ UNCHANGED stmt
  <2>1. TypeOK'
    BY <1>1, <1>2 DEF TypeOK
  <2>2. StageInv'
    BY <1>1, <1>2 DEF StageInv, Found
  <2> QED BY <2>1, <2>2
<1>3. CASE /\ LookupErr(binding, server) = "nil"
           /\ pc' = IF binding.walk THEN "defaults" ELSE "pieces"
           /\ stmt' = Chosen(binding, given)
  <2>1. binding \in Bindings /\ stmt' \in Stmt
    BY <1>3, LookupFinds, ChosenType DEF TypeOK
  <2>2. k = 1 /\ Len(stmt') \in Nat /\ binding.walk \in BOOLEAN
    BY <1>1, <2>1, BindingFields DEF StageInv, Stmt
  <2>3. TypeOK'
    BY <1>1, <1>3, <2>1, <2>2 DEF TypeOK
  <2>4. StageInv'
    BY <1>1, <1>3, <2>2 DEF StageInv, Found
  <2> QED BY <2>3, <2>4
<1> QED BY <1>2, <1>3 DEF Lookup, Finish

LEMMA PieceInv == Inv /\ Piece => Inv'
<1> SUFFICES ASSUME Inv, Piece PROVE Inv'
  OBVIOUS
<1> USE DEF Inv
<1>1. /\ pc = "pieces" /\ k \in 1..Len(stmt)
      /\ UNCHANGED <<server, binding, call, given, stmt, out, vals, filled>>
  BY DEF Piece, asked, TypeOK
<1>2. stmt[k][server].text \in Seq(Token)
  BY <1>1, StmtPiece DEF TypeOK
<1>3. /\ text' \in Seq(Token) /\ k' \in {k, k + 1} /\ pc' \in {"pieces", "done"}
  <2>1. text \in Seq(Token)
    BY DEF TypeOK
  <2>2. CASE pc' = "done" /\ UNCHANGED <<text, k>>
    BY <2>1, <2>2
  <2>3. CASE /\ text' = text \o stmt[k][server].text /\ k' = k + 1
             /\ UNCHANGED pc
    <3>1. text' \in Seq(Token)
      BY <1>2, <2>1, <2>3
    <3> QED BY <1>1, <2>3, <3>1
  <2> QED BY <2>2, <2>3 DEF Piece, Finish
<1>4. k' <= Len(stmt) + 1 /\ k' \in Nat \ {0}
  <2>1. Len(stmt) \in Nat
    BY DEF TypeOK, Stmt
  <2> QED BY <1>1, <1>3, <2>1
<1>5. TypeOK'
  BY <1>1, <1>3, <1>4 DEF TypeOK
<1>6. StageInv'
  BY <1>1, <1>3 DEF StageInv, Found
<1> QED BY <1>5, <1>6

LEMMA PiecesEndInv == Inv /\ PiecesEnd => Inv'
<1> SUFFICES ASSUME Inv, PiecesEnd PROVE Inv'
  OBVIOUS
<1> USE DEF Inv
<1>1. /\ pc = "pieces" /\ k' = 1 /\ pc' \in {"args", "done"}
      /\ UNCHANGED <<server, binding, call, given, stmt, text, out, vals, filled>>
  BY DEF PiecesEnd, Finish, asked
<1>2. TypeOK'
  BY <1>1 DEF TypeOK
<1>3. StageInv'
  BY <1>1 DEF StageInv, Found
<1> QED BY <1>2, <1>3

LEMMA CheckArgsInv == Inv /\ CheckArgs => Inv'
<1> SUFFICES ASSUME Inv, CheckArgs PROVE Inv'
  OBVIOUS
<1> USE DEF Inv
<1>1. /\ pc = "args" /\ pc' \in {"tokens", "done"}
      /\ UNCHANGED <<server, binding, call, given, stmt, k, text, out, vals, filled>>
  BY DEF CheckArgs, Finish, asked
<1>2. k = 1 /\ out = <<>> /\ Len(text) \in Nat
  BY <1>1 DEF StageInv, TypeOK
<1>3. TypeOK'
  BY <1>1, <1>2 DEF TypeOK
<1>4. StageInv'
  BY <1>1, <1>2 DEF StageInv, Found
<1> QED BY <1>3, <1>4

LEMMA CopyTextInv == Inv /\ CopyText => Inv'
<1> SUFFICES ASSUME Inv, CopyText PROVE Inv'
  OBVIOUS
<1> USE DEF Inv
<1>1. /\ pc = "tokens" /\ k \in 1..Len(text) /\ k' = k + 1 /\ out' = Append(out, Text)
      /\ UNCHANGED <<server, binding, call, pc, given, stmt, text, vals, filled>>
  BY DEF CopyText, asked, TypeOK
<1>2. out' \in Seq(Written) /\ Len(out') = Len(out) + 1 /\ Len(out) = k - 1
  BY <1>1, WrittenType DEF TypeOK, StageInv
<1>3. k' \in Nat \ {0} /\ k' <= Len(text) + 1 /\ Len(out') = k' - 1
  <2>1. Len(text) \in Nat
    BY DEF TypeOK
  <2> QED BY <1>1, <1>2, <2>1
<1>4. TypeOK'
  BY <1>1, <1>2, <1>3 DEF TypeOK
<1>5. StageInv'
  BY <1>1, <1>3 DEF StageInv, Found
<1> QED BY <1>4, <1>5

LEMMA BindParamInv == Inv /\ BindParam => Inv'
<1> SUFFICES ASSUME Inv, BindParam PROVE Inv'
  OBVIOUS
<1> USE DEF Inv
<1>1. /\ pc = "tokens" /\ k \in 1..Len(text) /\ binding \in Bindings
      /\ UNCHANGED <<server, binding, call, given, stmt, text, filled>>
  BY DEF BindParam, asked, TypeOK
<1>2. CASE pc' = "done" /\ UNCHANGED <<out, vals, k>>
  <2>1. TypeOK'
    BY <1>1, <1>2 DEF TypeOK
  <2>2. StageInv'
    BY <1>1, <1>2 DEF StageInv, Found
  <2> QED BY <2>1, <2>2
<1>3. CASE /\ ParamErr(text[k].name) = "nil" /\ Writes(Value(text[k].name))
           /\ k' = k + 1 /\ UNCHANGED pc
  <2>1. Joined[Value(text[k].name)] \in Values
    BY <1>1, <1>3, ValueType DEF TypeOK
  <2>2. /\ out' \in Seq(Written) /\ vals' \in Seq(Values)
        /\ Len(out') = Len(out) + 1 /\ Len(out) = k - 1
    BY <1>1, <1>3, <2>1, WritesType DEF TypeOK, StageInv
  <2>3. k' \in Nat \ {0} /\ k' <= Len(text) + 1 /\ Len(out') = k' - 1
    <3>1. Len(text) \in Nat
      BY DEF TypeOK
    <3> QED BY <1>1, <1>3, <2>2, <3>1
  <2>4. TypeOK'
    BY <1>1, <1>3, <2>2, <2>3 DEF TypeOK
  <2>5. StageInv'
    BY <1>1, <1>3, <2>3 DEF StageInv, Found
  <2> QED BY <2>4, <2>5
<1> QED BY <1>2, <1>3 DEF BindParam, Finish

LEMMA ReturnInv == Inv /\ Return => Inv'
<1> SUFFICES ASSUME Inv, Return PROVE Inv'
  OBVIOUS
<1> USE DEF Inv
<1>1. /\ pc = "tokens" /\ pc' \in {"defaults", "done"}
      /\ UNCHANGED <<server, binding, call, given, stmt, k, text, out, vals, filled>>
  BY DEF Return, Finish, asked
<1>2. TypeOK'
  BY <1>1 DEF TypeOK
<1>3. StageInv'
  BY <1>1 DEF StageInv, Found
<1> QED BY <1>2, <1>3

LEMMA DefaultsInv == Inv /\ Defaults => Inv'
<1> SUFFICES ASSUME Inv, Defaults PROVE Inv'
  OBVIOUS
<1> USE DEF Inv
<1>1. /\ pc = "defaults" /\ pc' = "done" /\ binding \in Bindings
      /\ UNCHANGED <<server, binding, call, given, stmt, k, text, out, vals>>
  BY DEF Defaults, Finish, asked, TypeOK
<1>2. filled' \in Maps(Values)
  <2>1. CASE DefaultsErr(binding.params, given) = "nil"
    <3>1. ~Missing(binding.params, given)
      BY <2>1 DEF DefaultsErr
    <3> QED BY <1>1, <2>1, <3>1, FillType DEF Defaults, TypeOK
  <2>2. CASE DefaultsErr(binding.params, given) # "nil"
    BY <2>2 DEF Defaults, TypeOK
  <2> QED BY <2>1, <2>2
<1>3. TypeOK'
  BY <1>1, <1>2 DEF TypeOK
<1>4. StageInv'
  BY <1>1 DEF StageInv, Found
<1> QED BY <1>3, <1>4

LEMMA NextInv == Inv /\ [Next]_vars => Inv'
<1>1. Inv /\ UNCHANGED vars => Inv'
  BY DEF Inv, TypeOK, StageInv, vars
<1> QED
  BY <1>1, ParamsInv, LookupInv, PieceInv, PiecesEndInv, CheckArgsInv, CopyTextInv,
     BindParamInv, ReturnInv, DefaultsInv DEF Next

\* Every variable keeps its type, and the loops over the pieces and the tokens
\* of a statement end where these do (Stmt.Build, bind).
THEOREM TypeCorrect == Spec => []TypeOK
<1>1. Inv => TypeOK
  BY DEF Inv
<1> QED BY InitInv, NextInv, <1>1, PTL DEF Spec

---------------------------------------------------------------------------
(* Values and placeholders. *)

LEMMA ValuesEmpty == TypeOK /\ out = <<>> /\ vals = <<>> => ValuesFollow
<1> SUFFICES ASSUME TypeOK, out = <<>>, vals = <<>> PROVE ValuesFollow
  OBVIOUS
<1>1. Len(text) \in Nat /\ Slots = {}
  BY DEF TypeOK, Slots
<1> QED BY <1>1 DEF ValuesFollow

LEMMA ValuesKept ==
    ASSUME ValuesFollow, UNCHANGED <<binding, given, text, out, vals>>
    PROVE  ValuesFollow'
<1>1. \A w, token : StandsFor(w, token)' <=> StandsFor(w, token)
  BY DEF StandsFor, Value
<1>2. Slots' = Slots
  BY DEF Slots
<1> QED BY <1>1, <1>2 DEF ValuesFollow

\* Something is written, and nothing that stands already is disturbed.
LEMMA ValuesWritten ==
    ASSUME TypeOK, ValuesFollow, UNCHANGED <<binding, given, text>>,
           k \in 1..Len(text), Len(out) = k - 1,
           NEW w \in Written, out' = Append(out, w),
           \A n \in DOMAIN vals : n \in DOMAIN vals' /\ vals'[n] = vals[n],
           NEW token, token = text[k], StandsFor(w, token)'
    PROVE  /\ Len(out') <= Len(text')
           /\ (\A j \in DOMAIN out : StandsFor(out[j], text[j]))'
           /\ out'[k] = w /\ Slots \subseteq 1..(k - 1)
           /\ \A j \in Slots : out'[j] = out[j]
           /\ Slots' = IF w.kind = "slot" THEN Slots \cup {k} ELSE Slots
<1>1. Len(text) \in Nat /\ out \in Seq(Written) /\ Len(out) \in Nat /\ k \in Nat
  BY DEF TypeOK
<1>2. /\ Len(out') = k /\ DOMAIN out' = 1..k /\ DOMAIN out = 1..(k - 1)
      /\ out'[k] = w /\ \A j \in 1..(k - 1) : out'[j] = out[j]
  BY <1>1
<1>3. 1..k = 1..(k - 1) \cup {k} /\ k \notin 1..(k - 1)
  BY <1>1
<1>4. \A v, u : StandsFor(v, u) => StandsFor(v, u)'
  BY DEF StandsFor, Value
<1>5. \A j \in DOMAIN out' : \A v, u : v = out'[j] /\ u = text[j] => StandsFor(v, u)'
  <2> SUFFICES ASSUME NEW j \in DOMAIN out', NEW v, NEW u, v = out'[j], u = text[j]
               PROVE  StandsFor(v, u)'
    OBVIOUS
  <2>1. CASE j = k
    <3>1. v = w /\ u = token
      BY <1>2, <2>1
    <3> QED BY <3>1
  <2>2. CASE j \in DOMAIN out
    <3>1. v = out[j]
      BY <1>2, <2>2
    <3>2. StandsFor(v, u)
      BY <2>2, <3>1 DEF ValuesFollow
    <3> QED BY <1>4, <3>2
  <2> QED BY <1>2, <1>3, <2>1, <2>2
<1>6. Slots \subseteq 1..(k - 1) /\ \A j \in Slots : out'[j] = out[j]
  BY <1>2 DEF Slots
<1>7. Slots' = IF w.kind = "slot" THEN Slots \cup {k} ELSE Slots
  BY <1>2, <1>3 DEF Slots
<1>8. Len(out') <= Len(text')
  BY <1>1, <1>2
<1>9. (\A j \in DOMAIN out : StandsFor(out[j], text[j]))'
  BY <1>5 DEF StandsFor
<1> QED BY <1>2, <1>6, <1>7, <1>8, <1>9

\* A token that is written as itself or as its value leaves the placeholders.
LEMMA ValuesNoSlot ==
    ASSUME TypeOK, ValuesFollow, UNCHANGED <<binding, given, text, vals>>,
           k \in 1..Len(text), Len(out) = k - 1,
           NEW w \in Written, w.kind # "slot", out' = Append(out, w),
           NEW token, token = text[k], StandsFor(w, token)
    PROVE  ValuesFollow'
<1>1. StandsFor(w, token)'
  BY DEF StandsFor, Value
<1>2. /\ Len(out') <= Len(text')
      /\ (\A j \in DOMAIN out : StandsFor(out[j], text[j]))'
      /\ \A j \in Slots : out'[j] = out[j]
      /\ Slots' = Slots
  BY <1>1, ValuesWritten
<1> QED BY <1>2 DEF ValuesFollow

\* The next placeholder is the last and stands for the last value.
LEMMA ValuesSlot ==
    ASSUME TypeOK, ValuesFollow, UNCHANGED <<binding, given, text>>,
           k \in 1..Len(text), Len(out) = k - 1, ~binding.literal,
           NEW token, token = text[k], token.kind # "text",
           NEW v \in Values, v = Joined[Value(token.name)],
           out' = Append(out, Slot(Len(vals) + 1)), vals' = Append(vals, v)
    PROVE  ValuesFollow'
<1>1. vals \in Seq(Values) /\ Len(vals) \in Nat
  BY DEF TypeOK
<1>2. PICK m \in Nat : m = Len(vals) + 1
  BY <1>1
<1>3. /\ DOMAIN vals' = 1..m /\ DOMAIN vals = 1..(m - 1) /\ vals'[m] = v
      /\ \A n \in 1..(m - 1) : vals'[n] = vals[n]
  BY <1>1, <1>2
<1>4. 1..m = 1..(m - 1) \cup {m} /\ m \in 1..m
  BY <1>1, <1>2
<1>5. PICK w \in Written : w = Slot(m) /\ w.kind = "slot" /\ w.n = m
  BY WrittenType DEF Slot
<1>6. StandsFor(w, token)'
  <2>1. Value(token.name)' = Value(token.name)
    BY DEF Value
  <2>2. vals'[m] = Joined[Value(token.name)'] /\ m \in DOMAIN vals' /\ ~binding'.literal
    BY <1>3, <1>4, <2>1
  <2> QED BY <1>5, <2>2 DEF StandsFor
<1>7. out' = Append(out, w)
  BY <1>2, <1>5
<1>8. \A n \in DOMAIN vals : n \in DOMAIN vals' /\ vals'[n] = vals[n]
  BY <1>3, <1>4
<1>9. /\ Len(out') <= Len(text')
      /\ (\A j \in DOMAIN out : StandsFor(out[j], text[j]))'
      /\ out'[k] = w /\ Slots \subseteq 1..(k - 1)
      /\ \A j \in Slots : out'[j] = out[j]
      /\ Slots' = IF w.kind = "slot" THEN Slots \cup {k} ELSE Slots
  BY <1>6, <1>7, <1>8, ValuesWritten
<1>10. Slots' = Slots \cup {k}
  BY <1>5, <1>9
<1>11. \A h \in Slots : out[h].n \in 1..(m - 1)
  BY <1>3 DEF ValuesFollow, Slots, StandsFor
<1>12. \A h, j \in Slots' : h < j => out'[h].n < out'[j].n
  <2> SUFFICES ASSUME NEW h \in Slots', NEW j \in Slots', h < j PROVE out'[h].n < out'[j].n
    OBVIOUS
  <2>1. h \in Slots
    <3>1. k \in Nat
      BY DEF TypeOK
    <3> QED BY <1>9, <1>10, <3>1
  <2>2. out'[h].n = out[h].n /\ out[h].n \in 1..(m - 1)
    BY <1>9, <1>11, <2>1
  <2>3. CASE j = k
    <3>1. out'[j].n = m
      BY <1>5, <1>9, <2>3
    <3>2. m \in Nat
      BY <1>2
    <3>3. \A n \in 1..(m - 1) : n < m
      BY <3>2
    <3> QED BY <2>2, <3>1, <3>3
  <2>4. CASE j \in Slots
    BY <1>9, <2>1, <2>2, <2>4 DEF ValuesFollow
  <2> QED BY <1>10, <2>3, <2>4
<1>13. \A n \in DOMAIN vals' : \E j \in Slots' : out'[j].n = n
  <2> SUFFICES ASSUME NEW n \in DOMAIN vals' PROVE \E j \in Slots' : out'[j].n = n
    OBVIOUS
  <2>1. CASE n = m
    BY <1>5, <1>9, <1>10, <2>1
  <2>2. CASE n \in DOMAIN vals
    BY <1>9, <1>10, <2>2 DEF ValuesFollow
  <2> QED BY <1>3, <1>4, <2>1, <2>2
<1> QED BY <1>9, <1>12, <1>13 DEF ValuesFollow

LEMMA ValuesStep == Inv /\ Inv' /\ ValuesFollow /\ [Next]_vars => ValuesFollow'
<1> SUFFICES ASSUME Inv, Inv', ValuesFollow, [Next]_vars PROVE ValuesFollow'
  OBVIOUS
<1> USE DEF Inv
<1>1. CASE Params \/ Lookup \/ Piece
  <2>1. out = <<>> /\ vals = <<>> /\ UNCHANGED <<out, vals>>
    BY <1>1 DEF Params, Lookup, Piece, StageInv
  <2>2. Len(text)' \in Nat /\ Slots' = {}
    BY <2>1 DEF TypeOK, Slots
  <2> QED BY <2>1, <2>2 DEF ValuesFollow
<1>2. CASE PiecesEnd \/ CheckArgs \/ Return \/ Defaults \/ UNCHANGED vars
  BY <1>2, ValuesKept DEF PiecesEnd, CheckArgs, Return, Defaults, asked, vars
<1>3. CASE CopyText
  <2>1. /\ k \in 1..Len(text) /\ Len(out) = k - 1 /\ out' = Append(out, Text)
        /\ text[k].kind = "text" /\ UNCHANGED <<binding, given, text, vals>>
    BY <1>3 DEF CopyText, asked, TypeOK, StageInv
  <2>2. Text.kind = "text" /\ Text \in Written /\ StandsFor(Text, text[k])
    BY <2>1, WrittenType DEF Text, StandsFor
  <2> QED BY <2>1, <2>2, ValuesNoSlot
<1>4. CASE BindParam
  <2>1. /\ pc = "tokens" /\ k \in 1..Len(text) /\ Len(out) = k - 1 /\ binding \in Bindings
        /\ text[k].kind = "param" /\ UNCHANGED <<binding, given, text>>
    BY <1>4 DEF BindParam, asked, TypeOK, StageInv
  <2>2. CASE UNCHANGED <<out, vals>>
    BY <2>1, <2>2, ValuesKept
  <2>3. CASE ParamErr(text[k].name) = "nil" /\ Writes(Value(text[k].name))
    <3>1. Joined[Value(text[k].name)] \in Values
      BY <2>1, <2>3, ValueType DEF TypeOK
    <3>2. CASE binding.literal
      <4> DEFINE w == Literal(Joined[Value(text[k].name)])
      <4>1. out' = Append(out, w) /\ UNCHANGED vals
        BY <2>3, <3>2 DEF Writes
      <4>2. w \in Written
        BY <3>1, WrittenType
      <4>3. w.kind = "literal" /\ StandsFor(w, text[k])
        BY <2>1, <3>2 DEF Literal, StandsFor
      <4> HIDE DEF w
      <4> QED BY <2>1, <3>2, <4>1, <4>2, <4>3, ValuesNoSlot
    <3>3. CASE ~binding.literal
      <4>1. /\ out' = Append(out, Slot(Len(vals) + 1))
            /\ vals' = Append(vals, Joined[Value(text[k].name)])
        BY <2>3, <3>3 DEF Writes
      <4> QED BY <2>1, <3>1, <3>3, <4>1, ValuesSlot
    <3> QED BY <3>2, <3>3
  <2> QED BY <1>4, <2>2, <2>3 DEF BindParam
<1> QED BY <1>1, <1>2, <1>3, <1>4 DEF Next

\* Whatever the statement names, however often and in whatever order, each
\* placeholder stands for the value of the parameter named in its place (bind).
THEOREM ValuesCorrect == Spec => []ValuesFollow
<1>1. Init => ValuesFollow
  BY InitInv, ValuesEmpty DEF Init, Inv
<1> QED BY InitInv, NextInv, ValuesStep, <1>1, PTL DEF Spec

---------------------------------------------------------------------------
(* What Each passes, and what Keep and a walk see. *)

\* What a step leaves alone.
LEMMA StepKeeps ==
    [Next]_vars =>
        /\ UNCHANGED <<server, binding, call>>
        /\ pc \notin {"params", "lookup"} => UNCHANGED <<given, stmt>>
        /\ pc \notin {"params", "lookup", "pieces"} => UNCHANGED text
        /\ pc = "done" => UNCHANGED vars
<1>1. Next => UNCHANGED <<server, binding, call>>
  BY DEF Next, Params, Lookup, Piece, PiecesEnd, CheckArgs, CopyText, BindParam, Return,
         Defaults, asked
<1>2. Next /\ pc \notin {"params", "lookup"} => UNCHANGED <<given, stmt>>
  BY DEF Next, Params, Lookup, Piece, PiecesEnd, CheckArgs, CopyText, BindParam, Return,
         Defaults
<1>3. Next /\ pc \notin {"params", "lookup", "pieces"} => UNCHANGED text
  BY DEF Next, Params, Lookup, Piece, PiecesEnd, CheckArgs, CopyText, BindParam, Return,
         Defaults
<1>4. Next => pc # "done"
  BY DEF Next, Params, Lookup, Piece, PiecesEnd, CheckArgs, CopyText, BindParam, Return,
         Defaults
<1> QED BY <1>1, <1>2, <1>3, <1>4 DEF vars

\* What a step that ends the way ends it with.
LEMMA EndsWith ==
    ASSUME Inv, Next, pc' = "done"
    PROVE  \/ pc \in {"params", "lookup"} /\ LookupErr(binding, server) # "nil"
                /\ err' = LookupErr(binding, server)
           \/ pc = "lookup" /\ LookupErr(binding, server) = "nil"
                /\ err' = "ErrSeveralStatements"
           \/ pc = "pieces" /\ k \in 1..Len(stmt) /\ stmt[k][server].err # "nil"
                /\ err' = stmt[k][server].err /\ UNCHANGED text
           \/ pc = "pieces" /\ k > Len(stmt) /\ text = <<>> /\ err' = "ErrEmptyQuery"
                /\ UNCHANGED text
           \/ pc = "args" /\ Unknown(binding.params, given) /\ err' = "ErrUnknownParam"
           \/ pc = "tokens" /\ k \in 1..Len(text) /\ text[k].kind = "param"
                /\ ParamErr(text[k].name) # "nil" /\ err' = ParamErr(text[k].name)
           \/ pc = "tokens" /\ k > Len(text) /\ ~(call.how # "Build" /\ binding.keep)
                /\ err' = "nil"
           \/ pc = "defaults" /\ err' = DefaultsErr(binding.params, given)
<1>1. k \in Nat \ {0}
  BY DEF Inv, TypeOK
<1>2. CASE Params
  BY <1>2 DEF Params, Finish
<1>3. CASE Lookup
  BY <1>3 DEF Lookup, Finish
<1>4. CASE Piece
  BY <1>1, <1>4 DEF Piece, Finish
<1>5. CASE PiecesEnd
  BY <1>5 DEF PiecesEnd, Finish
<1>6. CASE CheckArgs
  BY <1>6 DEF CheckArgs, Finish
<1>7. CASE CopyText
  BY <1>7 DEF CopyText
<1>8. CASE BindParam
  BY <1>1, <1>8 DEF BindParam, Finish
<1>9. CASE Return
  BY <1>9 DEF Return, Finish
<1>10. CASE Defaults
  BY <1>10 DEF Defaults, Finish
<1> QED BY <1>2, <1>3, <1>4, <1>5, <1>6, <1>7, <1>8, <1>9, <1>10 DEF Next

\* What Each passes on is what the query takes.
EachInv ==
    call.how = "Each" /\ pc \in Found \cup {"lookup"} => DOMAIN given \subseteq DOMAIN binding.params

LEMMA EachStep ==
    Inv /\ EachInv /\ EachNeverRefused /\ [Next]_vars => EachInv' /\ EachNeverRefused'
<1> SUFFICES ASSUME Inv, EachInv, EachNeverRefused, [Next]_vars
             PROVE  EachInv' /\ EachNeverRefused'
  OBVIOUS
<1>1. CASE UNCHANGED vars
  BY <1>1 DEF vars, EachInv, EachNeverRefused, Declared, Found
<1>2. CASE Next
  <2>1. EachInv'
    <3>1. CASE pc = "params"
      <4>1. CASE LookupErr(binding, server) = "nil"
        <5>1. binding \in Bindings /\ call.args \in Maps(Values) /\ given' = Taken(binding, call.args)
          BY <1>2, <3>1, <4>1, LookupFinds, StatementAssumption
          DEF Inv, TypeOK, Next, Params, Lookup, Piece, PiecesEnd, CheckArgs, CopyText,
              BindParam, Return, Defaults, Call
        <5> QED BY <1>2, <5>1, TakenType, StepKeeps DEF EachInv
      <4>2. CASE LookupErr(binding, server) # "nil"
        <5>1. pc' = "done"
          BY <1>2, <3>1, <4>2
          DEF Next, Params, Lookup, Piece, PiecesEnd, CheckArgs, CopyText, BindParam,
              Return, Defaults, Finish
        <5> QED BY <5>1 DEF EachInv, Found
      <4> QED BY <4>1, <4>2
    <3>2. CASE pc = "lookup"
      <4>1. UNCHANGED given
        BY <1>2, <3>2
        DEF Next, Params, Lookup, Piece, PiecesEnd, CheckArgs, CopyText, BindParam,
            Return, Defaults
      <4> QED BY <1>2, <3>2, <4>1, StepKeeps DEF EachInv
    <3>3. CASE pc \notin {"params", "lookup"}
      <4>1. pc \in Found \cup {"done"}
        BY <3>3 DEF Inv, TypeOK, Found
      <4>2. pc # "done"
        BY <1>2 DEF Next, Params, Lookup, Piece, PiecesEnd, CheckArgs, CopyText, BindParam,
                    Return, Defaults
      <4> QED BY <1>2, <3>3, <4>1, <4>2, StepKeeps DEF EachInv
    <3> QED BY <3>1, <3>2, <3>3
  <2>2. ASSUME pc' = "done", call.how = "Each", err' = "ErrUnknownParam"
        PROVE  \E j \in DOMAIN text' : ~Declared(j)'
    <3>1. pc \in Found => ~Unknown(binding.params, given)
      BY <2>2 DEF EachInv, Unknown
    <3>2. pc = "pieces" /\ k \in 1..Len(stmt) => stmt[k][server].err # "ErrUnknownParam"
      BY StmtPiece DEF Inv, TypeOK
    <3>3. pc = "tokens" /\ k \in 1..Len(text) /\ ParamErr(text[k].name) = "ErrUnknownParam"
             /\ text[k].kind = "param"
      BY <1>2, <2>2, <3>1, <3>2, EndsWith, LookupErrs DEF Found, DefaultsErr
    <3>4. text[k].name \notin binding.derived \cup DOMAIN binding.params
      BY <3>3 DEF ParamErr
    <3>5. UNCHANGED <<binding, text>> /\ k \in DOMAIN text
      BY <1>2, <3>3, StepKeeps DEF Inv, TypeOK
    <3>6. PICK j \in DOMAIN text' :
             text'[j].kind = "param" /\ text'[j].name \notin binding'.derived \cup DOMAIN binding'.params
      BY <3>3, <3>4, <3>5
    <3> QED BY <3>6 DEF Declared
  <2>3. EachNeverRefused'
    BY <1>2, <2>2, StepKeeps DEF EachNeverRefused
  <2> QED BY <2>1, <2>3
<1> QED BY <1>1, <1>2

\* One set of arguments asks every query, and none refuses it (Query.Each).
THEOREM EachCorrect == Spec => []EachNeverRefused
<1>1. Init => EachInv /\ EachNeverRefused
  BY DEF Init, EachInv, EachNeverRefused, Found
<1> QED BY InitInv, NextInv, EachStep, <1>1, PTL DEF Spec

\* What withDefaults fills in is what bind binds.
LEMMA FillIsBound ==
    ASSUME binding \in Bindings, DefaultsErr(binding.params, given) = "nil",
           NEW n \in DOMAIN binding.params
    PROVE  Fill(binding.params, given)[n] = Joined[Value(n)]
<1>1. n \notin binding.derived
  BY StatementAssumption
<1>2. CASE n \in DOMAIN given
  BY <1>1, <1>2 DEF Fill, Value
<1>3. CASE n \notin DOMAIN given
  <2>1. binding.params[n] # NoDefault
    BY <1>3 DEF DefaultsErr, Missing
  <2>2. Joined[binding.params[n]] = binding.params[n]
    BY <2>1, StatementAssumption
  <2> QED BY <1>1, <1>3, <2>2 DEF Fill, Value
<1> QED BY <1>2, <1>3

LEMMA SeesStep == Inv /\ SeesWhatIsBound /\ [Next]_vars => SeesWhatIsBound'
<1> SUFFICES ASSUME Inv, SeesWhatIsBound, [Next]_vars PROVE SeesWhatIsBound'
  OBVIOUS
<1>1. CASE UNCHANGED vars
  BY <1>1 DEF vars, SeesWhatIsBound, Value
<1>2. CASE Next
  <2> SUFFICES ASSUME pc' = "done", err' = "nil", call.how # "Build",
                      binding.keep \/ binding.walk, NEW n \in DOMAIN binding.params
               PROVE  filled'[n] = Joined[Value(n)']
    BY <1>2, StepKeeps DEF SeesWhatIsBound
  <2>1. pc = "pieces" /\ k \in 1..Len(stmt) /\ stmt[k][server].err # "nil" => FALSE
    BY <1>2, EndsWith DEF Inv, TypeOK
  <2>2. pc = "tokens" => ~binding.walk
    BY DEF Inv, StageInv
  <2>3. pc = "tokens" /\ k \in 1..Len(text) /\ ParamErr(text[k].name) # "nil" => FALSE
    BY <1>2, EndsWith DEF Inv, TypeOK
  <2>4. pc = "defaults" /\ DefaultsErr(binding.params, given) = "nil"
    BY <1>2, <2>1, <2>2, <2>3, EndsWith, LookupErrs
  <2>5. binding \in Bindings
    BY <2>4 DEF Inv, TypeOK
  <2>6. filled' = Fill(binding.params, given) /\ UNCHANGED <<binding, given>>
    BY <1>2, <2>4 DEF Next, Params, Lookup, Piece, PiecesEnd, CheckArgs, CopyText,
                      BindParam, Return, Defaults, asked
  <2>7. Value(n)' = Value(n)
    BY <2>6 DEF Value
  <2> QED BY <2>4, <2>5, <2>6, <2>7, FillIsBound
<1> QED BY <1>1, <1>2

\* What Keep and a walk see of an argument is what a statement binds of it
\* (withDefaults, bind).
THEOREM SeesCorrect == Spec => []SeesWhatIsBound
<1>1. Init => SeesWhatIsBound
  BY DEF Init, SeesWhatIsBound
<1> QED BY InitInv, NextInv, SeesStep, <1>1, PTL DEF Spec

---------------------------------------------------------------------------
(* What Support says. *)

TooOldOrNot == {"ErrNotSupported", "ErrVersionTooOld"}

\* The first piece that fails is why there is no statement (Stmt.Build).
LEMMA FirstFailure ==
    ASSUME NEW st \in Stmt, NEW s \in Servers, NEW j \in 1..Len(st), st[j][s].err # "nil",
           \A h \in 1..(j - 1) : st[h][s].err = "nil"
    PROVE  BuildErr(st, s) = st[j][s].err
<1> DEFINE bad == { i \in DOMAIN st : st[i][s].err # "nil" }
           n == CHOOSE i \in bad : \A h \in bad : i <= h
<1>1. DOMAIN st = 1..Len(st) /\ Len(st) \in Nat
  BY DEF Stmt
<1>2. bad \subseteq Nat /\ j \in bad /\ \A i \in bad : j <= i
  BY <1>1
<1>3. n = j
  <2> HIDE DEF bad
  <2>1. n \in bad /\ \A h \in bad : n <= h
    BY <1>2, FirstOf
  <2>2. n <= j /\ j <= n /\ n \in Nat /\ j \in Nat
    BY <1>2, <2>1
  <2> HIDE DEF n
  <2> QED BY <2>2
<1> QED BY <1>2, <1>3 DEF BuildErr

\* Pieces that do not fail make a statement, or an empty one.
LEMMA NoFailure ==
    ASSUME NEW st \in Stmt, NEW s \in Servers, \A j \in 1..Len(st) : st[j][s].err = "nil"
    PROVE  BuildErr(st, s) \in {"nil", "ErrEmptyQuery"}
<1>1. DOMAIN st = 1..Len(st)
  BY DEF Stmt
<1> QED BY <1>1 DEF BuildErr

SupportInv ==
    /\ pc = "pieces" => \A j \in 1..(k - 1) : stmt[j][server].err = "nil"
    /\ pc \in {"args", "tokens", "defaults"} => BuildErr(stmt, server) \notin TooOldOrNot

LEMMA SupportInvStep == Inv /\ SupportInv /\ [Next]_vars => SupportInv'
<1> SUFFICES ASSUME Inv, SupportInv, [Next]_vars PROVE SupportInv'
  OBVIOUS
<1> USE DEF Inv
<1>1. CASE UNCHANGED vars
  BY <1>1 DEF vars, SupportInv
<1>2. CASE Params
  <2>1. pc' \in {"lookup", "done"}
    BY <1>2 DEF Params, Finish
  <2> QED BY <2>1 DEF SupportInv
<1>3. CASE Lookup
  <2>1. CASE pc' = "done"
    BY <2>1 DEF SupportInv
  <2>2. CASE pc' = "pieces"
    <3>1. k' = 1
      BY <1>3 DEF Lookup, StageInv
    <3> QED BY <2>2, <3>1 DEF SupportInv
  <2>3. CASE pc' = "defaults"
    <3>1. /\ LookupErr(binding, server) = "nil" /\ binding.walk
          /\ stmt' = Chosen(binding, given) /\ UNCHANGED server
      BY <1>3, <2>3 DEF Lookup, Finish, asked
    <3>2. binding \in Bindings
      BY <3>1, LookupFinds DEF TypeOK
    <3>3. binding.stmt = <<>> /\ binding.variants = <<>>
      BY <3>1, <3>2, StatementAssumption
    <3>4. stmt' = <<>>
      BY <3>1, <3>3 DEF Chosen
    <3>5. BuildErr(<<>>, server) \in {"nil", "ErrEmptyQuery"}
      BY DEF BuildErr
    <3> QED BY <2>3, <3>1, <3>4, <3>5 DEF SupportInv, TooOldOrNot
  <2> QED BY <1>3, <2>1, <2>2, <2>3 DEF Lookup, Finish
<1>4. CASE Piece
  <2>1. CASE pc' = "done"
    BY <2>1 DEF SupportInv
  <2>2. CASE pc' # "done"
    <3>1. /\ pc = "pieces" /\ pc' = "pieces" /\ stmt[k][server].err = "nil" /\ k' = k + 1
          /\ UNCHANGED <<stmt, server>> /\ k \in Nat \ {0}
      BY <1>4, <2>2 DEF Piece, Finish, asked, TypeOK
    <3>2. \A j \in 1..(k' - 1) : j = k \/ j \in 1..(k - 1)
      BY <3>1
    <3> QED BY <3>1, <3>2 DEF SupportInv
  <2> QED BY <2>1, <2>2
<1>5. CASE PiecesEnd
  <2>1. /\ pc = "pieces" /\ k > Len(stmt) /\ UNCHANGED <<stmt, server>>
        /\ pc' \in {"args", "done"}
    BY <1>5 DEF PiecesEnd, Finish, asked
  <2>2. \A j \in 1..Len(stmt) : j \in 1..(k - 1)
    BY <2>1 DEF TypeOK, Stmt
  <2>3. BuildErr(stmt, server) \in {"nil", "ErrEmptyQuery"}
    BY <2>1, <2>2, NoFailure DEF SupportInv, TypeOK
  <2> QED BY <2>1, <2>3 DEF SupportInv, TooOldOrNot
<1>6. CASE CheckArgs \/ CopyText \/ BindParam \/ Return \/ Defaults
  <2>1. pc \in {"args", "tokens", "defaults"} /\ pc' # "pieces" /\ UNCHANGED <<stmt, server>>
    BY <1>6 DEF CheckArgs, CopyText, BindParam, Return, Defaults, Finish, asked
  <2> QED BY <2>1 DEF SupportInv
<1> QED BY <1>1, <1>2, <1>3, <1>4, <1>5, <1>6 DEF Next

\* A query that is refused before its statement is made is refused as Support
\* says, and one that is not is not.
LEMMA SupportIsLookup ==
    ASSUME NEW b, NEW s
    PROVE  /\ Support(b, s) = "NotBuilt" <=> LookupErr(b, s) = "ErrModelNotBuilt"
           /\ Support(b, s) = "NotSupported" <=> LookupErr(b, s) = "ErrNotSupported"
           /\ Support(b, s) \in {"TooOld", "Supported"} <=> LookupErr(b, s) = "nil"
           /\ Support(b, s) \in {"NotBuilt", "NotSupported", "TooOld", "Supported"}
  BY DEF LookupErr, Support

\* Where the lookup finds a binding, Support says what building it says.
LEMMA SupportIsBuild ==
    ASSUME NEW b, NEW s, LookupErr(b, s) = "nil"
    PROVE  Support(b, s) = IF BuildErr(b.stmt, s) = "ErrVersionTooOld" THEN "TooOld" ELSE "Supported"
  BY DEF LookupErr, Support

\* What the end of asking has to say of a query that the lookup found.
LEMMA SupportEnd ==
    ASSUME Inv, SupportInv, Next, pc' = "done", LookupErr(binding, server) = "nil"
    PROVE  /\ Plain /\ BuildErr(binding.stmt, server) = "ErrVersionTooOld"
                => err' = "ErrVersionTooOld" \/ pc = "lookup"
           /\ Plain /\ BuildErr(binding.stmt, server) # "ErrVersionTooOld"
                => err' \notin {"ErrModelNotBuilt", "ErrNotSupported", "ErrVersionTooOld"}
<1> USE DEF Inv
<1>1. BuildErr(binding.stmt, server) # "ErrNotSupported"
  BY DEF LookupErr, Support
<1> SUFFICES ASSUME Plain, pc # "lookup"
             PROVE  \/ err' = "ErrVersionTooOld"
                        /\ BuildErr(binding.stmt, server) = "ErrVersionTooOld"
                    \/ err' \notin {"ErrModelNotBuilt", "ErrNotSupported", "ErrVersionTooOld"}
                        /\ BuildErr(binding.stmt, server) # "ErrVersionTooOld"
  <2>1. pc = "lookup" => err' = "ErrSeveralStatements"
    BY EndsWith
  <2> QED BY <2>1
<1>2. pc \in Found /\ stmt = binding.stmt
  <2>1. pc \in Found
    BY EndsWith DEF Found
  <2> QED BY <2>1 DEF StageInv, Plain
<1>3. CASE pc = "pieces"
  <2>1. CASE k \in 1..Len(stmt) /\ stmt[k][server].err # "nil" /\ err' = stmt[k][server].err
    <3>1. BuildErr(stmt, server) = err'
      BY <1>3, <2>1, FirstFailure DEF SupportInv, TypeOK
    <3>2. err' \in {"ErrNotSupported", "ErrVersionTooOld", "ErrAmbiguousFragment"}
      BY <2>1, StmtPiece DEF TypeOK
    <3> QED BY <1>1, <1>2, <3>1, <3>2
  <2>2. CASE k > Len(stmt) /\ err' = "ErrEmptyQuery"
    <3>1. \A j \in 1..Len(stmt) : j \in 1..(k - 1)
      BY <2>2 DEF TypeOK, Stmt
    <3>2. BuildErr(stmt, server) \in {"nil", "ErrEmptyQuery"}
      BY <1>3, <3>1, NoFailure DEF SupportInv, TypeOK
    <3> QED BY <1>2, <2>2, <3>2
  <2> QED BY <1>3, <2>1, <2>2, EndsWith
<1>4. CASE pc \in {"args", "tokens", "defaults"}
  <2>1. BuildErr(binding.stmt, server) # "ErrVersionTooOld"
    BY <1>2, <1>4 DEF SupportInv, TooOldOrNot
  <2>2. \A name : ParamErr(name) \in {"ErrUnknownParam", "ErrMissingParam", "ErrInvalidParam", "nil"}
    BY DEF ParamErr
  <2>3. DefaultsErr(binding.params, given) \in {"ErrUnknownParam", "ErrMissingParam", "nil"}
    BY DEF DefaultsErr
  <2> QED BY <1>4, <2>1, <2>2, <2>3, EndsWith
<1> QED BY <1>2, <1>3, <1>4 DEF Found

LEMMA SupportStep == Inv /\ SupportInv /\ SupportTells /\ [Next]_vars => SupportTells'
<1> SUFFICES ASSUME Inv, SupportInv, SupportTells, [Next]_vars PROVE SupportTells'
  OBVIOUS
<1>1. CASE UNCHANGED vars
  BY <1>1 DEF vars, SupportTells, Plain
<1>2. CASE Next
  <2> SUFFICES ASSUME pc' = "done" PROVE SupportTells'
    BY DEF SupportTells
  <2>1. UNCHANGED <<server, binding>>
    BY <1>2, StepKeeps
  <2>2. CASE LookupErr(binding, server) # "nil"
    <3>1. pc \in {"params", "lookup"}
      <4>1. pc \notin Found
        BY <2>2 DEF Inv, StageInv
      <4>2. pc # "done"
        BY <1>2 DEF Next, Params, Lookup, Piece, PiecesEnd, CheckArgs, CopyText, BindParam,
                    Return, Defaults
      <4> QED BY <4>1, <4>2 DEF Inv, TypeOK, Found
    <3>2. err' = LookupErr(binding, server)
      BY <1>2, <2>2, <3>1, EndsWith
    <3> QED BY <2>1, <2>2, <3>2, SupportIsLookup, LookupErrs DEF SupportTells
  <2>3. CASE LookupErr(binding, server) = "nil"
    <3>1. pc # "params"
      <4>1. pc = "params" => LookupErr(binding, server) # "nil"
        BY <1>2, EndsWith
      <4> QED BY <2>3, <4>1
    <3>2. UNCHANGED given
      BY <1>2, <3>1 DEF Next, Params, Lookup, Piece, PiecesEnd, CheckArgs, CopyText,
                        BindParam, Return, Defaults
    <3>3. Plain' <=> Plain
      BY <2>1, <3>2 DEF Plain
    <3>4. pc = "lookup" => BuildErr(binding.stmt, server) # "ErrVersionTooOld"
      <4> SUFFICES ASSUME pc = "lookup" PROVE BuildErr(binding.stmt, server) # "ErrVersionTooOld"
        OBVIOUS
      <4>1. binding.walk /\ binding \in Bindings
        BY <1>2, <2>3, LookupFinds
        DEF Inv, TypeOK, Next, Params, Lookup, Piece, PiecesEnd, CheckArgs, CopyText,
            BindParam, Return, Defaults, Finish
      <4>2. binding.stmt = <<>>
        BY <4>1, StatementAssumption
      <4>3. BuildErr(<<>>, server) \in {"nil", "ErrEmptyQuery"}
        BY DEF BuildErr
      <4> QED BY <4>2, <4>3
    <3>5. CASE BuildErr(binding.stmt, server) = "ErrVersionTooOld"
      <4>1. Support(binding, server) = "TooOld"
        BY <2>3, <3>5, SupportIsBuild
      <4>2. Plain => err' = "ErrVersionTooOld"
        BY <1>2, <2>3, <3>4, <3>5, SupportEnd
      <4> QED BY <2>1, <3>3, <4>1, <4>2 DEF SupportTells
    <3>6. CASE BuildErr(binding.stmt, server) # "ErrVersionTooOld"
      <4>1. Support(binding, server) = "Supported"
        BY <2>3, <3>6, SupportIsBuild
      <4>2. Plain => err' \notin {"ErrModelNotBuilt", "ErrNotSupported", "ErrVersionTooOld"}
        BY <1>2, <2>3, <3>6, SupportEnd
      <4> QED BY <2>1, <3>3, <4>1, <4>2 DEF SupportTells
    <3> QED BY <3>5, <3>6
  <2> QED BY <2>2, <2>3
<1> QED BY <1>1, <1>2

\* What Support says of a query is what asking it finds (Query.Support, lookup,
\* Stmt.Build), whatever the pieces of the statement and whatever the server.
THEOREM SupportCorrect == Spec => []SupportTells
<1>1. Init => SupportInv /\ SupportTells
  BY DEF Init, SupportInv, SupportTells
<1> QED BY InitInv, NextInv, SupportInvStep, SupportStep, <1>1, PTL DEF Spec

---------------------------------------------------------------------------
(* What is refused. *)

\* The tokens that bind has passed were not refused.
RefusesInv ==
    pc = "tokens" =>
        /\ ~Unknown(binding.params, given)
        /\ \A j \in 1..(k - 1) : text[j].kind = "param" => ParamErr(text[j].name) = "nil"

LEMMA RefusesInvStep == Inv /\ RefusesInv /\ [Next]_vars => RefusesInv'
<1> SUFFICES ASSUME Inv, RefusesInv, [Next]_vars, pc' = "tokens" PROVE RefusesInv'
  BY DEF RefusesInv
<1>1. CASE UNCHANGED vars
  BY <1>1 DEF vars, RefusesInv, ParamErr, Value
<1>2. CASE CheckArgs
  <2>1. k' = 1 /\ ~Unknown(binding.params, given) /\ UNCHANGED <<binding, given>>
    BY <1>2 DEF CheckArgs, Finish, asked, Inv, StageInv
  <2> QED BY <2>1 DEF RefusesInv
<1>3. CASE CopyText \/ BindParam
  <2>1. /\ pc = "tokens" /\ k' = k + 1 /\ k \in Nat \ {0}
        /\ UNCHANGED <<binding, given, text>>
        /\ text[k].kind = "param" => ParamErr(text[k].name) = "nil"
    BY <1>3 DEF CopyText, BindParam, Finish, asked, Inv, TypeOK
  <2>2. \A n : ParamErr(n)' = ParamErr(n)
    BY <2>1 DEF ParamErr, Value
  <2>3. \A j \in 1..(k' - 1) : j = k \/ j \in 1..(k - 1)
    BY <2>1
  <2>4. \A j \in 1..(k' - 1) : \A n : text[j].kind = "param" /\ n = text[j].name => ParamErr(n)' = "nil"
    BY <2>1, <2>2, <2>3 DEF RefusesInv
  <2>5. (\A j \in 1..(k - 1) : text[j].kind = "param" => ParamErr(text[j].name) = "nil")'
    BY <2>1, <2>4 DEF ParamErr, Value
  <2>6. ~Unknown(binding.params, given)'
    BY <2>1 DEF RefusesInv
  <2> QED BY <2>5, <2>6 DEF RefusesInv
<1> QED BY <1>1, <1>2, <1>3 DEF Next, Params, Lookup, Piece, PiecesEnd, Return, Defaults, Finish

LEMMA RefusesStep == Inv /\ RefusesInv /\ RefusesAlike /\ [Next]_vars => RefusesAlike'
<1> SUFFICES ASSUME Inv, RefusesInv, RefusesAlike, [Next]_vars PROVE RefusesAlike'
  OBVIOUS
<1>1. CASE UNCHANGED vars
  BY <1>1 DEF vars, RefusesAlike, Declared, NamesAll
<1>2. CASE Next
  <2> SUFFICES ASSUME pc' = "done", err' \in {"nil", "ErrUnknownParam", "ErrMissingParam"},
                      (\A j \in DOMAIN text : Declared(j))', NamesAll'
               PROVE  err' = DefaultsErr(binding.params, given)'
    BY DEF RefusesAlike
  <2>1. pc \notin {"params", "lookup"}
    BY <1>2, EndsWith, LookupErrs
  <2>2. pc # "pieces"
    <3>1. pc = "pieces" /\ k \in 1..Len(stmt) /\ stmt[k][server].err # "nil"
             => stmt[k][server].err \notin {"nil", "ErrUnknownParam", "ErrMissingParam"}
      BY StmtPiece DEF Inv, TypeOK
    <3> QED BY <1>2, <3>1, EndsWith
  <2>3. UNCHANGED <<binding, given, text>>
    BY <1>2, <2>1, <2>2, StepKeeps
  <2>4. CASE pc = "defaults"
    BY <1>2, <2>3, <2>4, EndsWith
  <2>5. CASE pc = "args"
    BY <1>2, <2>3, <2>5, EndsWith DEF DefaultsErr
  <2>6. CASE pc = "tokens"
    <3>1. ~Unknown(binding.params, given) /\ Len(text) \in Nat /\ DOMAIN text = 1..Len(text)
          /\ binding \in Bindings
      BY <2>6 DEF RefusesInv, Inv, TypeOK
    <3>2. CASE k \in 1..Len(text) /\ text[k].kind = "param" /\ err' = ParamErr(text[k].name)
               /\ ParamErr(text[k].name) # "nil"
      <4>1. text[k].name \in binding.derived \cup DOMAIN binding.params
        BY <2>3, <3>1, <3>2 DEF Declared
      <4>2. err' = "ErrMissingParam" /\ Missing(binding.params, given)
        BY <3>2, <4>1 DEF ParamErr, Missing
      <4> QED BY <2>3, <3>1, <4>2 DEF DefaultsErr
    <3>3. CASE k > Len(text) /\ err' = "nil"
      <4>1. ASSUME NEW n \in DOMAIN binding.params
            PROVE  n \in DOMAIN given \/ binding.params[n] # NoDefault
        <5>1. PICK j \in 1..Len(text) : text[j].kind = "param" /\ text[j].name = n
          BY <2>3, <3>1 DEF NamesAll
        <5>2. j \in 1..(k - 1)
          BY <3>1, <3>3, <5>1 DEF Inv, TypeOK
        <5>3. ParamErr(n) = "nil"
          BY <2>6, <5>1, <5>2 DEF RefusesInv
        <5>4. n \notin binding.derived
          BY <3>1, StatementAssumption
        <5> QED BY <5>3, <5>4 DEF ParamErr
      <4>2. ~Missing(binding.params, given)
        BY <4>1 DEF Missing
      <4> QED BY <2>3, <3>1, <3>3, <4>2 DEF DefaultsErr
    <3> QED BY <1>2, <2>6, <3>2, <3>3, EndsWith
  <2> QED BY <1>2, <2>1, <2>2, <2>4, <2>5, <2>6 DEF Inv, TypeOK, Next, Params, Lookup, Piece,
             PiecesEnd, CheckArgs, CopyText, BindParam, Return, Defaults
<1> QED BY <1>1, <1>2

\* A statement refuses the arguments that withDefaults refuses, and says the
\* same of them, where it names every parameter and no other (bind, withDefaults).
THEOREM RefusesCorrect == Spec => []RefusesAlike
<1>1. Init => RefusesInv /\ RefusesAlike
  BY DEF Init, RefusesInv, RefusesAlike
<1> QED BY InitInv, NextInv, RefusesInvStep, RefusesStep, <1>1, PTL DEF Spec

=============================================================================
