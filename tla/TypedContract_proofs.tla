------------------------ MODULE TypedContract_proofs ------------------------
(***************************************************************************)
(* What holds of typed contracts for every set of sources and contracts,   *)
(* limits, strings and depths of nesting.  First the schema: the types of  *)
(* a state, the shapes of functions and the schema in storage are what the *)
(* documentation says.  Then the state: what the analyser admits the codec *)
(* takes, a captured value has the type it had, and, where every string is *)
(* UTF-8, an operation starts from the state the last one left, which      *)
(* queries tell from any other.                                            *)
(*                                                                         *)
(* Expressions, types and values are defined level by level: module        *)
(* Recursion gives the equations, and a claim about all of them is one     *)
(* about each level, by LevelInduction or BoundedInduction.  The structs   *)
(* that are supported are defined by the structs being resolved, and are   *)
(* compared with the least set the documentation allows in                 *)
(* SupportedAreDocumented.                                                 *)
(***************************************************************************)
EXTENDS PersistedSchema, SnapshotCodec, SequenceTheorems, FiniteSetTheorems, TLAPS

---------------------------------------------------------------------------
(* Levels: the recursive definitions satisfy their equations.              *)

(* The levels of a definition by recursion. *)
Levels(p) == 0..Nesting
Level(p, n) == n

ExprsAt(p, at, n) ==
    IF n = 0 THEN {}
    ELSE [form : {"ident", "other"}, name : STRING]
           \cup [form : {"map"}, key : at[n - 1], elem : at[n - 1]]
           \cup [form : {"slice"}, elem : at[n - 1]]
           \cup [form : {"struct"}, fields : Seq(at[n - 1]), embedded : BOOLEAN]

OfExprs == INSTANCE Recursion WITH S <- Levels, Rank <- Level, Def <- ExprsAt

(* The sets of expressions by their nesting. *)
LEMMA ExprsByLevel ==
    \A n \in 0..Nesting : ExprsTo[n] = ExprsAt(<<>>, ExprsTo, n)
<1>1. OfExprs!Ranked(<<>>) /\ OfExprs!Descends(<<>>)
  BY NestingAssumption DEF OfExprs!Ranked, OfExprs!Descends, Levels, Level, ExprsAt
<1>2. ExprsTo = CHOOSE g : OfExprs!Defines(<<>>, g)
  BY DEF ExprsTo, OfExprs!Defines, Levels, ExprsAt
<1>3. OfExprs!Defines(<<>>, ExprsTo)
  BY <1>1, <1>2, OfExprs!Recursion
<1> QED BY <1>3 DEF OfExprs!Defines, Levels

ResolveAt(p, at, n) ==
    IF n = 0 THEN <<>>
    ELSE [e \in ExprsTo[n] |->
            CASE e.form = "ident" -> ResolveIdent(p, e.name)
              [] e.form = "map" -> MapOf(at[n - 1][e.key], at[n - 1][e.elem])
              [] e.form = "slice" -> SliceOf(at[n - 1][e.elem])
              [] e.form = "struct" ->
                    Struct("", [i \in 1..Len(e.fields) |-> at[n - 1][e.fields[i]]])
              [] e.form = "other" -> Opaque(e.name, TRUE)]

OfResolve == INSTANCE Recursion WITH S <- Levels, Rank <- Level, Def <- ResolveAt

(* ResolveTypeExpr, by the nesting of the expression. *)
LEMMA ResolveByLevel ==
    ASSUME NEW declared
    PROVE  \E at :
              /\ \A n \in 0..Nesting : at[n] = ResolveAt(declared, at, n)
              /\ \A e : ResolveTypeExpr(declared, e) = at[Nesting][e]
<1> DEFINE p == declared
           at == CHOOSE g : g = [n \in 0..Nesting |-> ResolveAt(p, g, n)]
<1>1. OfResolve!Ranked(p) /\ OfResolve!Descends(p)
  BY NestingAssumption
     DEF OfResolve!Ranked, OfResolve!Descends, Levels, Level, ResolveAt
<1>2. at = CHOOSE g : OfResolve!Defines(p, g)
  BY DEF OfResolve!Defines, Levels
<1>3. OfResolve!Defines(p, at)
  <2> HIDE DEF at
  <2> QED BY <1>1, <1>2, OfResolve!Recursion
<1>4. \A e : ResolveTypeExpr(declared, e) = at[Nesting][e]
  BY DEF ResolveTypeExpr, ResolveAt
<1> HIDE DEF at
<1> QED BY <1>3, <1>4 DEF OfResolve!Defines, Levels

TypesAt(p, at, n) ==
    IF n = 0 THEN {}
    ELSE [kind : {"scalar"}, scalar : Scalars]
           \cup [kind : {"named"}, name : STRING]
           \cup [kind : {"opaque"}, name : STRING, qualified : BOOLEAN]
           \cup [kind : {"map"}, key : at[n - 1], elem : at[n - 1]]
           \cup [kind : {"slice"}, elem : at[n - 1]]
           \cup [kind : {"struct"}, name : STRING, fields : Seq(at[n - 1])]

OfTypes == INSTANCE Recursion WITH S <- Levels, Rank <- Level, Def <- TypesAt

(* The sets of types by their nesting. *)
LEMMA TypesByLevel ==
    \A n \in 0..Nesting : TypesTo[n] = TypesAt(<<>>, TypesTo, n)
<1>1. OfTypes!Ranked(<<>>) /\ OfTypes!Descends(<<>>)
  BY NestingAssumption
     DEF OfTypes!Ranked, OfTypes!Descends, Levels, Level, TypesAt
<1>2. TypesTo = CHOOSE g : OfTypes!Defines(<<>>, g)
  BY DEF TypesTo, OfTypes!Defines, Levels, TypesAt
<1>3. OfTypes!Defines(<<>>, TypesTo)
  BY <1>1, <1>2, OfTypes!Recursion
<1> QED BY <1>3 DEF OfTypes!Defines, Levels

StoredAt(p, at, n) ==
    IF n = 0 THEN {} ELSE StoredOver(at[n - 1])

OfStored == INSTANCE Recursion WITH S <- Levels, Rank <- Level, Def <- StoredAt

(* The sets of stored types by their nesting. *)
LEMMA StoredByLevel ==
    \A n \in 0..Nesting : StoredTo[n] = StoredAt(<<>>, StoredTo, n)
<1>1. OfStored!Ranked(<<>>) /\ OfStored!Descends(<<>>)
  BY NestingAssumption
     DEF OfStored!Ranked, OfStored!Descends, Levels, Level, StoredAt
<1>2. StoredTo = CHOOSE g : OfStored!Defines(<<>>, g)
  BY DEF StoredTo, OfStored!Defines, Levels, StoredAt
<1>3. OfStored!Defines(<<>>, StoredTo)
  BY <1>1, <1>2, OfStored!Recursion
<1> QED BY <1>3 DEF OfStored!Defines, Levels

AfterDotOver(inner, n) ==
    [t \in TypesTo[n] |->
       IF t.kind \in {"map", "slice"} THEN inner[t.elem]
       ELSE IF t.kind = "opaque" /\ t.qualified THEN t.name
       ELSE ""]

AfterDotAt(p, at, n) ==
    IF n = 0 THEN <<>> ELSE AfterDotOver(at[n - 1], n)

OfAfterDot == INSTANCE Recursion WITH S <- Levels, Rank <- Level, Def <- AfterDotAt

(* AfterDot, by the nesting of the type. *)
LEMMA AfterDotByLevel ==
    \E at : /\ \A n \in 0..Nesting : at[n] = AfterDotAt(<<>>, at, n)
           /\ \A t : AfterDot(t) = at[Nesting][t]
<1> DEFINE at == CHOOSE g : g = [n \in 0..Nesting |-> AfterDotAt(<<>>, g, n)]
<1>1. OfAfterDot!Ranked(<<>>) /\ OfAfterDot!Descends(<<>>)
  BY NestingAssumption
     DEF OfAfterDot!Ranked, OfAfterDot!Descends, Levels, Level, AfterDotAt
<1>2. at = CHOOSE g : OfAfterDot!Defines(<<>>, g)
  BY DEF OfAfterDot!Defines, Levels
<1>3. OfAfterDot!Defines(<<>>, at)
  <2> HIDE DEF at
  <2> QED BY <1>1, <1>2, OfAfterDot!Recursion
<1>4. \A t : AfterDot(t) = at[Nesting][t]
  BY DEF AfterDot, AfterDotAt, AfterDotOver
<1> HIDE DEF at
<1> QED BY <1>3, <1>4 DEF OfAfterDot!Defines, Levels

NamingAt(p, at, n) ==
    IF n = 0 THEN {}
    ELSE {OtherExpr(p)}
           \cup [form : {"map"}, key : ExprsTo[n - 1], elem : at[n - 1]]
           \cup [form : {"slice"}, elem : at[n - 1]]

OfNaming == INSTANCE Recursion WITH S <- Levels, Rank <- Level, Def <- NamingAt

(* Naming, by the nesting of the expression. *)
LEMMA NamingByLevel ==
    ASSUME NEW name
    PROVE  \E at : /\ \A n \in 0..Nesting : at[n] = NamingAt(name, at, n)
                  /\ Naming(name) = {Ident(name)} \cup at[Nesting]
<1> DEFINE at == CHOOSE g : g = [n \in 0..Nesting |-> NamingAt(name, g, n)]
<1>1. OfNaming!Ranked(name) /\ OfNaming!Descends(name)
  BY NestingAssumption
     DEF OfNaming!Ranked, OfNaming!Descends, Levels, Level, NamingAt
<1>2. at = CHOOSE g : OfNaming!Defines(name, g)
  BY DEF OfNaming!Defines, Levels
<1>3. OfNaming!Defines(name, at)
  <2> HIDE DEF at
  <2> QED BY <1>1, <1>2, OfNaming!Recursion
<1>4. Naming(name) = {Ident(name)} \cup at[Nesting]
  BY DEF Naming, NamingAt
<1> HIDE DEF at
<1> QED BY <1>3, <1>4 DEF OfNaming!Defines, Levels

PersistedOver(inner, n) ==
    [t \in TypesTo[n] |->
       [kind      |-> t.kind,
        scalar    |-> IF "scalar" \in DOMAIN t THEN t.scalar ELSE "",
        name      |-> IF "name" \in DOMAIN t THEN t.name ELSE "",
        qualified |-> "qualified" \in DOMAIN t /\ t.qualified,
        key       |-> IF "key" \in DOMAIN t
                      THEN <<inner[t.key]>> ELSE Nothing,
        elem      |-> IF "elem" \in DOMAIN t
                      THEN <<inner[t.elem]>> ELSE Nothing,
        fields    |-> IF "fields" \in DOMAIN t
                      THEN [i \in 1..Len(t.fields) |-> inner[t.fields[i]]]
                      ELSE <<>>]]

PersistedAt(p, at, n) ==
    IF n = 0 THEN <<>> ELSE PersistedOver(at[n - 1], n)

OfPersisted == INSTANCE Recursion WITH S <- Levels, Rank <- Level, Def <- PersistedAt

(* PersistedTypeRef, by the nesting of the type. *)
LEMMA PersistedByLevel ==
    \E at : /\ \A n \in 0..Nesting : at[n] = PersistedAt(<<>>, at, n)
           /\ \A t : PersistedTypeRef(t) = at[Nesting][t]
<1> DEFINE at == CHOOSE g : g = [n \in 0..Nesting |-> PersistedAt(<<>>, g, n)]
<1>1. OfPersisted!Ranked(<<>>) /\ OfPersisted!Descends(<<>>)
  BY NestingAssumption
     DEF OfPersisted!Ranked, OfPersisted!Descends, Levels, Level, PersistedAt
<1>2. at = CHOOSE g : OfPersisted!Defines(<<>>, g)
  BY DEF OfPersisted!Defines, Levels
<1>3. OfPersisted!Defines(<<>>, at)
  <2> HIDE DEF at
  <2> QED BY <1>1, <1>2, OfPersisted!Recursion
<1>4. \A t : PersistedTypeRef(t) = at[Nesting][t]
  BY DEF PersistedTypeRef, PersistedAt, PersistedOver
<1> HIDE DEF at
<1> QED BY <1>3, <1>4 DEF OfPersisted!Defines, Levels

ReadableAt(p, at, n) ==
    IF n = 0 THEN {}
    ELSE {d \in StoredOver(at[n - 1]) : KnownKind(d.kind) /\ ShapeAllowed(d)}

OfReadable == INSTANCE Recursion WITH S <- Levels, Rank <- Level, Def <- ReadableAt

(* The stored types that are readable, by their nesting. *)
LEMMA ReadableByLevel ==
    \E at : /\ \A n \in 0..Nesting : at[n] = ReadableAt(<<>>, at, n)
           /\ \A d : Readable(d) <=> d \in at[Nesting]
<1> DEFINE at == CHOOSE g : g = [n \in 0..Nesting |-> ReadableAt(<<>>, g, n)]
<1>1. OfReadable!Ranked(<<>>) /\ OfReadable!Descends(<<>>)
  BY NestingAssumption
     DEF OfReadable!Ranked, OfReadable!Descends, Levels, Level, ReadableAt
<1>2. at = CHOOSE g : OfReadable!Defines(<<>>, g)
  BY DEF OfReadable!Defines, Levels
<1>3. OfReadable!Defines(<<>>, at)
  <2> HIDE DEF at
  <2> QED BY <1>1, <1>2, OfReadable!Recursion
<1>4. \A d : Readable(d) <=> d \in at[Nesting]
  BY DEF Readable, ReadableAt
<1> HIDE DEF at
<1> QED BY <1>3, <1>4 DEF OfReadable!Defines, Levels

RuntimeOver(inner, n) ==
    [d \in StoredTo[n] |->
       CASE d.kind = "scalar" -> Scalar(d.scalar)
         [] d.kind = "named"  -> Named(d.name)
         [] d.kind = "map"    -> MapOf(inner[d.key[1]], inner[d.elem[1]])
         [] d.kind = "slice"  -> SliceOf(inner[d.elem[1]])
         [] d.kind = "struct" ->
               Struct(d.name, [i \in 1..Len(d.fields) |-> inner[d.fields[i]]])
         [] d.kind = "opaque" -> Opaque(d.name, d.qualified)]

RuntimeAt(p, at, n) ==
    IF n = 0 THEN <<>> ELSE RuntimeOver(at[n - 1], n)

OfRuntime == INSTANCE Recursion WITH S <- Levels, Rank <- Level, Def <- RuntimeAt

(* RuntimeTypeRef, by the nesting of the stored type. *)
LEMMA RuntimeByLevel ==
    \E at : /\ \A n \in 0..Nesting : at[n] = RuntimeAt(<<>>, at, n)
           /\ \A d : RuntimeTypeRef(d) = at[Nesting][d]
<1> DEFINE at == CHOOSE g : g = [n \in 0..Nesting |-> RuntimeAt(<<>>, g, n)]
<1>1. OfRuntime!Ranked(<<>>) /\ OfRuntime!Descends(<<>>)
  BY NestingAssumption
     DEF OfRuntime!Ranked, OfRuntime!Descends, Levels, Level, RuntimeAt
<1>2. at = CHOOSE g : OfRuntime!Defines(<<>>, g)
  BY DEF OfRuntime!Defines, Levels
<1>3. OfRuntime!Defines(<<>>, at)
  <2> HIDE DEF at
  <2> QED BY <1>1, <1>2, OfRuntime!Recursion
<1>4. \A d : RuntimeTypeRef(d) = at[Nesting][d]
  BY DEF RuntimeTypeRef, RuntimeAt, RuntimeOver
<1> HIDE DEF at
<1> QED BY <1>3, <1>4 DEF OfRuntime!Defines, Levels

---------------------------------------------------------------------------
(* What expressions and types can be.                                      *)

(* What passes from one level to the next holds at each. *)
LEMMA LevelInduction ==
    ASSUME NEW N \in SUBSET Nat,
           0 \in N,
           \A n \in N : n + 1 \in 1..Nesting => n + 1 \in N
    PROVE  \A n \in 0..Nesting : n \in N
<1> DEFINE M == {n \in Nat : n <= Nesting => n \in N}
<1>1. 0 \in M
  OBVIOUS
<1>2. ASSUME NEW n \in M
      PROVE  n + 1 \in M
  BY <1>2, NestingAssumption
<1>3. M \in SUBSET Nat
  OBVIOUS
<1>4. M = Nat
  <2> HIDE DEF M
  <2> QED BY <1>1, <1>2, <1>3, OfExprs!Induction
<1> QED BY <1>4

(* What an expression can be. *)
LEMMA ExprShape ==
    ASSUME NEW n \in 1..Nesting, NEW e \in ExprsTo[n]
    PROVE  \/ e.form = "ident" /\ e = Ident(e.name) /\ e.name \in STRING
           \/ e.form = "other" /\ e = OtherExpr(e.name) /\ e.name \in STRING
           \/ e.form = "map" /\ e.key \in ExprsTo[n - 1] /\ e.elem \in ExprsTo[n - 1]
           \/ e.form = "slice" /\ e.elem \in ExprsTo[n - 1]
           \/ e.form = "struct" /\ e.fields \in Seq(ExprsTo[n - 1])
<1>1. n \in 0..Nesting /\ n # 0
  OBVIOUS
<1>2. ExprsTo[n] = ExprsAt(<<>>, ExprsTo, n)
  BY <1>1, ExprsByLevel
<1> QED BY <1>1, <1>2 DEF ExprsAt, Ident, OtherExpr

(* What a type can be. *)
LEMMA TypeShape ==
    ASSUME NEW n \in 1..Nesting, NEW t
    PROVE  t \in TypesTo[n] <=>
             \/ t \in [kind : {"scalar"}, scalar : Scalars]
             \/ t \in [kind : {"named"}, name : STRING]
             \/ t \in [kind : {"opaque"}, name : STRING, qualified : BOOLEAN]
             \/ t \in [kind : {"map"}, key : TypesTo[n - 1], elem : TypesTo[n - 1]]
             \/ t \in [kind : {"slice"}, elem : TypesTo[n - 1]]
             \/ t \in [kind : {"struct"}, name : STRING, fields : Seq(TypesTo[n - 1])]
<1>1. n \in 0..Nesting /\ n # 0
  OBVIOUS
<1>2. TypesTo[n] = TypesAt(<<>>, TypesTo, n)
  BY <1>1, TypesByLevel
<1> QED BY <1>1, <1>2 DEF TypesAt

(* Nothing nests zero deep. *)
LEMMA NoneAtZero == ExprsTo[0] = {} /\ TypesTo[0] = {} /\ StoredTo[0] = {}
<1>1. 0 \in 0..Nesting
  BY NestingAssumption
<1> QED BY <1>1, ExprsByLevel, TypesByLevel, StoredByLevel
           DEF ExprsAt, TypesAt, StoredAt

(* An identifier is a type of any level. *)
LEMMA ResolveIdentType ==
    ASSUME NEW declared, NEW name \in STRING, NEW n \in 1..Nesting
    PROVE  ResolveIdent(declared, name) \in TypesTo[n]
BY TypeShape DEF ResolveIdent, Scalar, Named, Opaque

Resolution(declared, at) == \A n \in 0..Nesting : at[n] = ResolveAt(declared, at, n)

(* Resolving gives a type, no deeper than the expression. *)
LEMMA ResolvedByLevel ==
    ASSUME NEW declared, NEW at, Resolution(declared, at)
    PROVE  \A n \in 0..Nesting : \A x \in ExprsTo[n] : at[n][x] \in TypesTo[n]
<1> DEFINE N == {n \in Nat : \A x \in ExprsTo[n] : at[n][x] \in TypesTo[n]}
<1>2. 0 \in N
  BY NoneAtZero
<1>3. ASSUME NEW n \in N, n + 1 \in 1..Nesting
      PROVE  n + 1 \in N
  <2>1. (n + 1) - 1 = n /\ n + 1 \in 0..Nesting /\ n + 1 # 0
    BY <1>3
  <2> SUFFICES ASSUME NEW x \in ExprsTo[n + 1]
               PROVE  at[n + 1][x] \in TypesTo[n + 1]
    OBVIOUS
  <2>2. at[n + 1] = ResolveAt(declared, at, n + 1)
    BY <2>1 DEF Resolution
  <2>3. \A y \in ExprsTo[n] : at[n][y] \in TypesTo[n]
    BY <1>3
  <2> HIDE DEF N
  <2>4. CASE x.form = "ident" /\ x.name \in STRING
    <3>1. at[n + 1][x] = ResolveIdent(declared, x.name)
      BY <2>1, <2>2, <2>4 DEF ResolveAt
    <3> QED BY <1>3, <2>4, <3>1, ResolveIdentType
  <2>5. CASE x.form = "other" /\ x.name \in STRING
    <3>1. at[n + 1][x] = Opaque(x.name, TRUE)
      BY <2>1, <2>2, <2>5 DEF ResolveAt
    <3> QED BY <1>3, <2>5, <3>1, TypeShape DEF Opaque
  <2>6. CASE x.form = "map" /\ x.key \in ExprsTo[n] /\ x.elem \in ExprsTo[n]
    <3>1. at[n + 1][x] = MapOf(at[n][x.key], at[n][x.elem])
      BY <2>1, <2>2, <2>6 DEF ResolveAt
    <3>2. MapOf(at[n][x.key], at[n][x.elem])
            \in [kind : {"map"}, key : TypesTo[n], elem : TypesTo[n]]
      BY <2>3, <2>6 DEF MapOf
    <3> QED BY <1>3, <2>1, <3>1, <3>2, TypeShape
  <2>7. CASE x.form = "slice" /\ x.elem \in ExprsTo[n]
    <3>1. at[n + 1][x] = SliceOf(at[n][x.elem])
      BY <2>1, <2>2, <2>7 DEF ResolveAt
    <3>2. SliceOf(at[n][x.elem]) \in [kind : {"slice"}, elem : TypesTo[n]]
      BY <2>3, <2>7 DEF SliceOf
    <3> QED BY <1>3, <2>1, <3>1, <3>2, TypeShape
  <2>8. CASE x.form = "struct" /\ x.fields \in Seq(ExprsTo[n])
    <3> DEFINE fs == [i \in 1..Len(x.fields) |-> at[n][x.fields[i]]]
    <3>1. at[n + 1][x] = Struct("", fs)
      BY <2>1, <2>2, <2>8 DEF ResolveAt
    <3>2. fs \in Seq(TypesTo[n])
      <4>1. Len(x.fields) \in Nat
        BY <2>8
      <4>2. \A i \in 1..Len(x.fields) : at[n][x.fields[i]] \in TypesTo[n]
        BY <2>3, <2>8
      <4> QED BY <4>1, <4>2
    <3>3. \A gs \in Seq(TypesTo[n]) :
            Struct("", gs) \in [kind : {"struct"}, name : STRING, fields : Seq(TypesTo[n])]
      <4>1. "" \in STRING
        BY StringsAssumption
      <4>2. \A S, gs : gs \in S => [kind |-> "struct", name |-> "", fields |-> gs]
                                    \in [kind : {"struct"}, name : STRING, fields : S]
        BY <4>1
      <4> DEFINE S == Seq(TypesTo[n])
      <4>3. \A gs \in S : Struct("", gs)
                            \in [kind : {"struct"}, name : STRING, fields : S]
        <5> HIDE DEF S
        <5> QED BY <4>2 DEF Struct
      <4> QED BY <4>3
    <3> HIDE DEF fs
    <3>4. at[n + 1][x]
            \in [kind : {"struct"}, name : STRING, fields : Seq(TypesTo[n])]
      BY <3>1, <3>2, <3>3
    <3> QED BY <1>3, <2>1, <3>4, TypeShape
  <2> QED BY <1>3, <2>1, <2>4, <2>5, <2>6, <2>7, <2>8, ExprShape
<1>4. N \in SUBSET Nat
  OBVIOUS
<1>5. \A n \in 0..Nesting : n \in N
  <2> HIDE DEF N
  <2> QED BY <1>2, <1>3, <1>4, LevelInduction
<1> QED BY <1>5

LEMMA ResolvedAreTypes ==
    ASSUME NEW declared, NEW e \in Exprs
    PROVE  ResolveTypeExpr(declared, e) \in Types
<1>1. PICK at : /\ \A n \in 0..Nesting : at[n] = ResolveAt(declared, at, n)
                /\ \A x : ResolveTypeExpr(declared, x) = at[Nesting][x]
  BY ResolveByLevel
<1>2. \A n \in 0..Nesting : \A x \in ExprsTo[n] : at[n][x] \in TypesTo[n]
  BY <1>1, ResolvedByLevel DEF Resolution
<1> QED BY <1>1, <1>2, NestingAssumption DEF Exprs, Types

(* If there are expressions or types at all, there is a level for them. *)
LEMMA SomeLevel ==
    Exprs # {} \/ Types # {} => Nesting \in 1..Nesting
BY NestingAssumption, NoneAtZero DEF Exprs, Types

(* What an expression resolves to. *)
LEMMA ResolvedShape ==
    ASSUME NEW declared, NEW e \in Exprs
    PROVE  \/ /\ e = Ident(e.name) /\ e.name \in STRING
              /\ ResolveTypeExpr(declared, e) = ResolveIdent(declared, e.name)
           \/ /\ e = OtherExpr(e.name) /\ e.name \in STRING
              /\ ResolveTypeExpr(declared, e) = Opaque(e.name, TRUE)
           \/ /\ e.form \in {"map", "slice", "struct"}
              /\ ResolveTypeExpr(declared, e).kind = e.form
<1>1. PICK at : /\ \A n \in 0..Nesting : at[n] = ResolveAt(declared, at, n)
                /\ \A x : ResolveTypeExpr(declared, x) = at[Nesting][x]
  BY ResolveByLevel
<1>2. Nesting \in 1..Nesting /\ Nesting \in 0..Nesting /\ Nesting # 0
  BY SomeLevel
<1>3. at[Nesting] = ResolveAt(declared, at, Nesting)
  BY <1>1, <1>2
<1>4. ResolveTypeExpr(declared, e) = at[Nesting][e] /\ e \in ExprsTo[Nesting]
  BY <1>1 DEF Exprs
<1>5. CASE e.form = "ident"
  BY <1>2, <1>3, <1>4, <1>5, ExprShape DEF ResolveAt
<1>6. CASE e.form = "other"
  BY <1>2, <1>3, <1>4, <1>6, ExprShape DEF ResolveAt
<1>7. CASE e.form = "map"
  <2>1. at[Nesting][e] = MapOf(at[Nesting - 1][e.key], at[Nesting - 1][e.elem])
    BY <1>2, <1>3, <1>4, <1>7 DEF ResolveAt
  <2>2. \A k, v : MapOf(k, v).kind = "map"
    BY DEF MapOf
  <2> QED BY ZenonT(30), <1>4, <1>7, <2>1, <2>2
<1>8. CASE e.form = "slice"
  <2>1. at[Nesting][e] = SliceOf(at[Nesting - 1][e.elem])
    BY <1>2, <1>3, <1>4, <1>8 DEF ResolveAt
  <2>2. \A v : SliceOf(v).kind = "slice"
    BY DEF SliceOf
  <2> QED BY <1>4, <1>8, <2>1, <2>2
<1>9. CASE e.form = "struct"
  <2> DEFINE fs == [i \in 1..Len(e.fields) |-> at[Nesting - 1][e.fields[i]]]
  <2>1. at[Nesting][e] = Struct("", fs)
    BY <1>2, <1>3, <1>4, <1>9 DEF ResolveAt
  <2>2. \A gs : Struct("", gs).kind = "struct"
    BY DEF Struct
  <2> HIDE DEF fs
  <2> QED BY <1>4, <1>9, <2>1, <2>2
<1> QED BY <1>2, <1>4, <1>5, <1>6, <1>7, <1>8, <1>9, ExprShape

(* What stands after the last dot of a type that is a name. *)
LEMMA AfterDotShape ==
    ASSUME NEW t \in Types
    PROVE  /\ t.kind \in {"scalar", "named", "struct"} => AfterDot(t) = ""
           /\ t.kind = "opaque" => AfterDot(t) = IF t.qualified THEN t.name ELSE ""
<1>1. PICK at : /\ \A n \in 0..Nesting : at[n] = AfterDotAt(<<>>, at, n)
                /\ \A x : AfterDot(x) = at[Nesting][x]
  BY AfterDotByLevel
<1>2. Nesting \in 0..Nesting /\ Nesting # 0
  BY SomeLevel
<1>3. at[Nesting] = AfterDotOver(at[Nesting - 1], Nesting)
  BY <1>1, <1>2 DEF AfterDotAt
<1>4. AfterDot(t) = at[Nesting][t] /\ t \in TypesTo[Nesting]
  BY <1>1 DEF Types
<1>5. CASE t.kind \in {"scalar", "named", "struct"}
  BY <1>3, <1>4, <1>5 DEF AfterDotOver
<1>6. CASE t.kind = "opaque"
  BY <1>3, <1>4, <1>6 DEF AfterDotOver
<1> QED BY <1>5, <1>6

---------------------------------------------------------------------------
(* What a source says of its functions.                                    *)

(* A name that is no scalar is written so. *)
LEMMA NameExpr ==
    ASSUME NEW declared, NEW e \in Exprs, NEW name, name \notin Scalars
    PROVE  IsNamedAs(ResolveTypeExpr(declared, e), name) <=> e = Ident(name)
<1>1. CASE /\ e = Ident(e.name) /\ e.name \in STRING
           /\ ResolveTypeExpr(declared, e) = ResolveIdent(declared, e.name)
  <2>1. IsNamedAs(ResolveIdent(declared, e.name), name) <=> e.name = name
    BY DEF IsNamedAs, ResolveIdent, Scalar, Named, Opaque
  <2>2. Ident(e.name) = Ident(name) <=> e.name = name
    BY DEF Ident
  <2> QED BY <1>1, <2>1, <2>2
<1>2. CASE /\ e = OtherExpr(e.name) /\ e.name \in STRING
           /\ ResolveTypeExpr(declared, e) = Opaque(e.name, TRUE)
  <2>1. ~IsNamedAs(Opaque(e.name, TRUE), name)
    BY DEF IsNamedAs, Opaque
  <2>2. OtherExpr(e.name) # Ident(name)
    BY DEF OtherExpr, Ident
  <2> QED BY <1>2, <2>1, <2>2
<1>3. CASE /\ e.form \in {"map", "slice", "struct"}
           /\ ResolveTypeExpr(declared, e).kind = e.form
  BY <1>3 DEF IsNamedAs, Ident
<1> QED BY <1>1, <1>2, <1>3, ResolvedShape

(* The name "error" is written error. *)
LEMMA ErrorExpr ==
    ASSUME NEW declared, NEW e \in Exprs
    PROVE  IsNamedAs(ResolveTypeExpr(declared, e), "error") <=> e = Ident("error")
BY NameExpr DEF Scalars

(* A bool is written bool. *)
LEMMA BoolExpr ==
    ASSUME NEW declared, NEW e \in Exprs,
           ResolveTypeExpr(declared, e) = Scalar("bool")
    PROVE  e = Ident("bool")
<1>1. CASE /\ e = Ident(e.name) /\ e.name \in STRING
           /\ ResolveTypeExpr(declared, e) = ResolveIdent(declared, e.name)
  <2>1. ResolveIdent(declared, e.name) = Scalar("bool") => e.name = "bool"
    BY DEF ResolveIdent, Scalar, Named, Opaque
  <2> QED BY <1>1, <2>1
<1>2. CASE ResolveTypeExpr(declared, e) = Opaque(e.name, TRUE)
  BY <1>2 DEF Opaque, Scalar
<1>3. CASE /\ e.form \in {"map", "slice", "struct"}
           /\ ResolveTypeExpr(declared, e).kind = e.form
  BY <1>3 DEF Scalar
<1> QED BY <1>1, <1>2, <1>3, ResolvedShape

(* The structs of a source refer to structs. *)
LEMMA StructsAreStructs ==
    ASSUME NEW decls, NEW n \in DOMAIN Structs(decls)
    PROVE  Structs(decls)[n].kind = "struct" /\ n \in DOMAIN decls
BY DEF Structs, Struct

(* References never lead to a scalar: only scalars are. *)
LEMMA IsScalarByKind ==
    ASSUME NEW decls, NEW t
    PROVE  IsScalar(Structs(decls), t) <=> t.kind = "scalar"
BY StructsAreStructs DEF IsScalar, ResolveType

(* A scalar is written by its name. *)
LEMMA ScalarExpr ==
    ASSUME NEW decls, NEW declared, NEW e \in Exprs,
           IsScalar(Structs(decls), ResolveTypeExpr(declared, e))
    PROVE  e \in ScalarExprs
<1>1. ResolveTypeExpr(declared, e).kind = "scalar"
  BY IsScalarByKind
<1>2. CASE /\ e = Ident(e.name) /\ e.name \in STRING
           /\ ResolveTypeExpr(declared, e) = ResolveIdent(declared, e.name)
  <2>1. e.name \in Scalars
    BY <1>1, <1>2 DEF ResolveIdent, Named, Opaque
  <2> QED BY <1>2, <2>1 DEF ScalarExprs
<1>3. CASE ResolveTypeExpr(declared, e) = Opaque(e.name, TRUE)
  BY <1>1, <1>3 DEF Opaque
<1>4. CASE /\ e.form \in {"map", "slice", "struct"}
           /\ ResolveTypeExpr(declared, e).kind = e.form
  BY <1>1, <1>4
<1> QED BY <1>2, <1>3, <1>4, ResolvedShape

NoName == ""

(* AfterDot, one level after the other. *)
LEMMA AfterDotNext ==
    ASSUME NEW inner, NEW n, NEW t \in TypesTo[n]
    PROVE  LET after == AfterDotOver(inner, n)[t]
               dotted == t.kind = "opaque" /\ t.qualified IN
           /\ t.kind \in {"map", "slice"} => after = inner[t.elem]
           /\ dotted => after = t.name
           /\ t.kind \notin {"map", "slice"} /\ ~dotted => after = NoName
<1>1. AfterDotOver(inner, n)
        = [x \in TypesTo[n] |->
             IF x.kind \in {"map", "slice"} THEN inner[x.elem]
             ELSE IF x.kind = "opaque" /\ x.qualified THEN x.name
             ELSE NoName]
  BY Zenon DEF AfterDotOver, NoName
<1> QED BY <1>1

(* What stands after the last dot of a resolved type is what the           *)
(* expression ends in.                                                     *)
LEMMA AfterDotExpr ==
    ASSUME NEW declared, NEW e \in Exprs, NEW c, c # NoName
    PROVE  e \in Naming(c) <=> e = Ident(c) \/ AfterDot(ResolveTypeExpr(declared, e)) = c
<1>1. PICK r : /\ \A n \in 0..Nesting : r[n] = ResolveAt(declared, r, n)
               /\ \A x : ResolveTypeExpr(declared, x) = r[Nesting][x]
  BY ResolveByLevel
<1>2. PICK d : /\ \A n \in 0..Nesting : d[n] = AfterDotAt(<<>>, d, n)
               /\ \A x : AfterDot(x) = d[Nesting][x]
  BY AfterDotByLevel
<1>3. PICK a : /\ \A n \in 0..Nesting : a[n] = NamingAt(c, a, n)
               /\ Naming(c) = {Ident(c)} \cup a[Nesting]
  BY NamingByLevel
<1>4. \A n \in 0..Nesting : \A x \in ExprsTo[n] : r[n][x] \in TypesTo[n]
  BY <1>1, ResolvedByLevel DEF Resolution
<1> DEFINE N == {n \in Nat : \A x \in ExprsTo[n] : x \in a[n] <=> d[n][r[n][x]] = c}
<1>5. 0 \in N /\ N \in SUBSET Nat
  BY NoneAtZero
<1> HIDE DEF N
<1>6. ASSUME NEW n \in N, n + 1 \in 1..Nesting
      PROVE  n + 1 \in N
  <2>1. /\ (n + 1) - 1 = n /\ n + 1 # 0
        /\ n \in 0..Nesting /\ n + 1 \in 0..Nesting /\ n + 1 \in Nat
    <3>1. n \in Nat
      BY <1>5
    <3> QED BY <1>6, <3>1, NestingAssumption
  <2> SUFFICES ASSUME NEW x \in ExprsTo[n + 1]
               PROVE  x \in a[n + 1] <=> d[n + 1][r[n + 1][x]] = c
    BY <2>1, Zenon DEF N
  <2>2. r[n + 1] = ResolveAt(declared, r, n + 1)
    BY <1>1, <2>1
  <2>3. /\ d[n + 1] = AfterDotOver(d[n], n + 1)
        /\ a[n + 1] = {OtherExpr(c)}
                        \cup [form : {"map"}, key : ExprsTo[n], elem : a[n]]
                        \cup [form : {"slice"}, elem : a[n]]
    BY <1>2, <1>3, <2>1 DEF AfterDotAt, NamingAt
  <2>4. \A y \in ExprsTo[n] : y \in a[n] <=> d[n][r[n][y]] = c
    BY <1>6 DEF N
  <2>5. r[n + 1][x] \in TypesTo[n + 1]
    BY <1>4, <2>1
  <2>6. CASE x.form = "ident"
    <3>1. x \notin a[n + 1]
      BY <2>3, <2>6 DEF OtherExpr
    <3>2. r[n + 1][x] = ResolveIdent(declared, x.name)
      BY <2>1, <2>2, <2>6 DEF ResolveAt
    <3>3. LET t == ResolveIdent(declared, x.name) IN
          t.kind \notin {"map", "slice"} /\ ~(t.kind = "opaque" /\ t.qualified)
      BY DEF ResolveIdent, Scalar, Named, Opaque
    <3>4. d[n + 1][r[n + 1][x]] = NoName
      BY <2>3, <2>5, <3>2, <3>3, AfterDotNext
    <3> QED BY <3>1, <3>4
  <2>7. CASE x = OtherExpr(x.name)
    <3>1. x.form = "other"
      BY <2>7 DEF OtherExpr
    <3>2. r[n + 1][x] = Opaque(x.name, TRUE)
      BY <2>1, <2>2, <3>1 DEF ResolveAt
    <3>3. d[n + 1][r[n + 1][x]] = x.name
      BY <2>3, <2>5, <3>2, AfterDotNext DEF Opaque
    <3>4. x \in a[n + 1] <=> x = OtherExpr(c)
      BY <2>3, <3>1
    <3>5. OtherExpr(x.name) = OtherExpr(c) <=> x.name = c
      BY DEF OtherExpr
    <3> QED BY <2>7, <3>3, <3>4, <3>5
  <2>8. CASE x \in [form : {"map"}, key : ExprsTo[n], elem : ExprsTo[n]]
    <3>1. r[n + 1][x] = MapOf(r[n][x.key], r[n][x.elem])
      BY <2>1, <2>2, <2>8 DEF ResolveAt
    <3>2. d[n + 1][r[n + 1][x]] = d[n][r[n][x.elem]]
      BY <2>3, <2>5, <3>1, AfterDotNext DEF MapOf
    <3>3. x \in a[n + 1] <=> x.elem \in a[n]
      <4>1. x # OtherExpr(c) /\ x \notin [form : {"slice"}, elem : a[n]]
        BY <2>8 DEF OtherExpr
      <4>2. x \in [form : {"map"}, key : ExprsTo[n], elem : a[n]] <=> x.elem \in a[n]
        BY <2>8
      <4> QED BY <2>3, <4>1, <4>2
    <3> QED BY <2>4, <2>8, <3>2, <3>3
  <2>9. CASE x \in [form : {"slice"}, elem : ExprsTo[n]]
    <3>1. r[n + 1][x] = SliceOf(r[n][x.elem])
      BY <2>1, <2>2, <2>9 DEF ResolveAt
    <3>2. d[n + 1][r[n + 1][x]] = d[n][r[n][x.elem]]
      BY <2>3, <2>5, <3>1, AfterDotNext DEF SliceOf
    <3>3. x \in a[n + 1] <=> x.elem \in a[n]
      <4>1. x # OtherExpr(c) /\ x \notin [form : {"map"}, key : ExprsTo[n], elem : a[n]]
        BY <2>9 DEF OtherExpr
      <4>2. x \in [form : {"slice"}, elem : a[n]] <=> x.elem \in a[n]
        BY <2>9
      <4> QED BY <2>3, <4>1, <4>2
    <3> QED BY <2>4, <2>9, <3>2, <3>3
  <2>10. CASE x.form = "struct"
    <3> DEFINE fs == [i \in 1..Len(x.fields) |-> r[n][x.fields[i]]]
    <3>1. x \notin a[n + 1]
      BY <2>3, <2>10 DEF OtherExpr
    <3>2. r[n + 1][x] = Struct("", fs)
      BY <2>1, <2>2, <2>10 DEF ResolveAt
    <3>3. \A gs : Struct("", gs).kind = "struct"
      BY DEF Struct
    <3> HIDE DEF fs
    <3>4. r[n + 1][x].kind = "struct"
      BY <3>2, <3>3
    <3>5. d[n + 1][r[n + 1][x]] = NoName
      BY <2>3, <2>5, <3>4, AfterDotNext
    <3> QED BY <3>1, <3>5
  <2>11. \/ x.form \in {"ident", "struct"} \/ x = OtherExpr(x.name)
         \/ x \in [form : {"map"}, key : ExprsTo[n], elem : ExprsTo[n]]
         \/ x \in [form : {"slice"}, elem : ExprsTo[n]]
    <3>1. ExprsTo[n + 1] = ExprsAt(<<>>, ExprsTo, n + 1)
      BY <2>1, ExprsByLevel
    <3> QED BY <2>1, <3>1 DEF ExprsAt, OtherExpr
  <2> QED BY <2>6, <2>7, <2>8, <2>9, <2>10, <2>11
<1>7. \A n \in 0..Nesting : n \in N
  BY <1>5, <1>6, LevelInduction
<1>8. Nesting \in N
  BY <1>7, NestingAssumption
<1>9. e \in a[Nesting] <=> d[Nesting][r[Nesting][e]] = c
  BY <1>8 DEF N, Exprs
<1> QED BY <1>1, <1>2, <1>3, <1>9

Contexts == {"WriteContext", "QueryContext", "ContractContext"}

(* What the analyser takes for a context is what the source names so. *)
LEMMA ContextExpr ==
    ASSUME NEW declared, NEW e \in Exprs, NEW c \in Contexts
    PROVE  IsContextTypeNamed(ResolveTypeExpr(declared, e), c) <=> e \in Naming(c)
<1>1. c # NoName /\ c \notin Scalars
  BY DEF Contexts, Scalars, NoName
<1> QED BY <1>1, NameExpr, AfterDotExpr DEF IsContextTypeNamed

(* No type is that of two contexts. *)
LEMMA OneContext ==
    ASSUME NEW t \in Types, NEW c, NEW d, c # d, c # "", d # "",
           IsContextTypeNamed(t, c)
    PROVE  ~IsContextTypeNamed(t, d)
<1>1. CASE t.kind = "named"
  <2>1. AfterDot(t) = ""
    BY <1>1, AfterDotShape
  <2> QED BY <1>1, <2>1 DEF IsContextTypeNamed, IsNamedAs
<1>2. CASE t.kind = "opaque"
  BY <1>2, AfterDotShape DEF IsContextTypeNamed, IsNamedAs
<1>3. CASE t.kind \notin {"named", "opaque"}
  BY <1>3 DEF IsContextTypeNamed, IsNamedAs
<1> QED BY <1>1, <1>2, <1>3

---------------------------------------------------------------------------
(* A source and its functions. *)
LEMMA SourceShape ==
    ASSUME NEW s \in Sources
    PROVE  /\ Len(s.functions) \in Nat
           /\ \A i \in 1..Len(s.functions) :
                /\ s.functions[i] \in FunctionDecls
                /\ SchemaOf(s).functions[i] = FunctionOf(s, s.functions[i])
           /\ ToSet(s.functions) = {s.functions[i] : i \in 1..Len(s.functions)}
           /\ Len(SchemaOf(s).functions) = Len(s.functions)
           /\ ToSet(SchemaOf(s).functions)
                = {FunctionOf(s, s.functions[i]) : i \in 1..Len(s.functions)}
<1> DEFINE fs == [i \in 1..Len(s.functions) |-> FunctionOf(s, s.functions[i])]
<1>1. s.functions \in Seq(FunctionDecls)
  BY SchemaAssumption
<1>2. SchemaOf(s).functions = fs
  BY DEF SchemaOf
<1>3. DOMAIN fs = 1..Len(s.functions) /\ Len(s.functions) \in Nat
  BY <1>1
<1>4. Len(fs) = Len(s.functions)
  BY <1>3
<1>5. DOMAIN s.functions = 1..Len(s.functions)
  BY <1>1
<1> QED BY <1>1, <1>2, <1>3, <1>4, <1>5 DEF ToSet

(* What the analyser sees of a function. *)
LEMMA FunctionShape ==
    ASSUME NEW s \in Sources, NEW f \in FunctionDecls
    PROVE  LET g == FunctionOf(s, f)
           IN  /\ g.name = f.name /\ g.exported = f.exported
               /\ Len(f.params) \in Nat /\ Len(f.results) \in Nat
               /\ Len(g.params) = Len(f.params)
               /\ Len(g.results) = Len(f.results)
               /\ \A i \in 1..Len(f.params) :
                     /\ f.params[i] \in Exprs
                     /\ g.params[i] = Resolve(s, f.params[i])
               /\ \A i \in 1..Len(f.results) :
                     /\ f.results[i] \in Exprs
                     /\ g.results[i] = Resolve(s, f.results[i])
<1>1. f.params \in Seq(Exprs) /\ f.results \in Seq(Exprs)
  BY DEF FunctionDecls
<1>2. \A es \in Seq(Exprs) :
         /\ Len(es) \in Nat
         /\ Len(ResolveAll(s, es)) = Len(es)
         /\ \A i \in 1..Len(es) : es[i] \in Exprs /\ ResolveAll(s, es)[i] = Resolve(s, es[i])
  <2> TAKE es \in Seq(Exprs)
  <2> DEFINE ts == [i \in 1..Len(es) |-> Resolve(s, es[i])]
  <2>1. Len(es) \in Nat /\ DOMAIN ts = 1..Len(es)
    OBVIOUS
  <2>2. Len(ts) = Len(es)
    BY <2>1
  <2> QED BY <2>1, <2>2 DEF ResolveAll
<1> QED BY <1>1, <1>2 DEF FunctionOf

(* A function returns one error where its source says so. *)
LEMMA OneError ==
    ASSUME NEW s \in Sources, NEW f \in FunctionDecls
    PROVE  IsSingleErrorResult(FunctionOf(s, f)) <=> WriteByDocument(f)
<1> DEFINE g == FunctionOf(s, f)
<1>1. /\ Len(f.results) \in Nat /\ Len(g.results) = Len(f.results)
      /\ \A i \in 1..Len(f.results) :
             f.results[i] \in Exprs /\ g.results[i] = Resolve(s, f.results[i])
  BY FunctionShape
<1>2. f.results \in Seq(Exprs)
  BY DEF FunctionDecls
<1>3. f.results = <<Ident("error")>>
         <=> Len(f.results) = 1 /\ f.results[1] = Ident("error")
  <2> DEFINE x == Ident("error")
  <2>1. <<x>> \in Seq({x}) /\ Len(<<x>>) = 1 /\ <<x>>[1] = x
    OBVIOUS
  <2> HIDE DEF x
  <2>2. ASSUME Len(f.results) = 1, f.results[1] = x
        PROVE  f.results = <<x>>
    <3>1. f.results \in Seq(Exprs \cup {x}) /\ <<x>> \in Seq(Exprs \cup {x})
      BY <1>2, <2>1
    <3>2. \A i \in 1..Len(f.results) : f.results[i] = <<x>>[i]
      BY <2>1, <2>2
    <3> QED BY <2>1, <2>2, <3>1, <3>2, SeqEqual
  <2> QED BY <2>1, <2>2 DEF x
<1> HIDE DEF g
<1>4. Len(f.results) = 1 =>
         (IsNamedAs(g.results[1], "error") <=> f.results[1] = Ident("error"))
  BY <1>1, ErrorExpr DEF Resolve
<1>5. IsSingleErrorResult(g) <=> WriteByDocument(f)
  BY <1>1, <1>3, <1>4 DEF IsSingleErrorResult, WriteByDocument
<1> QED BY <1>5 DEF g

(* A function takes the context its source names, and no other. *)
LEMMA ContextTaken ==
    ASSUME NEW s \in Sources, NEW f \in FunctionDecls, NEW c \in Contexts
    PROVE  /\ TakesFirst(FunctionOf(s, f), c) <=> Takes(f, c)
           /\ \A d \in Contexts \ {c} :
                 TakesFirst(FunctionOf(s, f), c) => ~TakesFirst(FunctionOf(s, f), d)
<1> DEFINE g == FunctionOf(s, f)
<1>1. /\ Len(f.params) \in Nat /\ Len(g.params) = Len(f.params)
      /\ \A i \in 1..Len(f.params) :
             f.params[i] \in Exprs /\ g.params[i] = Resolve(s, f.params[i])
  BY FunctionShape
<1>2. f.params \in Seq(Exprs)
  BY DEF FunctionDecls
<1>3. f.params # <<>> <=> Len(f.params) > 0
  BY <1>2
<1> HIDE DEF g
<1>4. ASSUME Len(f.params) > 0
      PROVE  /\ IsContextTypeNamed(g.params[1], c) <=> f.params[1] \in Naming(c)
             /\ g.params[1] \in Types
  <2>1. 1 \in 1..Len(f.params)
    BY <1>1, <1>4
  <2> QED BY <1>1, <2>1, ContextExpr, ResolvedAreTypes DEF Resolve
<1>5. \A d \in Contexts \ {c} : TakesFirst(g, c) => ~TakesFirst(g, d)
  BY <1>1, <1>4, OneContext DEF TakesFirst, Contexts
<1>6. TakesFirst(g, c) <=> Takes(f, c)
  BY <1>1, <1>3, <1>4 DEF TakesFirst, Takes
<1> QED BY <1>5, <1>6 DEF g

(* Arguments that are scalars are written so. *)
LEMMA ScalarsTaken ==
    ASSUME NEW s \in Sources, NEW f \in FunctionDecls,
           ScalarParams(SchemaOf(s), FunctionOf(s, f)), f.params # <<>>
    PROVE  ScalarsBeside(f)
<1> DEFINE g == FunctionOf(s, f)
<1>1. /\ Len(f.params) \in Nat /\ Len(g.params) = Len(f.params)
      /\ \A i \in 1..Len(f.params) :
             f.params[i] \in Exprs /\ g.params[i] = Resolve(s, f.params[i])
  BY FunctionShape
<1>2. f.params \in Seq(Exprs)
  BY DEF FunctionDecls
<1>3. SchemaOf(s).structs = Structs(s.types)
  BY DEF SchemaOf
<1> HIDE DEF g
<1>4. \A i \in 2..Len(f.params) : f.params[i] \in ScalarExprs
  <2> TAKE i \in 2..Len(f.params)
  <2>1. i \in 1..Len(f.params) /\ i \in 2..Len(g.params)
    BY <1>1
  <2>2. IsScalar(Structs(s.types), g.params[i])
    BY <1>3, <2>1 DEF g, ScalarParams, ScalarABITypeSupported
  <2> QED BY <1>1, <2>1, <2>2, ScalarExpr DEF Resolve
<1>5. Len(Tail(f.params)) = Len(f.params) - 1 /\ Tail(f.params) \in Seq(Exprs)
  BY <1>2
<1>6. \A i \in 1..Len(Tail(f.params)) :
         i + 1 \in 2..Len(f.params) /\ Tail(f.params)[i] = f.params[i + 1]
  BY <1>2, <1>5
<1> QED BY <1>4, <1>5, <1>6 DEF ScalarsBeside, ToSet

(* Every function that is no Initialize and is exported has a shape. *)
LEMMA AllowedAreDocumented ==
    ASSUME NEW s \in Sources, NEW f \in FunctionDecls,
           f.exported, f.name # "Initialize",
           FunctionAllowed(SchemaOf(s), FunctionOf(s, f))
    PROVE  /\ ~Takes(f, "ContractContext")
           /\ Takes(f, "WriteContext") => WriteByDocument(f)
           /\ Takes(f, "QueryContext") => QueryByDocument(f)
           /\ Takes(f, "WriteContext") \/ Takes(f, "QueryContext") =>
                 ScalarsBeside(f)
<1> DEFINE sc == SchemaOf(s)
           g == FunctionOf(s, f)
<1>1. g.name = f.name /\ g.exported = f.exported
  BY FunctionShape
<1>2. /\ ~UsesLegacyContractContext(g)
      /\ \/ ~IsWriteContextCallable(g) /\ ~IsQueryContextCallable(g)
         \/ IsTypedWriteShape(g) /\ ScalarParams(sc, g)
         \/ IsTypedQueryShape(g) /\ ScalarParams(sc, g)
  <2> HIDE DEF g, sc
  <2>1. FunctionAllowed(sc, g)
    BY DEF g, sc
  <2> QED BY <1>1, <2>1 DEF FunctionAllowed
<1>3. /\ IsWriteContextCallable(g) <=> Takes(f, "WriteContext")
      /\ IsQueryContextCallable(g) <=> Takes(f, "QueryContext")
      /\ UsesLegacyContractContext(g) <=> Takes(f, "ContractContext")
      /\ ~(IsWriteContextCallable(g) /\ IsQueryContextCallable(g))
  <2> HIDE DEF g
  <2>1. \A c \in Contexts :
          /\ TakesFirst(g, c) <=> Takes(f, c)
          /\ \A d \in Contexts \ {c} : TakesFirst(g, c) => ~TakesFirst(g, d)
    BY ContextTaken DEF g
  <2> QED BY <2>1 DEF Contexts, IsWriteContextCallable, IsQueryContextCallable,
                     UsesLegacyContractContext
<1>4. IsSingleErrorResult(g) <=> WriteByDocument(f)
  BY OneError
<1>5. ASSUME IsTypedQueryShape(g)
      PROVE  QueryByDocument(f)
  <2>1. /\ Len(f.results) \in Nat /\ Len(g.results) = Len(f.results)
        /\ \A i \in 1..Len(f.results) :
               f.results[i] \in Exprs /\ g.results[i] = Resolve(s, f.results[i])
    BY FunctionShape
  <2> HIDE DEF g
  <2>2. CASE Len(g.results) = 1 /\ ~IsSingleErrorResult(g)
    <3>1. ~IsNamedAs(g.results[1], "error")
      BY <2>2 DEF IsSingleErrorResult
    <3>2. f.results[1] # Ident("error")
      BY <2>1, <2>2, <3>1, ErrorExpr DEF Resolve
    <3> QED BY <2>1, <2>2, <3>2 DEF QueryByDocument
  <2>3. CASE Len(g.results) = 2 /\ g.results[2] = Scalar("bool")
    <3>1. f.results[2] = Ident("bool")
      BY <2>1, <2>3, BoolExpr DEF Resolve
    <3> QED BY <2>1, <2>3, <3>1 DEF QueryByDocument
  <2> QED BY <1>5, <2>2, <2>3 DEF IsTypedQueryShape
<1>6. ScalarParams(sc, g) /\ f.params # <<>> => ScalarsBeside(f)
  BY ScalarsTaken
<1>7. \A c : Takes(f, c) => f.params # <<>>
  BY DEF Takes
<1> HIDE DEF g, sc
<1>8. ~Takes(f, "ContractContext")
  BY <1>2, <1>3
<1>9. ASSUME Takes(f, "WriteContext")
      PROVE  WriteByDocument(f) /\ ScalarParams(sc, g)
  <2>1. IsWriteContextCallable(g) /\ ~IsQueryContextCallable(g)
    BY <1>3, <1>9
  <2>2. IsTypedWriteShape(g) /\ ScalarParams(sc, g)
    BY <1>2, <2>1 DEF IsTypedQueryShape
  <2> QED BY <1>4, <2>2 DEF IsTypedWriteShape
<1>10. ASSUME Takes(f, "QueryContext")
       PROVE  QueryByDocument(f) /\ ScalarParams(sc, g)
  <2>1. IsQueryContextCallable(g) /\ ~IsWriteContextCallable(g)
    BY <1>3, <1>10
  <2>2. IsTypedQueryShape(g) /\ ScalarParams(sc, g)
    BY <1>2, <2>1 DEF IsTypedWriteShape
  <2> QED BY <1>5, <2>2
<1> QED BY <1>6, <1>7, <1>8, <1>9, <1>10

---------------------------------------------------------------------------
(* An admission is that of the analysis of the source. *)
Judged == source \in Sources /\ (verdict = "admitted" => Admitted(source))

(* What the theorems about admitted sources rest on. *)
LEMMA JudgedInv == Spec => []Judged
<1>1. Init => Judged
  BY DEF Init, Judged
<1>2. Judged /\ [Next]_vars => Judged'
  <2> SUFFICES ASSUME Judged, [Next]_vars
               PROVE  Judged'
    OBVIOUS
  <2>1. source' = source
    BY DEF Next, Analyze, vars
  <2>2. verdict' = "admitted" => Admitted(source)
    BY DEF Judged, Next, Analyze, vars
  <2>3. (verdict = "admitted" => Admitted(source))'
    BY <2>1, <2>2
  <2> QED BY <2>1, <2>3 DEF Judged
<1> QED BY <1>1, <1>2, PTL DEF Spec

(* finalizeContractSchema admits a source only if its first Initialize and *)
(* every exported function that takes a context have the documented        *)
(* results and arguments, whatever the source is.                          *)
THEOREM FunctionShapes == Spec => []FunctionsAsDocumented
<1>1. Judged => FunctionsAsDocumented
  <2> SUFFICES ASSUME Judged, verdict = "admitted"
               PROVE  FunctionsAsDocumented
    BY DEF FunctionsAsDocumented
  <2> DEFINE s == source
  <2>1. s \in Sources /\ Finalized(s, SchemaOf(s))
    BY DEF Judged, Admitted
  <2> DEFINE fs == s.functions
             gs == SchemaOf(s).functions
  <2>2. \E i \in 1..Len(fs) :
          /\ FirstInitialize(fs, i)
          /\ Takes(fs[i], "WriteContext") /\ ScalarsBeside(fs[i]) /\ WriteByDocument(fs[i])
    <3>1. PICK i \in 1..Len(gs) :
                 /\ gs[i].name = "Initialize"
                 /\ \A j \in 1..i-1 : gs[j].name # "Initialize"
                 /\ IsTypedInitializeShape(gs[i])
                 /\ ScalarParams(SchemaOf(s), gs[i])
      BY <2>1 DEF Finalized
    <3>2. /\ Len(gs) = Len(fs) /\ Len(fs) \in Nat
          /\ \A j \in 1..Len(fs) : fs[j] \in FunctionDecls /\ gs[j] = FunctionOf(s, fs[j])
      BY <2>1, SourceShape
    <3> HIDE DEF s, fs, gs
    <3>3. \A j \in 1..Len(fs) : gs[j].name = fs[j].name
      <4>1. \A f : FunctionOf(s, f).name = f.name
        BY DEF FunctionOf
      <4> QED BY <3>2, <4>1
    <3>4. FirstInitialize(fs, i)
      BY <3>1, <3>2, <3>3 DEF FirstInitialize
    <3>5. /\ TakesFirst(FunctionOf(s, fs[i]), "WriteContext")
          /\ IsSingleErrorResult(FunctionOf(s, fs[i]))
          /\ ScalarParams(SchemaOf(s), FunctionOf(s, fs[i]))
      BY <3>1, <3>2 DEF IsTypedInitializeShape, IsWriteContextCallable
    <3>6. fs[i] \in FunctionDecls /\ i \in 1..Len(fs)
      BY <3>2
    <3>7. Takes(fs[i], "WriteContext")
      BY <2>1, <3>5, <3>6, ContextTaken DEF Contexts
    <3>8. ScalarsBeside(fs[i])
      BY <2>1, <3>5, <3>6, <3>7, ScalarsTaken DEF Takes
    <3>9. WriteByDocument(fs[i])
      BY <2>1, <3>5, <3>6, OneError
    <3> QED BY <3>4, <3>6, <3>7, <3>8, <3>9
  <2>3. ASSUME NEW f \in ToSet(s.functions), f.exported, f.name # "Initialize"
        PROVE  /\ ~Takes(f, "ContractContext")
               /\ Takes(f, "WriteContext") => WriteByDocument(f)
               /\ Takes(f, "QueryContext") => QueryByDocument(f)
               /\ Takes(f, "WriteContext") \/ Takes(f, "QueryContext") =>
                     ScalarsBeside(f)
    <3>1. /\ f \in FunctionDecls
          /\ FunctionOf(s, f) \in ToSet(SchemaOf(s).functions)
      <4>1. PICK i \in 1..Len(s.functions) : f = s.functions[i]
        BY <2>1, <2>3, SourceShape
      <4> HIDE DEF s
      <4> QED BY <2>1, <4>1, SourceShape
    <3>2. FunctionAllowed(SchemaOf(s), FunctionOf(s, f))
      BY <2>1, <3>1 DEF Finalized
    <3> QED BY <2>1, <2>3, <3>1, <3>2, AllowedAreDocumented
  <2> QED BY <2>2, <2>3 DEF FunctionsAsDocumented
<1> QED BY <1>1, JudgedInv, PTL

---------------------------------------------------------------------------
(* The types that may be kept.                                             *)

(* The checks of types that may be kept ask what the documentation says,   *)
(* of the structs they take for good.                                      *)
LEMMA SupportedByDocument ==
    ASSUME NEW decls, NEW t, NEW good
    PROVE  LET structs == Structs(decls)
           IN  /\ ElemSupported(structs, t, good) <=> DocumentedElem(good, t)
               /\ FieldSupported(structs, t, good) <=> Documented(good, t)
               /\ \/ IsScalar(structs, t)
                  \/ MapSupported(structs, t, good)
                  \/ SliceSupported(structs, t, good)
                  \/ t.kind = "named" /\ t.name \in good
                  <=> Documented(good, t)
<1> DEFINE structs == Structs(decls)
<1>1. \A u : ElemSupported(structs, u, good) <=> DocumentedElem(good, u)
  BY IsScalarByKind DEF ElemSupported, DocumentedElem
<1>2. \A u : ResolveType(structs, u) = Scalar("string") <=> u = Scalar("string")
  <2> TAKE u
  <2>1. Scalar("string").kind = "scalar"
    BY DEF Scalar
  <2> QED BY <2>1, StructsAreStructs DEF ResolveType
<1> HIDE DEF structs
<1>3. MapSupported(structs, t, good)
        <=> t.kind = "map" /\ t.key = Scalar("string") /\ DocumentedElem(good, t.elem)
  BY <1>1, <1>2 DEF MapSupported
<1>4. SliceSupported(structs, t, good)
        <=> t.kind = "slice" /\ DocumentedElem(good, t.elem)
  BY <1>1 DEF SliceSupported
<1>5. FieldSupported(structs, t, good) <=> Documented(good, t)
  BY <1>1, <1>3, <1>4 DEF FieldSupported, Documented
<1>6. IsScalar(structs, t) \/ (t.kind = "named" /\ t.name \in good)
        <=> DocumentedElem(good, t)
  BY <1>1 DEF ElemSupported
<1> QED BY <1>1, <1>3, <1>4, <1>5, <1>6 DEF Documented, structs

(* More good structs, more good types. *)
LEMMA MoreAreDocumented ==
    ASSUME NEW G, NEW H, G \subseteq H, NEW structs, NEW n,
           HasDocumentedFields(structs, G, n)
    PROVE  HasDocumentedFields(structs, H, n)
BY DEF HasDocumentedFields, Documented, DocumentedElem

---------------------------------------------------------------------------
(* The structs that are supported when some are being resolved. *)
Resolving(structs) == SUBSET DOMAIN structs

Unresolved(structs, resolving) == Cardinality(DOMAIN structs \ resolving)

SupportedAt(structs, supported, resolving) ==
    {name \in DOMAIN structs \ resolving :
       \A i \in 1..Len(structs[name].fields) :
          FieldSupported(structs, structs[name].fields[i],
                         supported[resolving \cup {name}])}

OfSupported == INSTANCE Recursion
    WITH S <- Resolving, Rank <- Unresolved, Def <- SupportedAt

(* The more is being resolved, the less is left. *)
LEMMA MoreIsResolved ==
    ASSUME NEW structs, IsFiniteSet(DOMAIN structs),
           NEW R \in Resolving(structs), NEW Q \in Resolving(structs), R \subseteq Q
    PROVE  /\ Unresolved(structs, R) \in Nat
           /\ Unresolved(structs, Q) <= Unresolved(structs, R)
           /\ R # Q => Unresolved(structs, Q) < Unresolved(structs, R)
<1> DEFINE D == DOMAIN structs
<1>1. IsFiniteSet(D \ R) /\ IsFiniteSet(D \ Q) /\ D \ Q \subseteq D \ R
  BY FS_Subset
<1>2. /\ Cardinality(D \ Q) \in Nat /\ Cardinality(D \ R) \in Nat
      /\ Cardinality(D \ Q) <= Cardinality(D \ R)
      /\ Cardinality(D \ Q) = Cardinality(D \ R) => D \ Q = D \ R
  BY <1>1, FS_Subset, FS_CardinalityType
<1>3. D \ Q = D \ R => R = Q
  BY DEF Resolving
<1> QED BY <1>2, <1>3 DEF Unresolved

(* SupportedStructs, by the structs being resolved. *)
LEMMA SupportedByResolving ==
    ASSUME NEW structs, IsFiniteSet(DOMAIN structs)
    PROVE  \E supported :
              /\ \A R \in Resolving(structs) :
                    supported[R] = SupportedAt(structs, supported, R)
              /\ SupportedStructs(structs) = supported[{}]
<1> DEFINE supported ==
             CHOOSE g : g = [R \in Resolving(structs) |-> SupportedAt(structs, g, R)]
<1>1. OfSupported!Ranked(structs)
  BY MoreIsResolved DEF OfSupported!Ranked
<1>2. OfSupported!Descends(structs)
  <2> SUFFICES ASSUME NEW g, NEW h, NEW R \in Resolving(structs),
                      \A Q \in Resolving(structs) :
                         Unresolved(structs, Q) < Unresolved(structs, R) => g[Q] = h[Q]
               PROVE  SupportedAt(structs, g, R) = SupportedAt(structs, h, R)
    BY DEF OfSupported!Descends
  <2>1. ASSUME NEW n \in DOMAIN structs \ R
        PROVE  g[R \cup {n}] = h[R \cup {n}]
    <3>1. R \cup {n} \in Resolving(structs) /\ R # R \cup {n}
      BY DEF Resolving
    <3> QED BY <3>1, MoreIsResolved
  <2> QED BY <2>1 DEF SupportedAt
<1>3. supported = CHOOSE g : OfSupported!Defines(structs, g)
  BY DEF OfSupported!Defines
<1>4. OfSupported!Defines(structs, supported)
  <2> HIDE DEF supported
  <2> QED BY <1>1, <1>2, <1>3, OfSupported!Recursion
<1>5. SupportedStructs(structs) = supported[{}]
  BY DEF SupportedStructs, SupportedAt, Resolving
<1> HIDE DEF supported
<1> QED BY <1>4, <1>5 DEF OfSupported!Defines

---------------------------------------------------------------------------
(* What a set of good structs makes good, and the sets it adds nothing to. *)
MadeGood(structs, G) == {n \in DOMAIN structs : HasDocumentedFields(structs, G, n)}

(* validateNamedStructTypeRecursive, which carries the structs being       *)
(* resolved, finds the least set of structs the documentation allows: it   *)
(* finds only what is in every set closed under the rule, and of the sets  *)
(* that are built up by the rule a largest one is closed, and is found.    *)
LEMMA SupportedAreDocumented ==
    ASSUME NEW decls, IsFiniteSet(DOMAIN Structs(decls))
    PROVE  SupportedStructs(Structs(decls)) = DocumentedStructs(Structs(decls))
<1> DEFINE structs == Structs(decls)
           D == DOMAIN structs
<1>1. PICK sup : /\ \A R \in Resolving(structs) : sup[R] = SupportedAt(structs, sup, R)
                 /\ SupportedStructs(structs) = sup[{}]
  BY SupportedByResolving
<1>2. \A R \in SUBSET D :
         sup[R] = {n \in D \ R : HasDocumentedFields(structs, sup[R \cup {n}], n)}
  <2>1. \A t, good : FieldSupported(structs, t, good) <=> Documented(good, t)
    BY SupportedByDocument
  <2> HIDE DEF structs
  <2> SUFFICES ASSUME NEW R \in SUBSET D
               PROVE  sup[R] = {n \in D \ R :
                                  HasDocumentedFields(structs, sup[R \cup {n}], n)}
    OBVIOUS
  <2>2. sup[R] = SupportedAt(structs, sup, R)
    BY <1>1 DEF Resolving
  <2> QED BY <2>1, <2>2 DEF SupportedAt, HasDocumentedFields
<1>3. IsFiniteSet(D)
  OBVIOUS
<1>4. \A p : OfSupported!Ranked(p) <=> \A R \in Resolving(p) : Unresolved(p, R) \in Nat
  BY DEF OfSupported!Ranked
<1> HIDE DEF structs
<1>5. OfSupported!Ranked(structs)
  BY <1>3, <1>4, MoreIsResolved
<1>6. ASSUME NEW G \in SUBSET D, MadeGood(structs, G) \subseteq G
      PROVE  \A R \in SUBSET D : sup[R] \subseteq G
  <2> DEFINE T == {R \in SUBSET D : ~(sup[R] \subseteq G)}
  <2> SUFFICES ASSUME T # {} PROVE FALSE
    OBVIOUS
  <2>1. T \in SUBSET Resolving(structs)
    BY DEF Resolving
  <2>2. PICK R \in T : \A Q \in T : Unresolved(structs, R) <= Unresolved(structs, Q)
    <3> HIDE DEF T
    <3> QED BY <1>5, <2>1, OfSupported!LeastRank
  <2>3. PICK n \in sup[R] : n \notin G
    BY <2>2
  <2>4. n \in D \ R /\ HasDocumentedFields(structs, sup[R \cup {n}], n)
    BY <1>2, <2>2, <2>3
  <2>5. R \cup {n} \notin T
    <3>1. R \cup {n} \in Resolving(structs) /\ R \in Resolving(structs) /\ R # R \cup {n}
      BY <2>2, <2>4 DEF Resolving
    <3>2. /\ Unresolved(structs, R \cup {n}) < Unresolved(structs, R)
          /\ Unresolved(structs, R) \in Nat /\ Unresolved(structs, R \cup {n}) \in Nat
      BY <1>3, <3>1, MoreIsResolved
    <3> HIDE DEF T
    <3> QED BY <2>2, <3>2
  <2>6. sup[R \cup {n}] \subseteq G
    BY <2>2, <2>4, <2>5
  <2>7. n \in MadeGood(structs, G)
    BY <2>4, <2>6, MoreAreDocumented DEF MadeGood
  <2> QED BY <1>6, <2>3, <2>7
<1> DEFINE Within(G) == \A R \in SUBSET D : R \cap G = {} => G \subseteq sup[R]
           Reached == {G \in SUBSET D : Within(G) /\ G \subseteq MadeGood(structs, G)}
<1>7. ASSUME NEW G \in Reached
      PROVE  MadeGood(structs, G) \in Reached
  <2> DEFINE H == MadeGood(structs, G)
  <2>1. H \in SUBSET D /\ G \subseteq H
    BY <1>7 DEF MadeGood
  <2>2. H \subseteq MadeGood(structs, H)
    BY <2>1, MoreAreDocumented DEF MadeGood
  <2>3. ASSUME NEW R \in SUBSET D, R \cap H = {}, NEW n \in H
        PROVE  n \in sup[R]
    <3>1. CASE n \in G
      <4>1. R \cap G = {}
        BY <2>1, <2>3
      <4> QED BY <1>7, <3>1, <4>1
    <3>2. CASE n \notin G
      <4>1. (R \cup {n}) \cap G = {} /\ R \cup {n} \in SUBSET D
        BY <2>1, <2>3, <3>2
      <4>2. G \subseteq sup[R \cup {n}]
        BY <1>7, <4>1
      <4>3. HasDocumentedFields(structs, G, n)
        BY <2>3 DEF MadeGood
      <4>4. HasDocumentedFields(structs, sup[R \cup {n}], n)
        BY <4>2, <4>3, MoreAreDocumented
      <4>5. n \in D \ R
        BY <2>1, <2>3
      <4> QED BY <1>2, <4>4, <4>5
    <3> QED BY <3>1, <3>2
  <2> HIDE DEF H
  <2>4. Within(H)
    BY <2>3
  <2>5. H \in Reached
    BY <2>1, <2>2, <2>4
  <2> QED BY <2>5 DEF H
<1>8. {} \in Reached
  OBVIOUS
<1>9. PICK G \in Reached : \A H \in Reached : Unresolved(structs, G) <= Unresolved(structs, H)
  <2>1. Reached \in SUBSET Resolving(structs) /\ Reached # {}
    BY <1>8 DEF Resolving
  <2> HIDE DEF Reached
  <2> QED BY <1>5, <2>1, OfSupported!LeastRank
<1>10. G \in SUBSET D /\ G \subseteq sup[{}] /\ G \subseteq MadeGood(structs, G)
  <2>1. {} \in SUBSET D /\ {} \cap G = {}
    OBVIOUS
  <2> QED BY <2>1
<1>11. MadeGood(structs, G) = G
  <2>1. MadeGood(structs, G) \in Reached
    BY <1>7
  <2>2. MadeGood(structs, G) \in Resolving(structs) /\ G \in Resolving(structs)
    BY <1>10 DEF MadeGood, Resolving
  <2>3. Unresolved(structs, G) <= Unresolved(structs, MadeGood(structs, G))
    BY <1>9, <2>1
  <2> HIDE DEF Reached, Within
  <2>4. /\ Unresolved(structs, G) \in Nat /\ Unresolved(structs, MadeGood(structs, G)) \in Nat
        /\ G # MadeGood(structs, G) =>
              Unresolved(structs, MadeGood(structs, G)) < Unresolved(structs, G)
    BY <1>3, <1>10, <2>2, MoreIsResolved
  <2> QED BY <2>3, <2>4
<1>12. \A H \in SUBSET D :
          (\A m \in D : HasDocumentedFields(structs, H, m) => m \in H)
             <=> MadeGood(structs, H) \subseteq H
  BY DEF MadeGood
<1>13. DocumentedStructs(structs)
          = {n \in D : \A H \in SUBSET D : MadeGood(structs, H) \subseteq H => n \in H}
  BY <1>12 DEF DocumentedStructs
<1>14. sup[{}] \subseteq G
  BY <1>6, <1>10, <1>11
<1>15. sup[{}] \subseteq DocumentedStructs(structs)
  <2>1. sup[{}] \subseteq D
    BY <1>10, <1>14
  <2> QED BY <1>6, <1>13, <2>1
<1>16. DocumentedStructs(structs) \subseteq G
  BY <1>10, <1>11, <1>13
<1> QED BY <1>1, <1>10, <1>14, <1>15, <1>16 DEF structs

(* A source declares finitely many structs. *)
LEMMA StructsAreFinite ==
    ASSUME NEW s \in Sources
    PROVE  IsFiniteSet(DOMAIN Structs(s.types))
<1>1. DOMAIN Structs(s.types) \subseteq DOMAIN s.types
  BY StructsAreStructs
<1>2. IsFiniteSet(DOMAIN s.types)
  BY SchemaAssumption
<1> QED BY <1>1, <1>2, FS_Subset

(* A state and a query may have the documented types. *)
LEMMA KeptAreDocumented ==
    ASSUME NEW s \in Sources, NEW t
    PROVE  LET structs == SchemaOf(s).structs
           IN  /\ PersistentTypeSupported(structs, t)
                     <=> Documented(DocumentedStructs(structs), t)
               /\ CompositeABITypeSupported(structs, t)
                     <=> Documented(DocumentedStructs(structs), t)
<1> DEFINE structs == Structs(s.types)
           good == SupportedStructs(structs)
<1>1. SchemaOf(s).structs = structs
  BY DEF SchemaOf
<1>2. good = DocumentedStructs(structs)
  BY StructsAreFinite, SupportedAreDocumented
<1>3. \/ IsScalar(structs, t)
      \/ MapSupported(structs, t, good)
      \/ SliceSupported(structs, t, good)
      \/ t.kind = "named" /\ t.name \in good
      <=> Documented(good, t)
  BY SupportedByDocument
<1> QED BY <1>1, <1>2, <1>3
        DEF PersistentTypeSupported, CompositeABITypeSupported, NamedStructSupported

(* A query that is allowed returns a documented type. *)
LEMMA QueriesAreDocumented ==
    ASSUME NEW s \in Sources, NEW f \in FunctionDecls,
           FunctionAllowed(SchemaOf(s), FunctionOf(s, f)),
           IsTypedQueryShape(FunctionOf(s, f))
    PROVE  CompositeABITypeSupported(SchemaOf(s).structs, FunctionOf(s, f).results[1])
<1> DEFINE g == FunctionOf(s, f)
<1>1. /\ Len(g.params) = Len(f.params) /\ Len(f.params) \in Nat
      /\ \A i \in 1..Len(f.params) :
             f.params[i] \in Exprs /\ g.params[i] = Resolve(s, f.params[i])
  BY FunctionShape
<1>2. FunctionAllowed(SchemaOf(s), g) /\ IsTypedQueryShape(g)
  OBVIOUS
<1> HIDE DEF g
<1>3. Len(g.params) > 0 /\ IsContextTypeNamed(g.params[1], "QueryContext")
  BY <1>2 DEF IsTypedQueryShape, IsQueryContextCallable, TakesFirst
<1>4. g.params[1] \in Types
  BY <1>1, <1>3, ResolvedAreTypes DEF Resolve
<1>5. ~IsContextTypeNamed(g.params[1], "WriteContext")
  BY <1>3, <1>4, OneContext
<1>6. ~IsWriteContextCallable(g)
  BY <1>5 DEF IsWriteContextCallable, TakesFirst
<1>7. ~IsTypedWriteShape(g) /\ IsQueryContextCallable(g) /\ g.exported
      /\ g.name # "Initialize"
  BY <1>2, <1>6 DEF IsTypedWriteShape, IsTypedQueryShape
<1>8. CompositeABITypeSupported(SchemaOf(s).structs, g.results[1])
  BY <1>2, <1>7 DEF FunctionAllowed
<1> QED BY <1>8 DEF g

(* The recursive checks of ValidatePersistentGlobalType and                *)
(* validateCompositeABIType admit the documented types and no others,      *)
(* through every cycle of declarations.                                    *)
THEOREM StateTypes == Spec => []StateTypesAsDocumented
<1>1. Judged => StateTypesAsDocumented
  <2> SUFFICES ASSUME Judged
               PROVE  StateTypesAsDocumented
    OBVIOUS
  <2> DEFINE s == source
             good == DocumentedStructs(Schema.structs)
  <2>1. s \in Sources /\ Schema = SchemaOf(s)
    BY DEF Judged, Schema
  <2>2. \A t : /\ PersistentTypeSupported(Schema.structs, t) <=> Documented(good, t)
               /\ CompositeABITypeSupported(Schema.structs, t) <=> Documented(good, t)
    BY <2>1, KeptAreDocumented
  <2>3. ASSUME verdict = "admitted"
        PROVE  /\ \A i \in 1..Len(Schema.globals) :
                     Documented(good, Schema.globals[i].type)
               /\ \A f \in ToSet(Schema.functions) :
                     IsTypedQueryShape(f) => Documented(good, f.results[1])
    <3>1. Finalized(s, Schema)
      BY <2>1, <2>3 DEF Judged, Admitted
    <3> HIDE DEF good, s
    <3>2. \A i \in 1..Len(Schema.globals) : Documented(good, Schema.globals[i].type)
      BY <2>2, <3>1 DEF Finalized
    <3>3. ASSUME NEW f \in ToSet(Schema.functions), IsTypedQueryShape(f)
          PROVE  Documented(good, f.results[1])
      <4>1. PICK i \in 1..Len(s.functions) : f = FunctionOf(s, s.functions[i])
        BY <2>1, SourceShape
      <4>2. s.functions[i] \in FunctionDecls
        BY <2>1, SourceShape
      <4>3. FunctionAllowed(SchemaOf(s), f)
        BY <2>1, <3>1 DEF Finalized
      <4>4. CompositeABITypeSupported(SchemaOf(s).structs, f.results[1])
        BY <2>1, <3>3, <4>1, <4>2, <4>3, QueriesAreDocumented
      <4> QED BY <2>1, <2>2, <4>4
    <3> QED BY <3>2, <3>3
  <2> QED BY <2>2, <2>3 DEF StateTypesAsDocumented
<1> QED BY <1>1, JudgedInv, PTL

---------------------------------------------------------------------------
(* What is stored of a type.                                               *)

StoredRef(kind, scalar, name, qualified, key, elem, fields) ==
    [kind |-> kind, scalar |-> scalar, name |-> name, qualified |-> qualified,
     key |-> key, elem |-> elem, fields |-> fields]

(* What is stored of each kind of type. *)
LEMMA StoredShape ==
    ASSUME NEW n, NEW t \in TypesTo[n], NEW S, NEW inner,
           NEW d, d = PersistedOver(inner, n)[t]
    PROVE  /\ t \in [kind : {"scalar"}, scalar : Scalars] =>
                 d = StoredRef("scalar", t.scalar, "", FALSE, <<>>, <<>>, <<>>)
           /\ t \in [kind : {"named"}, name : STRING] =>
                 d = StoredRef("named", "", t.name, FALSE, <<>>, <<>>, <<>>)
           /\ t \in [kind : {"opaque"}, name : STRING, qualified : BOOLEAN] =>
                 d = StoredRef("opaque", "", t.name, t.qualified, <<>>, <<>>, <<>>)
           /\ t \in [kind : {"map"}, key : S, elem : S] =>
                 d = StoredRef("map", "", "", FALSE,
                               <<inner[t.key]>>, <<inner[t.elem]>>, <<>>)
           /\ t \in [kind : {"slice"}, elem : S] =>
                 d = StoredRef("slice", "", "", FALSE,
                               <<>>, <<inner[t.elem]>>, <<>>)
<1>1. d = [kind      |-> t.kind,
           scalar    |-> IF "scalar" \in DOMAIN t THEN t.scalar ELSE "",
           name      |-> IF "name" \in DOMAIN t THEN t.name ELSE "",
           qualified |-> "qualified" \in DOMAIN t /\ t.qualified,
           key       |-> IF "key" \in DOMAIN t
                         THEN <<inner[t.key]>> ELSE Nothing,
           elem      |-> IF "elem" \in DOMAIN t
                         THEN <<inner[t.elem]>> ELSE Nothing,
           fields    |-> IF "fields" \in DOMAIN t
                         THEN [i \in 1..Len(t.fields) |-> inner[t.fields[i]]]
                         ELSE <<>>]
  BY DEF PersistedOver
<1>2. ASSUME t \in [kind : {"scalar"}, scalar : Scalars]
      PROVE  d = StoredRef("scalar", t.scalar, "", FALSE, <<>>, <<>>, <<>>)
  <2>1. t.kind = "scalar" /\ DOMAIN t = {"kind", "scalar"}
    BY <1>2
  <2> QED BY <1>1, <2>1 DEF StoredRef, Nothing
<1>3. ASSUME t \in [kind : {"named"}, name : STRING]
      PROVE  d = StoredRef("named", "", t.name, FALSE, <<>>, <<>>, <<>>)
  <2>1. t.kind = "named" /\ DOMAIN t = {"kind", "name"}
    BY <1>3
  <2> QED BY <1>1, <2>1 DEF StoredRef, Nothing
<1>4. ASSUME t \in [kind : {"opaque"}, name : STRING, qualified : BOOLEAN]
      PROVE  d = StoredRef("opaque", "", t.name, t.qualified, <<>>, <<>>, <<>>)
  <2>1. t.kind = "opaque" /\ DOMAIN t = {"kind", "name", "qualified"}
        /\ t.qualified \in BOOLEAN
    BY <1>4
  <2>2. ("qualified" \in DOMAIN t /\ t.qualified) = t.qualified
    BY <2>1
  <2> QED BY <1>1, <2>1, <2>2 DEF StoredRef, Nothing
<1>5. ASSUME t \in [kind : {"map"}, key : S, elem : S]
      PROVE  d = StoredRef("map", "", "", FALSE,
                           <<inner[t.key]>>, <<inner[t.elem]>>, <<>>)
  <2>1. t.kind = "map" /\ DOMAIN t = {"kind", "key", "elem"}
    BY <1>5
  <2> QED BY <1>1, <2>1 DEF StoredRef
<1>6. ASSUME t \in [kind : {"slice"}, elem : S]
      PROVE  d = StoredRef("slice", "", "", FALSE, <<>>, <<inner[t.elem]>>, <<>>)
  <2>1. t.kind = "slice" /\ DOMAIN t = {"kind", "elem"}
    BY <1>6
  <2> QED BY <1>1, <2>1 DEF StoredRef, Nothing
<1> QED BY <1>2, <1>3, <1>4, <1>5, <1>6

HasFields(t) ==
    t.kind = "struct" /\ DOMAIN t = {"kind", "name", "fields"} /\ Len(t.fields) \in Nat

StoredFields(inner, t) == [i \in 1..Len(t.fields) |-> inner[t.fields[i]]]

(* What is stored of a struct. *)
LEMMA StoredStruct ==
    ASSUME NEW n, NEW t \in TypesTo[n], NEW inner,
           NEW d, d = PersistedOver(inner, n)[t], HasFields(t)
    PROVE  d = StoredRef("struct", "", t.name, FALSE, <<>>, <<>>, StoredFields(inner, t))
<1>1. d = [kind |-> t.kind, scalar |-> "", name |-> t.name, qualified |-> FALSE,
           key |-> <<>>, elem |-> <<>>,
           fields |-> [i \in 1..Len(t.fields) |-> inner[t.fields[i]]]]
  BY DEF PersistedOver, Nothing, HasFields
<1> QED BY <1>1 DEF StoredRef, StoredFields, HasFields

(* What is stored of the fields of a struct. *)
LEMMA StoredFieldsShape ==
    ASSUME NEW t, NEW inner, HasFields(t)
    PROVE  LET fs == StoredFields(inner, t)
           IN  /\ Len(fs) = Len(t.fields)
               /\ \A i \in 1..Len(t.fields) : fs[i] = inner[t.fields[i]]
               /\ \A V : (\A i \in 1..Len(t.fields) : inner[t.fields[i]] \in V)
                           => fs \in Seq(V)
<1> DEFINE fs == [i \in 1..Len(t.fields) |-> inner[t.fields[i]]]
<1>1. Len(fs) = Len(t.fields) /\ \A i \in 1..Len(t.fields) : fs[i] = inner[t.fields[i]]
  BY DEF HasFields
<1>2. ASSUME NEW V, \A i \in 1..Len(t.fields) : inner[t.fields[i]] \in V
      PROVE  fs \in Seq(V)
  BY <1>2 DEF HasFields
<1>3. fs = StoredFields(inner, t)
  BY DEF StoredFields
<1> HIDE DEF fs
<1> QED BY <1>1, <1>2, <1>3

(* A record with the places of a stored type is one. *)
LEMMA StoredOverHas ==
    ASSUME NEW S, NEW kind \in Kinds, NEW scalar \in Scalars \cup {""},
           NEW name \in STRING, NEW qualified \in BOOLEAN,
           NEW key \in Seq(S), NEW elem \in Seq(S), NEW fields \in Seq(S)
    PROVE  StoredRef(kind, scalar, name, qualified, key, elem, fields) \in StoredOver(S)
<1>1. kind \in STRING /\ scalar \in STRING
  BY StringsAssumption
<1> QED BY <1>1 DEF StoredRef, StoredOver

(* What is stored with places that fit its kind is read. *)
LEMMA ReadableOver ==
    ASSUME NEW S, NEW kind \in Kinds, NEW scalar \in Scalars \cup {""},
           NEW name \in STRING, NEW qualified \in BOOLEAN,
           NEW key \in Seq(S), NEW elem \in Seq(S), NEW fields \in Seq(S),
           (kind = "map") <=> (key # <<>>),
           (kind \in {"map", "slice"}) <=> (elem # <<>>),
           kind # "struct" => fields = <<>>
    PROVE  LET d == StoredRef(kind, scalar, name, qualified, key, elem, fields)
           IN  d \in {x \in StoredOver(S) : KnownKind(x.kind) /\ ShapeAllowed(x)}
<1> DEFINE d == StoredRef(kind, scalar, name, qualified, key, elem, fields)
<1>1. d \in StoredOver(S)
  BY StoredOverHas
<1>2. d.kind = kind /\ d.key = key /\ d.elem = elem /\ d.fields = fields
  BY DEF StoredRef
<1> HIDE DEF d
<1>3. KnownKind(d.kind)
  BY <1>2 DEF KnownKind, Kinds
<1>4. ShapeAllowed(d)
  BY <1>2 DEF ShapeAllowed, Nothing
<1>5. d \in {x \in StoredOver(S) : KnownKind(x.kind) /\ ShapeAllowed(x)}
  BY <1>1, <1>3, <1>4
<1> QED BY <1>5 DEF d

(* A type is stored so that it is read, and is read as it was. *)
LEMMA TypeSurvives ==
    ASSUME NEW t \in Types
    PROVE  /\ Readable(PersistedTypeRef(t))
           /\ RuntimeTypeRef(PersistedTypeRef(t)) = t
<1>1. PICK pers : /\ \A n \in 0..Nesting : pers[n] = PersistedAt(<<>>, pers, n)
                  /\ \A x : PersistedTypeRef(x) = pers[Nesting][x]
  BY PersistedByLevel
<1>2. PICK read : /\ \A n \in 0..Nesting : read[n] = ReadableAt(<<>>, read, n)
                  /\ \A d : Readable(d) <=> d \in read[Nesting]
  BY ReadableByLevel
<1>3. PICK run : /\ \A n \in 0..Nesting : run[n] = RuntimeAt(<<>>, run, n)
                 /\ \A d : RuntimeTypeRef(d) = run[Nesting][d]
  BY RuntimeByLevel
<1> DEFINE N == {n \in Nat : \A x \in TypesTo[n] : /\ pers[n][x] \in StoredTo[n]
                                                   /\ pers[n][x] \in read[n]
                                                   /\ run[n][pers[n][x]] = x}
<1>4. 0 \in N
  BY NoneAtZero
<1>5. ASSUME NEW n \in N, n + 1 \in 1..Nesting
      PROVE  n + 1 \in N
  <2>1. (n + 1) - 1 = n /\ n + 1 \in 0..Nesting /\ n + 1 # 0
    BY <1>5
  <2> SUFFICES ASSUME NEW x \in TypesTo[n + 1]
               PROVE  /\ pers[n + 1][x] \in StoredTo[n + 1]
                      /\ pers[n + 1][x] \in read[n + 1]
                      /\ run[n + 1][pers[n + 1][x]] = x
    OBVIOUS
  <2> DEFINE d == pers[n + 1][x]
  <2>2. \A y \in TypesTo[n] :
           pers[n][y] \in StoredTo[n] /\ pers[n][y] \in read[n] /\ run[n][pers[n][y]] = y
    BY <1>5
  <2>3. pers[n + 1] = PersistedOver(pers[n], n + 1)
    BY <1>1, <2>1 DEF PersistedAt
  <2>4. read[n + 1] = {y \in StoredOver(read[n]) : KnownKind(y.kind) /\ ShapeAllowed(y)}
    BY <1>2, <2>1 DEF ReadableAt
  <2>5. StoredTo[n + 1] = StoredOver(StoredTo[n])
    BY <2>1, StoredByLevel DEF StoredAt
  <2>6. d = PersistedOver(pers[n], n + 1)[x]
    BY <2>3
  <2>7. \A S : <<>> \in Seq(S) /\ \A a \in S : <<a>> \in Seq(S) /\ <<a>> # <<>>
                                                  /\ <<a>>[1] = a
    OBVIOUS
  <2>8. run[n + 1] = RuntimeOver(run[n], n + 1)
    BY <1>3, <2>1 DEF RuntimeAt
  <2>9. "" \in STRING /\ "" \in Scalars \cup {""} /\ FALSE \in BOOLEAN
    BY StringsAssumption
  <2> HIDE DEF N, d
  <2> SUFFICES d \in StoredTo[n + 1] /\ d \in read[n + 1] /\ run[n + 1][d] = x
    BY DEF d
  <2>10. CASE x \in [kind : {"scalar"}, scalar : Scalars]
    <3>1. d = StoredRef("scalar", x.scalar, "", FALSE, <<>>, <<>>, <<>>)
      BY <2>6, <2>10, StoredShape
    <3>2. x = Scalar(x.scalar) /\ x.scalar \in Scalars
      BY <2>10 DEF Scalar
    <3>3. d \in StoredTo[n + 1]
      <4>1. d \in StoredOver(StoredTo[n])
        BY <2>7, <2>9, <3>1, <3>2, StoredOverHas DEF Kinds
      <4> QED BY <2>5, <4>1
    <3>4. d \in read[n + 1]
      BY <2>4, <2>7, <2>9, <3>1, <3>2, ReadableOver DEF Kinds
    <3>5. d.kind = "scalar" /\ d.scalar = x.scalar
      BY <3>1 DEF StoredRef
    <3>6. run[n + 1][d] = Scalar(x.scalar)
      BY <2>8, <3>3, <3>5 DEF RuntimeOver
    <3> QED BY <3>2, <3>3, <3>4, <3>6
  <2>11. CASE x \in [kind : {"named"}, name : STRING]
    <3>1. d = StoredRef("named", "", x.name, FALSE, <<>>, <<>>, <<>>)
      BY <2>6, <2>11, StoredShape
    <3>2. x = Named(x.name) /\ x.name \in STRING
      BY <2>11 DEF Named
    <3>3. d \in StoredTo[n + 1]
      <4>1. d \in StoredOver(StoredTo[n])
        BY <2>7, <2>9, <3>1, <3>2, StoredOverHas DEF Kinds
      <4> QED BY <2>5, <4>1
    <3>4. d \in read[n + 1]
      BY <2>4, <2>7, <2>9, <3>1, <3>2, ReadableOver DEF Kinds
    <3>5. d.kind = "named" /\ d.name = x.name
      BY <3>1 DEF StoredRef
    <3>6. run[n + 1][d] = Named(x.name)
      BY <2>8, <3>3, <3>5 DEF RuntimeOver
    <3> QED BY <3>2, <3>3, <3>4, <3>6
  <2>12. CASE x \in [kind : {"opaque"}, name : STRING, qualified : BOOLEAN]
    <3>1. d = StoredRef("opaque", "", x.name, x.qualified, <<>>, <<>>, <<>>)
      BY <2>6, <2>12, StoredShape
    <3>2. x = Opaque(x.name, x.qualified) /\ x.name \in STRING /\ x.qualified \in BOOLEAN
      BY <2>12 DEF Opaque
    <3>3. d \in StoredTo[n + 1]
      <4>1. d \in StoredOver(StoredTo[n])
        BY <2>7, <2>9, <3>1, <3>2, StoredOverHas DEF Kinds
      <4> QED BY <2>5, <4>1
    <3>4. d \in read[n + 1]
      BY <2>4, <2>7, <2>9, <3>1, <3>2, ReadableOver DEF Kinds
    <3>5. d.kind = "opaque" /\ d.name = x.name /\ d.qualified = x.qualified
      BY <3>1 DEF StoredRef
    <3>6. run[n + 1][d] = Opaque(x.name, x.qualified)
      BY <2>8, <3>3, <3>5 DEF RuntimeOver
    <3> QED BY <3>2, <3>3, <3>4, <3>6
  <2>13. CASE x \in [kind : {"map"}, key : TypesTo[n], elem : TypesTo[n]]
    <3> DEFINE k == pers[n][x.key]
               v == pers[n][x.elem]
    <3>1. d = StoredRef("map", "", "", FALSE, <<k>>, <<v>>, <<>>)
      BY <2>6, <2>13, StoredShape
    <3>2. x = MapOf(x.key, x.elem) /\ x.key \in TypesTo[n] /\ x.elem \in TypesTo[n]
      BY <2>13 DEF MapOf
    <3>3. /\ k \in StoredTo[n] /\ k \in read[n] /\ run[n][k] = x.key
          /\ v \in StoredTo[n] /\ v \in read[n] /\ run[n][v] = x.elem
      BY <2>2, <3>2
    <3> HIDE DEF k, v
    <3>4. d \in StoredTo[n + 1]
      <4>1. d \in StoredOver(StoredTo[n])
        BY <2>7, <2>9, <3>1, <3>3, StoredOverHas DEF Kinds
      <4> QED BY <2>5, <4>1
    <3>5. d \in read[n + 1]
      BY <2>4, <2>7, <2>9, <3>1, <3>3, ReadableOver DEF Kinds
    <3>6. d.kind = "map" /\ d.key[1] = k /\ d.elem[1] = v
      BY <2>7, <3>1 DEF StoredRef
    <3>7. run[n + 1][d] = MapOf(run[n][k], run[n][v])
      BY <2>8, <3>4, <3>6 DEF RuntimeOver
    <3> QED BY <3>2, <3>3, <3>4, <3>5, <3>7
  <2>14. CASE x \in [kind : {"slice"}, elem : TypesTo[n]]
    <3> DEFINE v == pers[n][x.elem]
    <3>1. d = StoredRef("slice", "", "", FALSE, <<>>, <<v>>, <<>>)
      BY <2>6, <2>14, StoredShape
    <3>2. x = SliceOf(x.elem) /\ x.elem \in TypesTo[n]
      BY <2>14 DEF SliceOf
    <3>3. v \in StoredTo[n] /\ v \in read[n] /\ run[n][v] = x.elem
      BY <2>2, <3>2
    <3> HIDE DEF v
    <3>4. d \in StoredTo[n + 1]
      <4>1. d \in StoredOver(StoredTo[n])
        BY <2>7, <2>9, <3>1, <3>3, StoredOverHas DEF Kinds
      <4> QED BY <2>5, <4>1
    <3>5. d \in read[n + 1]
      BY <2>4, <2>7, <2>9, <3>1, <3>3, ReadableOver DEF Kinds
    <3>6. d.kind = "slice" /\ d.elem[1] = v
      BY <2>7, <3>1 DEF StoredRef
    <3>7. run[n + 1][d] = SliceOf(run[n][v])
      BY <2>8, <3>4, <3>6 DEF RuntimeOver
    <3> QED BY <3>2, <3>3, <3>4, <3>5, <3>7
  <2>15. CASE x \in [kind : {"struct"}, name : STRING, fields : Seq(TypesTo[n])]
    <3> DEFINE gs == StoredFields(pers[n], x)
    <3>0. HasFields(x)
      BY <2>15 DEF HasFields
    <3>1. d = StoredRef("struct", "", x.name, FALSE, <<>>, <<>>, gs)
      BY <2>6, <3>0, StoredStruct
    <3>2. x = Struct(x.name, x.fields) /\ x.fields \in Seq(TypesTo[n]) /\ x.name \in STRING
      BY <2>15 DEF Struct
    <3>3. /\ Len(x.fields) \in Nat
          /\ \A i \in 1..Len(x.fields) :
                /\ pers[n][x.fields[i]] \in StoredTo[n]
                /\ pers[n][x.fields[i]] \in read[n]
                /\ run[n][pers[n][x.fields[i]]] = x.fields[i]
      BY <2>2, <3>2
    <3>4. /\ gs \in Seq(StoredTo[n]) /\ gs \in Seq(read[n])
          /\ Len(gs) = Len(x.fields)
          /\ \A i \in 1..Len(x.fields) : run[n][gs[i]] = x.fields[i]
      BY <3>0, <3>3, StoredFieldsShape
    <3> HIDE DEF gs
    <3>5. d \in StoredTo[n + 1]
      <4>1. d \in StoredOver(StoredTo[n])
        BY <2>7, <2>9, <3>1, <3>2, <3>4, StoredOverHas DEF Kinds
      <4> QED BY <2>5, <4>1
    <3>6. d \in read[n + 1]
      BY <2>4, <2>7, <2>9, <3>1, <3>2, <3>4, ReadableOver DEF Kinds
    <3>7. d.kind = "struct" /\ d.name = x.name /\ d.fields = gs
      BY <3>1 DEF StoredRef
    <3>8. run[n + 1][d]
            = Struct(x.name, [i \in 1..Len(d.fields) |-> run[n][d.fields[i]]])
      BY <2>8, <3>5, <3>7 DEF RuntimeOver
    <3>9. [i \in 1..Len(d.fields) |-> run[n][d.fields[i]]] = x.fields
      <4>1. x.fields = [i \in 1..Len(x.fields) |-> x.fields[i]]
        BY <3>2
      <4> QED BY <3>4, <3>7, <4>1
    <3> QED BY <3>2, <3>5, <3>6, <3>8, <3>9
  <2> QED BY <1>5, <2>1, <2>10, <2>11, <2>12, <2>13, <2>14, <2>15, TypeShape
<1>6. N \in SUBSET Nat
  OBVIOUS
<1>7. \A n \in 0..Nesting : n \in N
  <2> HIDE DEF N
  <2> QED BY <1>4, <1>5, <1>6, LevelInduction
<1>8. Nesting \in N
  BY <1>7, NestingAssumption
<1> QED BY <1>1, <1>2, <1>3, <1>8 DEF Types

---------------------------------------------------------------------------
(* What is stored of a schema.                                             *)

(* The types of a schema are types. *)
LEMMA StructTypes ==
    ASSUME NEW s \in Sources, NEW n \in DOMAIN Structs(s.types)
    PROVE  Structs(s.types)[n] \in Types
<1> DEFINE T == ResolveTypeExpr(DOMAIN s.types, s.types[n])
<1>1. n \in DOMAIN s.types
  BY StructsAreStructs
<1>2. n \in STRING /\ s.types[n] \in Exprs
  BY <1>1, SchemaAssumption
<1>3. T \in Types /\ T.kind = "struct"
  BY <1>2, ResolvedAreTypes DEF Structs
<1>4. Structs(s.types)[n] = Struct(n, T.fields)
  BY DEF Structs
<1> HIDE DEF T
<1>5. Nesting \in 1..Nesting
  BY <1>3, SomeLevel
<1>6. T.fields \in Seq(TypesTo[Nesting - 1])
  BY <1>3, <1>5, TypeShape DEF Types
<1>7. \A S : T.fields \in S =>
         Struct(n, T.fields) \in [kind : {"struct"}, name : STRING, fields : S]
  BY <1>2 DEF Struct
<1>8. Struct(n, T.fields)
         \in [kind : {"struct"}, name : STRING, fields : Seq(TypesTo[Nesting - 1])]
  BY <1>6, <1>7
<1> QED BY <1>4, <1>5, <1>8, TypeShape DEF Types

(* The types of the globals are types. *)
LEMMA GlobalShape ==
    ASSUME NEW s \in Sources
    PROVE  /\ Len(s.globals) \in Nat
           /\ \A i \in 1..Len(s.globals) : Resolve(s, s.globals[i].type) \in Types
<1>1. s.globals \in Seq(GlobalDecls)
  BY SchemaAssumption
<1>2. \A i \in 1..Len(s.globals) : s.globals[i].type \in Exprs
  <2>1. \A i \in 1..Len(s.globals) : s.globals[i] \in GlobalDecls
    BY <1>1
  <2>2. \A g \in GlobalDecls : g.type \in Exprs
    BY DEF GlobalDecls
  <2> QED BY <2>1, <2>2
<1> QED BY <1>1, <1>2, ResolvedAreTypes DEF Resolve

(* A sequence of types survives storage. *)
LEMMA AllSurvive ==
    ASSUME NEW s \in Sources, NEW es \in Seq(Exprs)
    PROVE  LET ds == PersistedAll(ResolveAll(s, es))
           IN  /\ RuntimeAll(ds) = ResolveAll(s, es)
               /\ \A d \in ToSet(ds) : Readable(d)
<1> DEFINE R(i) == Resolve(s, es[i])
           ts == [i \in 1..Len(es) |-> R(i)]
           ds == [i \in 1..Len(es) |-> PersistedTypeRef(R(i))]
           us == [i \in 1..Len(es) |-> RuntimeTypeRef(PersistedTypeRef(R(i)))]
<1>1. \A i \in 1..Len(es) : R(i) \in Types
  BY ResolvedAreTypes DEF Resolve
<1>2. \A i \in 1..Len(es) : /\ Readable(PersistedTypeRef(R(i)))
                            /\ RuntimeTypeRef(PersistedTypeRef(R(i))) = R(i)
  BY <1>1, TypeSurvives
<1> HIDE DEF R
<1>3. us = ts
  BY <1>2
<1>4. ResolveAll(s, es) = ts
  BY DEF ResolveAll, R
<1>5. PersistedAll(ts) = ds
  BY DEF PersistedAll
<1>6. RuntimeAll(ds) = us
  BY DEF RuntimeAll
<1>7. \A d \in ToSet(ds) : Readable(d)
  BY <1>2 DEF ToSet
<1> HIDE DEF ts, ds, us
<1> QED BY <1>3, <1>4, <1>5, <1>6, <1>7

(* A function with other parameters and results. *)
FunctionWith(n, e, ps, rs) ==
    [name |-> n, exported |-> e, params |-> ps, results |-> rs]

With(g, ps, rs) == [g EXCEPT !.params = ps, !.results = rs]

(* Updating the parameters and results of a function. *)
LEMMA ParamsReplaced ==
    ASSUME NEW n, NEW e, NEW ps, NEW rs, NEW qs, NEW ss
    PROVE  With(FunctionWith(n, e, ps, rs), qs, ss) = FunctionWith(n, e, qs, ss)
<1> DEFINE g == [name |-> n, exported |-> e, params |-> ps, results |-> rs]
           h == [g EXCEPT !.params = qs]
<1>1. h = [name |-> n, exported |-> e, params |-> qs, results |-> rs]
  OBVIOUS
<1>2. [g EXCEPT !.params = qs, !.results = ss] = [h EXCEPT !.results = ss]
  OBVIOUS
<1>3. [h EXCEPT !.results = ss]
         = [name |-> n, exported |-> e, params |-> qs, results |-> ss]
  <2> HIDE DEF h
  <2> QED BY <1>1
<1> QED BY <1>2, <1>3 DEF FunctionWith, With

(* A function survives storage. *)
LEMMA FunctionSurvives ==
    ASSUME NEW s \in Sources, NEW f \in FunctionDecls
    PROVE  LET g == FunctionOf(s, f)
               d == [g EXCEPT !.params = PersistedAll(@), !.results = PersistedAll(@)]
           IN  /\ [d EXCEPT !.params = RuntimeAll(@), !.results = RuntimeAll(@)] = g
               /\ \A t \in ToSet(d.params) \cup ToSet(d.results) : Readable(t)
<1> DEFINE ps == ResolveAll(s, f.params)
           rs == ResolveAll(s, f.results)
           P == PersistedAll(ps)
           R == PersistedAll(rs)
<1>1. f.params \in Seq(Exprs) /\ f.results \in Seq(Exprs)
  BY DEF FunctionDecls
<1>2. /\ RuntimeAll(P) = ps /\ \A d \in ToSet(P) : Readable(d)
      /\ RuntimeAll(R) = rs /\ \A d \in ToSet(R) : Readable(d)
  BY <1>1, AllSurvive
<1> DEFINE g == FunctionWith(f.name, f.exported, ps, rs)
           d == FunctionWith(f.name, f.exported, P, R)
<1>3. FunctionOf(s, f) = g
  BY DEF FunctionOf, FunctionWith
<1> HIDE DEF P, R, ps, rs
<1>4. With(g, P, R) = d
  BY ParamsReplaced
<1>5. With(d, RuntimeAll(P), RuntimeAll(R)) = g
  BY <1>2, ParamsReplaced
<1>6. d.params = P /\ d.results = R /\ g.params = ps /\ g.results = rs
  BY DEF FunctionWith
<1>7. P = PersistedAll(ps) /\ R = PersistedAll(rs)
  BY DEF P, R
<1> HIDE DEF g, d, ps, rs
<1> QED BY <1>2, <1>3, <1>4, <1>5, <1>6, <1>7 DEF With

---------------------------------------------------------------------------
(* A schema survives storage. *)
LEMMA SchemaSurvives ==
    ASSUME NEW s \in Sources
    PROVE  LET sc == SchemaOf(s)
           IN  ReadableSchema(Persisted(sc)) /\ RuntimeSchema(Persisted(sc)) = sc
<1> DEFINE sc == SchemaOf(s)
           p == Persisted(sc)
           r == RuntimeSchema(p)
<1>1. /\ r.structs = sc.structs
      /\ \A n \in DOMAIN p.structs : Readable(p.structs[n])
  <2> DEFINE D == DOMAIN Structs(s.types)
             X(n) == Structs(s.types)[n]
  <2>1. sc.structs = Structs(s.types) /\ Structs(s.types) = [n \in D |-> X(n)]
    BY DEF SchemaOf, Structs
  <2>2. \A n \in D : Readable(PersistedTypeRef(X(n)))
                     /\ RuntimeTypeRef(PersistedTypeRef(X(n))) = X(n)
    BY StructTypes, TypeSurvives
  <2>3. p.structs = [n \in D |-> PersistedTypeRef(X(n))]
    BY <2>1 DEF Persisted
  <2>4. r.structs = [n \in D |-> RuntimeTypeRef(PersistedTypeRef(X(n)))]
    BY <2>3 DEF RuntimeSchema
  <2> HIDE DEF p, r, sc, D, X
  <2> QED BY <2>1, <2>2, <2>3, <2>4
<1>2. /\ r.globals = sc.globals
      /\ \A g \in ToSet(p.globals) : Readable(g.type)
  <2> DEFINE I == 1..Len(s.globals)
             T(i) == Resolve(s, s.globals[i].type)
             E(i) == s.globals[i].explicit
  <2>1. sc.globals = [i \in I |-> [type |-> T(i), explicit |-> E(i)]]
    BY DEF SchemaOf
  <2>2. \A i \in I : Readable(PersistedTypeRef(T(i)))
                     /\ RuntimeTypeRef(PersistedTypeRef(T(i))) = T(i)
    BY GlobalShape, TypeSurvives
  <2> HIDE DEF I, T, E
  <2>3. p.globals = [i \in I |-> [type |-> PersistedTypeRef(T(i)), explicit |-> E(i)]]
    <3> HIDE DEF sc
    <3>1. p.globals = [i \in DOMAIN sc.globals |->
                         [sc.globals[i] EXCEPT !.type = PersistedTypeRef(@)]]
      BY DEF Persisted
    <3> QED BY <2>1, <3>1
  <2>4. r.globals = [i \in I |-> [type |-> RuntimeTypeRef(PersistedTypeRef(T(i))),
                                  explicit |-> E(i)]]
    <3> HIDE DEF p
    <3>1. r.globals = [i \in DOMAIN p.globals |->
                         [p.globals[i] EXCEPT !.type = RuntimeTypeRef(@)]]
      BY DEF RuntimeSchema
    <3> QED BY <2>3, <3>1
  <2> HIDE DEF p, r, sc
  <2>5. r.globals = sc.globals
    BY <2>1, <2>2, <2>4
  <2>6. \A g \in ToSet(p.globals) : Readable(g.type)
    BY <2>2, <2>3 DEF ToSet
  <2> QED BY <2>5, <2>6
<1>3. /\ r.functions = sc.functions
      /\ \A f \in ToSet(p.functions) :
            \A d \in ToSet(f.params) \cup ToSet(f.results) : Readable(d)
  <2> DEFINE I == 1..Len(s.functions)
             G(i) == FunctionOf(s, s.functions[i])
             P(g) == [g EXCEPT !.params = PersistedAll(@), !.results = PersistedAll(@)]
             R(d) == [d EXCEPT !.params = RuntimeAll(@), !.results = RuntimeAll(@)]
  <2>1. sc.functions = [i \in I |-> G(i)]
    BY DEF SchemaOf
  <2>2. \A i \in I :
           /\ R(P(G(i))) = G(i)
           /\ \A d \in ToSet(P(G(i)).params) \cup ToSet(P(G(i)).results) : Readable(d)
    <3>1. \A i \in I : s.functions[i] \in FunctionDecls
      BY SourceShape
    <3> QED BY <3>1, FunctionSurvives
  <2>3. p.functions = [i \in DOMAIN sc.functions |-> P(sc.functions[i])]
    BY DEF Persisted
  <2>4. r.functions = [i \in DOMAIN p.functions |-> R(p.functions[i])]
    BY DEF RuntimeSchema
  <2> HIDE DEF p, r, sc, I, G, P, R
  <2>5. p.functions = [i \in I |-> P(G(i))]
    BY <2>1, <2>3
  <2>6. r.functions = [i \in I |-> R(P(G(i)))]
    BY <2>4, <2>5
  <2>7. r.functions = sc.functions
    BY <2>1, <2>2, <2>6
  <2>8. \A f \in ToSet(p.functions) :
           \A d \in ToSet(f.params) \cup ToSet(f.results) : Readable(d)
    BY <2>2, <2>5 DEF ToSet
  <2> QED BY <2>7, <2>8
<1>4. ReadableSchema(p)
  <2> HIDE DEF p
  <2> QED BY <1>1, <1>2, <1>3 DEF ReadableSchema
<1>5. /\ sc = [structs |-> sc.structs, globals |-> sc.globals, functions |-> sc.functions]
      /\ r = [structs |-> r.structs, globals |-> r.globals, functions |-> r.functions]
  BY DEF SchemaOf, RuntimeSchema
<1> HIDE DEF sc, p, r
<1>6. r = sc
  BY <1>1, <1>2, <1>3, <1>5
<1>7. ReadableSchema(Persisted(sc)) /\ RuntimeSchema(Persisted(sc)) = sc
  BY <1>4, <1>6 DEF p, r
<1> QED BY <1>7 DEF sc

(* The schema stored with a design is taken when it is read, and is the one *)
(* that was stored, for types of any nesting.                              *)
THEOREM StorageKeepsSchema == Spec => []SchemaSurvivesStorage
<1>1. Judged => SchemaSurvivesStorage
  <2> SUFFICES ASSUME Judged, verdict = "admitted"
               PROVE  Taken(source, Persisted(Schema))
                      /\ RuntimeSchema(Persisted(Schema)) = Schema
    BY DEF SchemaSurvivesStorage
  <2>1. source \in Sources /\ Schema = SchemaOf(source) /\ Finalized(source, SchemaOf(source))
    BY DEF Judged, Admitted, Schema
  <2>2. ReadableSchema(Persisted(Schema)) /\ RuntimeSchema(Persisted(Schema)) = Schema
    BY <2>1, SchemaSurvives
  <2> QED BY <2>1, <2>2 DEF Taken
<1> QED BY <1>1, JudgedInv, PTL

---------------------------------------------------------------------------
(* Values of a state, level by level.                                      *)

(* Each definition of a value by its levels is one of this kind. *)
Depths(p) == 0..Depth

(* The depth of values is a number. *)
LEMMA DepthNat == Depth \in Nat
BY CodecAssumption

ValuesAt(p, at, n) ==
    IF n = 0 THEN {}
    ELSE [kind : {"scalar"}, of : Scalars, data : Strings \cup Numbers \cup {0, 1}]
           \cup [kind : {"struct"}, fields : Seq(at[n - 1])]
           \cup [kind : {"map"}, isnil : BOOLEAN, entries : Seq(Strings \X at[n - 1])]
           \cup [kind : {"slice"}, isnil : BOOLEAN, items : Seq(at[n - 1])]

OfValuesTo == INSTANCE Recursion WITH S <- Depths, Rank <- Level, Def <- ValuesAt

(* The sets of values by how deep they are. *)
LEMMA ValuesByLevel ==
    \A n \in 0..Depth : ValuesTo[n] = ValuesAt(<<>>, ValuesTo, n)
<1>1. OfValuesTo!Ranked(<<>>) /\ OfValuesTo!Descends(<<>>)
  BY DepthNat
     DEF OfValuesTo!Ranked, OfValuesTo!Descends, Depths, Level, ValuesAt
<1>2. ValuesTo = CHOOSE g : OfValuesTo!Defines(<<>>, g)
  BY DEF ValuesTo, OfValuesTo!Defines, Depths, ValuesAt
<1>3. OfValuesTo!Defines(<<>>, ValuesTo)
  BY <1>1, <1>2, OfValuesTo!Recursion
<1> QED BY <1>3 DEF OfValuesTo!Defines, Depths

(* What a value can be. *)
LEMMA ValueShape ==
    ASSUME NEW n \in 1..Depth, NEW v
    PROVE  v \in ValuesTo[n] <=>
             \/ v \in [kind : {"scalar"}, of : Scalars,
                       data : Strings \cup Numbers \cup {0, 1}]
             \/ v \in [kind : {"struct"}, fields : Seq(ValuesTo[n - 1])]
             \/ v \in [kind : {"map"}, isnil : BOOLEAN,
                       entries : Seq(Strings \X ValuesTo[n - 1])]
             \/ v \in [kind : {"slice"}, isnil : BOOLEAN, items : Seq(ValuesTo[n - 1])]
<1>1. n \in 0..Depth /\ n # 0
  OBVIOUS
<1>2. ValuesTo[n] = ValuesAt(<<>>, ValuesTo, n)
  BY <1>1, ValuesByLevel
<1> QED BY <1>1, <1>2 DEF ValuesAt

(* There is no value of depth zero.                                        *)
LEMMA NoValueAtZero == ValuesTo[0] = {}
<1>1. 0 \in 0..Depth
  BY DepthNat
<1> QED BY <1>1, ValuesByLevel DEF ValuesAt

(* What passes from each number to the next holds up to m. *)
LEMMA BoundedInduction ==
    ASSUME NEW m \in Nat, NEW N \in SUBSET Nat,
           0 \in N,
           \A n \in N : n + 1 \in 1..m => n + 1 \in N
    PROVE  \A n \in 0..m : n \in N
<1> DEFINE M == {n \in Nat : n <= m => n \in N}
<1>1. 0 \in M
  OBVIOUS
<1>2. ASSUME NEW n \in M
      PROVE  n + 1 \in M
  BY <1>2
<1>3. M \in SUBSET Nat
  OBVIOUS
<1>4. M = Nat
  <2> HIDE DEF M
  <2> QED BY <1>1, <1>2, <1>3, OfValuesTo!Induction
<1> QED BY <1>4

---------------------------------------------------------------------------
(* What is done with a value.                                              *)

WalkOver(what, v, inner) ==
    CASE what = "extract" -> ExtractOver(v, inner)
      [] what = "marshal" -> MarshalOver(v, inner)
      [] what = "build"   -> BuildOver(v, inner)
      [] what = "json"    -> JSONOver(v, inner)

WalkAt(what, at, n) ==
    IF n = 0 THEN <<>> ELSE [v \in ValuesTo[n] |-> WalkOver(what, v, at[n - 1])]

OfWalk == INSTANCE Recursion WITH S <- Depths, Rank <- Level, Def <- WalkAt

(* The levels of Extract, Marshal, Build and JSONCompatible. *)
Walk(what) == CHOOSE g : g = [n \in 0..Depth |-> WalkAt(what, g, n)]

(* A walk does one step on a value, with itself one level down inside.     *)
LEMMA WalkByLevel ==
    ASSUME NEW what, NEW n \in 1..Depth, NEW v \in ValuesTo[n]
    PROVE  Walk(what)[n][v] = WalkOver(what, v, Walk(what)[n - 1])
<1> DEFINE at == Walk(what)
<1>1. OfWalk!Ranked(what) /\ OfWalk!Descends(what)
  BY DepthNat DEF OfWalk!Ranked, OfWalk!Descends, Depths, Level, WalkAt
<1>2. at = CHOOSE g : OfWalk!Defines(what, g)
  BY DEF OfWalk!Defines, Depths, Walk
<1>3. OfWalk!Defines(what, at)
  <2> HIDE DEF at
  <2> QED BY <1>1, <1>2, OfWalk!Recursion
<1> HIDE DEF at
<1>4. at[n] = WalkAt(what, at, n)
  <2>1. n \in 0..Depth
    OBVIOUS
  <2> QED BY <1>3, <2>1 DEF OfWalk!Defines, Depths
<1>5. at[n][v] = WalkOver(what, v, at[n - 1])
  BY <1>4 DEF WalkAt
<1> QED BY <1>5 DEF at

(* The operators of the model are the walks at full depth.                 *)
LEMMA WalksOfValues ==
    ASSUME NEW v
    PROVE  /\ Extract(v) = Walk("extract")[Depth][v]
           /\ Marshal(v) = Walk("marshal")[Depth][v]
           /\ Build(v) = Walk("build")[Depth][v]
           /\ JSONCompatible(v) = Walk("json")[Depth][v]
<1>1. Extract(v) = Walk("extract")[Depth][v]
  BY DEF Extract, ByLevel, Walk, WalkAt, WalkOver
<1>2. Marshal(v) = Walk("marshal")[Depth][v]
  BY DEF Marshal, ByLevel, Walk, WalkAt, WalkOver
<1>3. Build(v) = Walk("build")[Depth][v]
  BY DEF Build, ByLevel, Walk, WalkAt, WalkOver
<1>4. JSONCompatible(v) = Walk("json")[Depth][v]
  BY DEF JSONCompatible, ByLevel, Walk, WalkAt, WalkOver
<1> QED BY <1>1, <1>2, <1>3, <1>4
---------------------------------------------------------------------------
(* Relations between types and values.                                     *)

TypedAt(structs, at, n) ==
    IF n = 0 THEN {}
    ELSE {p \in Types \X ValuesTo[n] : TypeOver(structs, p[1], p[2], at[n - 1])}

OfTyped == INSTANCE Recursion WITH S <- Depths, Rank <- Level, Def <- TypedAt

(* The pairs of a type and a value of it, by the depth of the value. *)
Typed(structs) == CHOOSE g : g = [n \in 0..Depth |-> TypedAt(structs, g, n)]

(* A value has a type if its parts, one level down, have theirs.           *)
LEMMA TypedByLevel ==
    ASSUME NEW structs, NEW n \in 1..Depth, NEW t, NEW v
    PROVE  <<t, v>> \in Typed(structs)[n] <=>
             /\ t \in Types /\ v \in ValuesTo[n]
             /\ TypeOver(structs, t, v, Typed(structs)[n - 1])
<1> DEFINE at == Typed(structs)
<1>1. OfTyped!Ranked(structs) /\ OfTyped!Descends(structs)
  BY DepthNat DEF OfTyped!Ranked, OfTyped!Descends, Depths, Level, TypedAt
<1>2. at = CHOOSE g : OfTyped!Defines(structs, g)
  BY DEF OfTyped!Defines, Depths, Typed
<1>3. OfTyped!Defines(structs, at)
  <2> HIDE DEF at
  <2> QED BY <1>1, <1>2, OfTyped!Recursion
<1> HIDE DEF at
<1>4. at[n] = TypedAt(structs, at, n)
  <2>1. n \in 0..Depth
    OBVIOUS
  <2> QED BY <1>3, <2>1 DEF OfTyped!Defines, Depths
<1>5. <<t, v>> \in at[n] <=>
        /\ t \in Types /\ v \in ValuesTo[n]
        /\ TypeOver(structs, t, v, at[n - 1])
  BY <1>4 DEF TypedAt
<1> QED BY <1>5 DEF at

(* HasType is Typed at full depth.                                         *)
LEMMA TypedValues ==
    ASSUME NEW structs, NEW t, NEW v
    PROVE  HasType(structs, t, v) <=> <<t, v>> \in Typed(structs)[Depth]
BY DEF HasType, Typed, TypedAt

ConvertsAt(structs, at, n) ==
    IF n = 0 THEN {}
    ELSE {p \in Types \X ValuesTo[n] :
            ConvertibleOver(structs, p[1], p[2], at[n - 1])}

OfConverts == INSTANCE Recursion WITH S <- Depths, Rank <- Level, Def <- ConvertsAt

(* The pairs of a type and a value the codec converts. *)
Converts(structs) == CHOOSE g : g = [n \in 0..Depth |-> ConvertsAt(structs, g, n)]

(* The codec converts a value if it converts its parts.                    *)
LEMMA ConvertsByLevel ==
    ASSUME NEW structs, NEW n \in 1..Depth, NEW t, NEW v
    PROVE  <<t, v>> \in Converts(structs)[n] <=>
             /\ t \in Types /\ v \in ValuesTo[n]
             /\ ConvertibleOver(structs, t, v, Converts(structs)[n - 1])
<1> DEFINE at == Converts(structs)
<1>1. OfConverts!Ranked(structs) /\ OfConverts!Descends(structs)
  BY DepthNat DEF OfConverts!Ranked, OfConverts!Descends, Depths, Level, ConvertsAt
<1>2. at = CHOOSE g : OfConverts!Defines(structs, g)
  BY DEF OfConverts!Defines, Depths, Converts
<1>3. OfConverts!Defines(structs, at)
  <2> HIDE DEF at
  <2> QED BY <1>1, <1>2, OfConverts!Recursion
<1> HIDE DEF at
<1>4. at[n] = ConvertsAt(structs, at, n)
  <2>1. n \in 0..Depth
    OBVIOUS
  <2> QED BY <1>3, <2>1 DEF OfConverts!Defines, Depths
<1>5. <<t, v>> \in at[n] <=>
        /\ t \in Types /\ v \in ValuesTo[n]
        /\ ConvertibleOver(structs, t, v, at[n - 1])
  BY <1>4 DEF ConvertsAt
<1> QED BY <1>5 DEF at

(* Convertible is Converts at full depth.                                  *)
LEMMA ConvertedValues ==
    ASSUME NEW structs, NEW t, NEW v
    PROVE  Convertible(structs, t, v) <=> <<t, v>> \in Converts(structs)[Depth]
BY DEF Convertible, Converts, ConvertsAt

SameAt(p, at, n) ==
    IF n = 0 THEN {}
    ELSE {q \in ValuesTo[n] \X ValuesTo[n] : SameOver(q[1], q[2], at[n - 1])}

OfSame == INSTANCE Recursion WITH S <- Depths, Rank <- Level, Def <- SameAt

(* The pairs of values that are the same but for the order of maps. *)
Sames == CHOOSE g : g = [n \in 0..Depth |-> SameAt(<<>>, g, n)]

(* Two values are the same if their parts are.                             *)
LEMMA SameByLevel ==
    ASSUME NEW n \in 1..Depth, NEW a, NEW b
    PROVE  <<a, b>> \in Sames[n] <=>
             /\ a \in ValuesTo[n] /\ b \in ValuesTo[n]
             /\ SameOver(a, b, Sames[n - 1])
<1>1. OfSame!Ranked(<<>>) /\ OfSame!Descends(<<>>)
  BY DepthNat DEF OfSame!Ranked, OfSame!Descends, Depths, Level, SameAt
<1>2. Sames = CHOOSE g : OfSame!Defines(<<>>, g)
  BY DEF OfSame!Defines, Depths, Sames
<1>3. OfSame!Defines(<<>>, Sames)
  BY <1>1, <1>2, OfSame!Recursion
<1>4. Sames[n] = SameAt(<<>>, Sames, n)
  <2>1. n \in 0..Depth
    OBVIOUS
  <2> QED BY <1>3, <2>1 DEF OfSame!Defines, Depths
<1> QED BY <1>4 DEF SameAt

(* SameValue is Sames at full depth.                                       *)
LEMMA SameValues ==
    ASSUME NEW a, NEW b
    PROVE  SameValue(a, b) <=> <<a, b>> \in Sames[Depth]
BY DEF SameValue, Sames, SameAt

OfTypeAt(structs, at, n) ==
    [t \in Types |-> IF n = 0 THEN {} ELSE ValuesOver(structs, t, at[n - 1])]

OfOfType == INSTANCE Recursion WITH S <- Depths, Rank <- Level, Def <- OfTypeAt

(* The values a function can leave, by type and depth. *)
OfType(structs) == CHOOSE g : g = [n \in 0..Depth |-> OfTypeAt(structs, g, n)]

(* The values of a type are made from values one level down.               *)
LEMMA OfTypeByLevel ==
    ASSUME NEW structs, NEW n \in 0..Depth
    PROVE  OfType(structs)[n] = OfTypeAt(structs, OfType(structs), n)
<1> DEFINE at == OfType(structs)
<1>1. OfOfType!Ranked(structs) /\ OfOfType!Descends(structs)
  BY DepthNat DEF OfOfType!Ranked, OfOfType!Descends, Depths, Level, OfTypeAt
<1>2. at = CHOOSE g : OfOfType!Defines(structs, g)
  BY DEF OfOfType!Defines, Depths, OfType
<1>3. OfOfType!Defines(structs, at)
  <2> HIDE DEF at
  <2> QED BY <1>1, <1>2, OfOfType!Recursion
<1> HIDE DEF at
<1>4. at[n] = OfTypeAt(structs, at, n)
  BY <1>3 DEF OfOfType!Defines, Depths
<1> QED BY <1>4 DEF at

(* Values is OfType at full depth.                                         *)
LEMMA ValuesOfType ==
    ASSUME NEW structs, NEW t
    PROVE  Values(structs, t) = OfType(structs)[Depth][t]
BY DEF Values, OfType, OfTypeAt
---------------------------------------------------------------------------
(* Sequences.                                                              *)

Counts(p) == 0..Len(p)

Longer(seqs, S) == {Append(s, x) : s \in seqs, x \in S}

ProductsAt(sets, at, n) ==
    IF n = 0 THEN {<<>>} ELSE Longer(at[n - 1], sets[n])

OfProducts == INSTANCE Recursion WITH S <- Counts, Rank <- Level, Def <- ProductsAt

(* A product has sequences with a member of each set in its place. *)
LEMMA ProductMember ==
    ASSUME NEW Y, NEW sets \in Seq(Y), NEW X,
           \A i \in 1..Len(sets) : sets[i] \subseteq X,
           NEW s \in Products(sets)
    PROVE  /\ s \in Seq(X) /\ Len(s) = Len(sets)
           /\ \A i \in 1..Len(sets) : s[i] \in sets[i]
<1> DEFINE at == CHOOSE g : g = [n \in 0..Len(sets) |-> ProductsAt(sets, g, n)]
<1>1. OfProducts!Ranked(sets) /\ OfProducts!Descends(sets)
  BY DEF OfProducts!Ranked, OfProducts!Descends, Counts, Level, ProductsAt
<1>2. at = CHOOSE g : OfProducts!Defines(sets, g)
  BY DEF OfProducts!Defines, Counts
<1>3. OfProducts!Defines(sets, at)
  <2> HIDE DEF at
  <2> QED BY <1>1, <1>2, OfProducts!Recursion
<1>4. Products(sets) = at[Len(sets)]
  BY DEF Products, ProductsAt, Longer
<1> HIDE DEF at
<1>5. \A n \in 0..Len(sets) : at[n] = ProductsAt(sets, at, n)
  BY <1>3 DEF OfProducts!Defines, Counts
<1> DEFINE Fits(n, r) == /\ r \in Seq(X) /\ Len(r) = n
                         /\ \A i \in 1..n : r[i] \in sets[i]
           N == {n \in Nat : \A r \in at[n] : Fits(n, r)}
<1>6. 0 \in N
  <2>1. 0 \in 0..Len(sets)
    OBVIOUS
  <2>2. at[0] = {<<>>}
    BY <1>5, <2>1 DEF ProductsAt
  <2>3. Fits(0, <<>>)
    OBVIOUS
  <2> HIDE DEF Fits
  <2> QED BY <2>2, <2>3
<1>7. ASSUME NEW n \in N, n + 1 \in 1..Len(sets)
      PROVE  n + 1 \in N
  <2>1. at[n + 1] = Longer(at[n], sets[n + 1])
    <3>1. n + 1 \in 0..Len(sets) /\ n + 1 # 0 /\ (n + 1) - 1 = n
      BY <1>7
    <3> QED BY <1>5, <3>1 DEF ProductsAt
  <2>2. ASSUME NEW r \in at[n], NEW x \in sets[n + 1]
        PROVE  Fits(n + 1, Append(r, x))
    <3>1. Fits(n, r) /\ x \in X
      BY <1>7, <2>2
    <3> QED BY <1>7, <2>2, <3>1
  <2>3. \A r \in at[n + 1] : \E q \in at[n], x \in sets[n + 1] : r = Append(q, x)
    BY <2>1 DEF Longer
  <2> HIDE DEF Fits
  <2>4. \A r \in at[n + 1] : Fits(n + 1, r)
    BY <2>2, <2>3
  <2>5. n + 1 \in Nat
    BY <1>7
  <2> QED BY <2>4, <2>5
<1>8. N \in SUBSET Nat
  OBVIOUS
<1>9. Len(sets) \in N
  <2>1. Len(sets) \in Nat /\ Len(sets) \in 0..Len(sets)
    OBVIOUS
  <2> HIDE DEF N
  <2>2. \A n \in 0..Len(sets) : n \in N
    BY <1>6, <1>7, <1>8, <2>1, BoundedInduction
  <2> QED BY <2>1, <2>2
<1> QED BY <1>4, <1>9

AssignedAt(es, at, n) ==
    IF n = 0 THEN <<>> ELSE Assign(at[n - 1], es[n])

OfAssigned == INSTANCE Recursion WITH S <- Counts, Rank <- Level, Def <- AssignedAt

KeysApart(es) == \A i, j \in 1..Len(es) : es[i][1] = es[j][1] => i = j

(* A map literal has entries of those it is given, in their order, and all *)
(* of them if no key comes twice.                                          *)
LEMMA AssignedEntries ==
    ASSUME NEW X, NEW es \in Seq(X)
    PROVE  /\ Assigned(es) \in Seq(X)
           /\ KeysApart(es) => Assigned(es) = es
<1> DEFINE at == CHOOSE g : g = [n \in 0..Len(es) |-> AssignedAt(es, g, n)]
<1>1. OfAssigned!Ranked(es) /\ OfAssigned!Descends(es)
  BY DEF OfAssigned!Ranked, OfAssigned!Descends, Counts, Level, AssignedAt
<1>2. at = CHOOSE g : OfAssigned!Defines(es, g)
  BY DEF OfAssigned!Defines, Counts
<1>3. OfAssigned!Defines(es, at)
  <2> HIDE DEF at
  <2> QED BY <1>1, <1>2, OfAssigned!Recursion
<1>4. Assigned(es) = at[Len(es)]
  BY DEF Assigned, AssignedAt
<1> HIDE DEF at
<1>5. \A n \in 0..Len(es) : at[n] = AssignedAt(es, at, n)
  BY <1>3 DEF OfAssigned!Defines, Counts
<1> DEFINE N == {n \in Nat :
                   /\ at[n] \in Seq(X)
                   /\ KeysApart(es) =>
                         Len(at[n]) = n /\ \A i \in 1..n : at[n][i] = es[i]}
<1>6. 0 \in N
  <2>1. 0 \in 0..Len(es)
    OBVIOUS
  <2>2. at[0] = <<>>
    BY <1>5, <2>1 DEF AssignedAt
  <2>3. at[0] \in Seq(X) /\ Len(at[0]) = 0
    BY <2>2
  <2> QED BY <2>3
<1>7. ASSUME NEW n \in N, n + 1 \in 1..Len(es)
      PROVE  n + 1 \in N
  <2>1. at[n + 1] = Assign(at[n], es[n + 1])
    BY <1>5, <1>7 DEF AssignedAt
  <2>2. at[n] \in Seq(X) /\ es[n + 1] \in X
    BY <1>7
  <2>3. at[n + 1] \in Seq(X)
    BY <2>1, <2>2 DEF Assign
  <2>4. ASSUME KeysApart(es)
        PROVE  /\ Len(at[n + 1]) = n + 1
               /\ \A i \in 1..(n + 1) : at[n + 1][i] = es[i]
    <3>1. Len(at[n]) = n /\ \A i \in 1..n : at[n][i] = es[i]
      BY <1>7, <2>4
    <3>2. ~ \E i \in 1..n : at[n][i][1] = es[n + 1][1]
      BY <1>7, <2>4, <3>1 DEF KeysApart
    <3>3. at[n + 1] = Append(at[n], es[n + 1])
      BY <2>1, <3>1, <3>2 DEF Assign
    <3> QED BY <2>2, <3>1, <3>3
  <2> QED BY <1>7, <2>3, <2>4
<1>8. N \in SUBSET Nat
  OBVIOUS
<1>9. Len(es) \in N
  <2>1. Len(es) \in Nat /\ Len(es) \in 0..Len(es)
    OBVIOUS
  <2> HIDE DEF N
  <2>2. \A n \in 0..Len(es) : n \in N
    BY <1>6, <1>7, <1>8, <2>1, BoundedInduction
  <2> QED BY <2>1, <2>2
<1> QED BY <1>4, <1>9
---------------------------------------------------------------------------
(* Sorting.                                                                *)

(* The k-th entry sorts before the l-th. *)
Before(es, k, l) == es[k][1] < es[l][1] \/ (es[k][1] = es[l][1] /\ k < l)

Ascending(es) == \A i, j \in 1..Len(es) : i < j => es[i][1] < es[j][1]

(* An entry is a pair of a key, which is a number, and a value.            *)
LEMMA KeysAreNumbers ==
    ASSUME NEW Y, NEW es \in Seq(Strings \X Y), NEW k \in 1..Len(es)
    PROVE  es[k] \in Strings \X Y /\ es[k][1] \in Strings /\ es[k][1] \in Nat
<1>1. es[k] \in Strings \X Y
  OBVIOUS
<1>2. Strings \subseteq Nat
  BY CodecAssumption
<1> QED BY <1>1, <1>2

(* The members of a sequence are what it has at its places.                *)
LEMMA MembersOf ==
    ASSUME NEW Y, NEW s \in Seq(Y), NEW x
    PROVE  x \in ToSet(s) <=> \E k \in 1..Len(s) : x = s[k]
<1>1. DOMAIN s = 1..Len(s)
  OBVIOUS
<1> QED BY <1>1 DEF ToSet

(* The places of the entries are all the places there are, in the order of *)
(* the keys.                                                               *)
LEMMA PlaceOrder ==
    ASSUME NEW Y, NEW es \in Seq(Strings \X Y)
    PROVE  /\ \A k \in 1..Len(es) : Place(es, k) \in 1..Len(es)
           /\ \A k, l \in 1..Len(es) : Before(es, k, l) => Place(es, k) < Place(es, l)
           /\ \A k, l \in 1..Len(es) : Place(es, k) = Place(es, l) => k = l
           /\ \A i \in 1..Len(es) : \E k \in 1..Len(es) : Place(es, k) = i
<1> DEFINE I == 1..Len(es)
           NotAfter(k) == {j \in I : \/ es[j][1] < es[k][1]
                                     \/ es[j][1] = es[k][1] /\ j <= k}
<1>1. IsFiniteSet(I) /\ Cardinality(I) = Len(es) /\ Len(es) \in Nat
  <2>1. Len(es) \in Nat
    OBVIOUS
  <2>2. IsFiniteSet(1..Len(es)) /\ Cardinality(1..Len(es)) = Len(es)
    BY <2>1, FS_Interval
  <2> QED BY <2>1, <2>2
<1>2. \A k : Place(es, k) = Cardinality(NotAfter(k))
  BY DEF Place
<1>3. \A k \in I : es[k][1] \in Nat
  BY KeysAreNumbers
<1>4. ASSUME NEW k \in I
      PROVE  /\ IsFiniteSet(NotAfter(k)) /\ Cardinality(NotAfter(k)) \in 1..Len(es)
             /\ k \in NotAfter(k)
  <2>1. k \in NotAfter(k) /\ NotAfter(k) \in SUBSET I
    BY <1>3
  <2> HIDE DEF NotAfter, I
  <2>2. /\ IsFiniteSet(NotAfter(k)) /\ Cardinality(NotAfter(k)) <= Cardinality(I)
    BY <1>1, <2>1, FS_Subset
  <2>3. Cardinality(NotAfter(k)) \in Nat /\ Cardinality(NotAfter(k)) # 0
    BY <2>1, <2>2, FS_EmptySet, FS_CardinalityType
  <2> QED BY <1>1, <2>1, <2>2, <2>3
<1>5. ASSUME NEW k \in I, NEW l \in I, Before(es, k, l)
      PROVE  Cardinality(NotAfter(k)) < Cardinality(NotAfter(l))
  <2>1. NotAfter(k) \in SUBSET NotAfter(l) /\ l \notin NotAfter(k)
    BY <1>3, <1>5 DEF Before
  <2>2. l \in NotAfter(l) /\ IsFiniteSet(NotAfter(l))
    BY <1>4
  <2>3. Cardinality(NotAfter(k)) \in Nat /\ Cardinality(NotAfter(l)) \in Nat
    <3> HIDE DEF NotAfter
    <3> QED BY <1>4
  <2> HIDE DEF NotAfter
  <2>4. /\ Cardinality(NotAfter(k)) <= Cardinality(NotAfter(l))
        /\ Cardinality(NotAfter(l)) = Cardinality(NotAfter(k)) =>
              NotAfter(l) = NotAfter(k)
    BY <2>1, <2>2, FS_Subset
  <2> QED BY <2>1, <2>2, <2>3, <2>4
<1>6. \A k, l \in I : k # l => Before(es, k, l) \/ Before(es, l, k)
  BY <1>3 DEF Before
<1> HIDE DEF NotAfter
<1>7. \A k, l \in I : Place(es, k) = Place(es, l) => k = l
  BY <1>2, <1>4, <1>5, <1>6
<1> DEFINE f == [k \in I |-> Place(es, k)]
<1>8. f \in [I -> I]
  BY <1>2, <1>4
<1>9. f \in Injection(I, I)
  BY <1>7, <1>8 DEF Injection, IsInjective
<1>10. f \in Surjection(I, I)
  <2> HIDE DEF f, I
  <2> QED BY <1>1, <1>9, FS_Injection
<1>11. \A i \in I : \E k \in I : Place(es, k) = i
  BY <1>10 DEF Surjection
<1> QED BY <1>2, <1>4, <1>5, <1>7, <1>11

(* Sorting moves each entry to its place. *)
LEMMA SortedPlaces ==
    ASSUME NEW Y, NEW es \in Seq(Strings \X Y)
    PROVE  /\ Sorted(es) \in Seq(Strings \X Y) /\ Len(Sorted(es)) = Len(es)
           /\ \A i \in 1..Len(es) : \E k \in 1..Len(es) :
                 Place(es, k) = i /\ Sorted(es)[i] = es[k]
           /\ \A k \in 1..Len(es) : Sorted(es)[Place(es, k)] = es[k]
<1> DEFINE at(i) == CHOOSE k \in 1..Len(es) : Place(es, k) = i
<1>1. Sorted(es) = [i \in 1..Len(es) |-> es[at(i)]]
  BY DEF Sorted
<1>2. \A i \in 1..Len(es) : at(i) \in 1..Len(es) /\ Place(es, at(i)) = i
  BY ZenonT(30), PlaceOrder
<1> HIDE DEF at
<1>3. Len(es) \in Nat /\ \A k \in 1..Len(es) : es[k] \in Strings \X Y
  OBVIOUS
<1>4. Sorted(es) \in Seq(Strings \X Y) /\ Len(Sorted(es)) = Len(es)
  BY <1>1, <1>2, <1>3
<1>5. ASSUME NEW k \in 1..Len(es)
      PROVE  at(Place(es, k)) = k /\ Place(es, k) \in 1..Len(es)
  <2>1. Place(es, k) \in 1..Len(es)
    BY PlaceOrder
  <2>2. at(Place(es, k)) \in 1..Len(es) /\ Place(es, at(Place(es, k))) = Place(es, k)
    BY <1>2, <2>1
  <2> QED BY <2>1, <2>2, PlaceOrder
<1> QED BY <1>1, <1>2, <1>4, <1>5

(* Sorting keeps the set of entries.                                       *)
LEMMA SortedSet ==
    ASSUME NEW Y, NEW es \in Seq(Strings \X Y)
    PROVE  ToSet(Sorted(es)) = ToSet(es)
<1>1. \A x : x \in ToSet(es) <=> \E k \in 1..Len(es) : x = es[k]
  BY MembersOf
<1>2. Sorted(es) \in Seq(Strings \X Y) /\ Len(Sorted(es)) = Len(es)
  BY SortedPlaces
<1>3. \A x : x \in ToSet(Sorted(es)) <=> \E k \in 1..Len(es) : x = Sorted(es)[k]
  BY <1>2, MembersOf
<1>4. \A k \in 1..Len(es) : Place(es, k) \in 1..Len(es)
  BY PlaceOrder
<1>5. \A i \in 1..Len(es) : \E k \in 1..Len(es) : Sorted(es)[i] = es[k]
  BY SortedPlaces
<1>6. \A k \in 1..Len(es) : Sorted(es)[Place(es, k)] = es[k]
  BY SortedPlaces
<1>7. \A x : x \in ToSet(Sorted(es)) <=> x \in ToSet(es)
  BY <1>1, <1>3, <1>4, <1>5, <1>6
<1> QED BY <1>7

(* Entries with different keys are ascending when they are sorted, *)
LEMMA SortedAscends ==
    ASSUME NEW Y, NEW es \in Seq(Strings \X Y), KeysApart(es)
    PROVE  Ascending(Sorted(es))
<1> SUFFICES ASSUME NEW i \in 1..Len(es), NEW j \in 1..Len(es), i < j
             PROVE  Sorted(es)[i][1] < Sorted(es)[j][1]
  BY SortedPlaces DEF Ascending
<1>1. PICK k \in 1..Len(es) : Place(es, k) = i /\ Sorted(es)[i] = es[k]
  BY SortedPlaces
<1>2. PICK l \in 1..Len(es) : Place(es, l) = j /\ Sorted(es)[j] = es[l]
  BY SortedPlaces
<1>3. ~Before(es, l, k) /\ k # l
  <2>1. Before(es, l, k) => Place(es, l) < Place(es, k)
    BY PlaceOrder
  <2> QED BY <1>1, <1>2, <2>1
<1>4. es[k][1] \in Nat /\ es[l][1] \in Nat
  BY KeysAreNumbers
<1>5. es[k][1] # es[l][1]
  BY <1>3 DEF KeysApart
<1> QED BY <1>1, <1>2, <1>3, <1>4, <1>5 DEF Before

(* and stay where they are if they were. *)
LEMMA AscendingIsSorted ==
    ASSUME NEW Y, NEW es \in Seq(Strings \X Y), Ascending(es)
    PROVE  KeysApart(es) /\ Sorted(es) = es
<1>1. \A k \in 1..Len(es) : es[k][1] \in Nat
  BY KeysAreNumbers
<1>2. KeysApart(es)
  BY <1>1 DEF Ascending, KeysApart
<1>3. ASSUME NEW k \in 1..Len(es)
      PROVE  Place(es, k) = k
  <2> DEFINE T == {j \in 1..Len(es) : \/ es[j][1] < es[k][1]
                                      \/ es[j][1] = es[k][1] /\ j <= k}
  <2>1. ASSUME NEW j \in 1..Len(es)
        PROVE  j \in T <=> j <= k
    <3>1. j < k => es[j][1] < es[k][1]
      BY DEF Ascending
    <3>2. k < j => es[k][1] < es[j][1]
      BY DEF Ascending
    <3>3. es[j][1] \in Nat /\ es[k][1] \in Nat
      BY <1>1
    <3> QED BY <3>1, <3>2, <3>3
  <2>3. T = 1..k
    <3> HIDE DEF T
    <3>1. T \subseteq 1..Len(es)
      BY DEF T
    <3>2. Len(es) \in Nat
      OBVIOUS
    <3>3. \A j \in T : j \in 1..k
      BY <2>1, <3>1, <3>2
    <3>4. \A j \in 1..k : j \in T
      BY <2>1, <3>2
    <3> QED BY <3>3, <3>4
  <2>2. Cardinality(1..k) = k
    BY FS_Interval
  <2>4. Place(es, k) = Cardinality(T)
    BY DEF Place
  <2> HIDE DEF T
  <2> QED BY <2>2, <2>3, <2>4
<1>4. \A k \in 1..Len(es) : Sorted(es)[k] = es[k]
  BY <1>3, SortedPlaces
<1>5. Sorted(es) \in Seq(Strings \X Y) /\ Len(Sorted(es)) = Len(es)
  BY SortedPlaces
<1> QED BY <1>2, <1>4, <1>5

UpToKey(entries, k) == {e \in entries : e[1] <= k}

(* The place of an entry among ascending ones is known from their set. *)
LEMMA AscendingRank ==
    ASSUME NEW Y, NEW es \in Seq(Strings \X Y), Ascending(es), NEW i \in 1..Len(es)
    PROVE  Cardinality(UpToKey(ToSet(es), es[i][1])) = i
<1> DEFINE T == UpToKey(ToSet(es), es[i][1])
           f == [j \in 1..i |-> es[j]]
<1>1. \A k \in 1..Len(es) : es[k][1] \in Nat
  BY KeysAreNumbers
<1>2. \A x : x \in ToSet(es) <=> \E k \in 1..Len(es) : x = es[k]
  BY MembersOf
<1>3. \A x : x \in T <=> \E k \in 1..i : x = es[k]
  BY <1>1, <1>2 DEF Ascending, UpToKey
<1> HIDE DEF T
<1>4. f \in [1..i -> T]
  BY <1>3
<1>5. \A j, k \in 1..i : f[j] = f[k] => j = k
  BY <1>1 DEF Ascending
<1>6. \A x \in T : \E k \in 1..i : f[k] = x
  BY <1>3
<1>7. f \in Bijection(1..i, T)
  <2> HIDE DEF f
  <2> QED BY <1>4, <1>5, <1>6
             DEF Bijection, Injection, IsInjective, Surjection
<1>8. ExistsBijection(1..i, T)
  <2> HIDE DEF f
  <2> QED BY <1>7 DEF ExistsBijection
<1>9. Cardinality(T) = i
  BY <1>8, FS_CountingElements
<1> QED BY <1>9 DEF T

(* Ascending entries are known from their set. *)
LEMMA AscendingUnique ==
    ASSUME NEW Y, NEW es \in Seq(Strings \X Y), Ascending(es),
           NEW fs \in Seq(Strings \X Y), Ascending(fs),
           ToSet(es) = ToSet(fs)
    PROVE  es = fs
<1>1. ASSUME NEW i \in 1..Len(es), NEW j \in 1..Len(fs), es[i] = fs[j]
      PROVE  i = j
  <2>1. Cardinality(UpToKey(ToSet(es), es[i][1])) = i
    BY AscendingRank
  <2>2. Cardinality(UpToKey(ToSet(fs), fs[j][1])) = j
    BY AscendingRank
  <2> QED BY <1>1, <2>1, <2>2
<1>2. \A x : x \in ToSet(es) <=> \E k \in 1..Len(es) : x = es[k]
  BY MembersOf
<1>3. \A x : x \in ToSet(fs) <=> \E k \in 1..Len(fs) : x = fs[k]
  BY MembersOf
<1>4. ASSUME NEW i \in 1..Len(es)
      PROVE  i \in 1..Len(fs) /\ es[i] = fs[i]
  <2>1. es[i] \in ToSet(fs)
    BY <1>2
  <2>2. PICK j \in 1..Len(fs) : es[i] = fs[j]
    BY <1>3, <2>1
  <2> QED BY <1>1, <2>2
<1>5. ASSUME NEW j \in 1..Len(fs)
      PROVE  j \in 1..Len(es)
  <2>1. fs[j] \in ToSet(es)
    BY <1>3
  <2>2. PICK i \in 1..Len(es) : fs[j] = es[i]
    BY <1>2, <2>1
  <2> QED BY <1>1, <2>2
<1>6. Len(es) = Len(fs)
  <2>1. Len(es) \in Nat /\ Len(fs) \in Nat
    OBVIOUS
  <2>2. Len(es) # 0 => Len(es) \in 1..Len(fs)
    BY <1>4, <2>1
  <2>3. Len(fs) # 0 => Len(fs) \in 1..Len(es)
    BY <1>5, <2>1
  <2> QED BY <2>1, <2>2, <2>3
<1> QED BY <1>4, <1>6
---------------------------------------------------------------------------
(* The types of a state and their parts.                                   *)

(* A type is one at every level from its own on. *)
LEMMA TypesGrow ==
    \A n \in 0..Nesting : n + 1 \in 1..Nesting => TypesTo[n] \subseteq TypesTo[n + 1]
<1> DEFINE N == {n \in Nat : n + 1 \in 1..Nesting => TypesTo[n] \subseteq TypesTo[n + 1]}
<1>1. 0 \in N
  BY NoneAtZero
<1>2. ASSUME NEW n \in N, n + 1 \in 1..Nesting
      PROVE  n + 1 \in N
  <2> SUFFICES ASSUME n + 2 \in 1..Nesting, NEW t \in TypesTo[n + 1]
               PROVE  t \in TypesTo[n + 2]
    BY <1>2
  <2>1. TypesTo[n] \subseteq TypesTo[n + 1]
    BY <1>2
  <2>2. (n + 1) - 1 = n /\ (n + 2) - 1 = n + 1
    BY <1>2
  <2>3. Seq(TypesTo[n]) \subseteq Seq(TypesTo[n + 1])
    BY <2>1
  <2> HIDE DEF N
  <2> QED BY <1>2, <2>1, <2>2, <2>3, TypeShape
<1>3. N \in SUBSET Nat
  OBVIOUS
<1>4. \A n \in 0..Nesting : n \in N
  <2> HIDE DEF N
  <2> QED BY <1>1, <1>2, <1>3, NestingAssumption, BoundedInduction
<1> QED BY <1>4

(* The parts of a type are types. *)
LEMMA TypeParts ==
    ASSUME NEW t \in Types
    PROVE  /\ t.kind = "scalar" => t = Scalar(t.scalar) /\ t.scalar \in Scalars
           /\ t.kind \in {"map", "slice"} => t.elem \in Types
           /\ t.kind = "struct" => t.fields \in Seq(Types)
           /\ t.kind \in Kinds
<1>1. Nesting \in 1..Nesting /\ Nesting - 1 \in 0..Nesting /\ (Nesting - 1) + 1 = Nesting
  BY SomeLevel, NestingAssumption
<1>2. TypesTo[Nesting - 1] \subseteq Types
  BY <1>1, TypesGrow DEF Types
<1>3. Seq(TypesTo[Nesting - 1]) \subseteq Seq(Types)
  BY <1>2
<1> QED BY <1>1, <1>2, <1>3, TypeShape DEF Types, Scalar, Kinds

(* A struct that is supported has fields that are. *)
LEMMA SupportedFields ==
    ASSUME NEW structs, IsFiniteSet(DOMAIN structs),
           NEW n \in SupportedStructs(structs)
    PROVE  /\ n \in DOMAIN structs
           /\ \A i \in 1..Len(structs[n].fields) :
                 FieldSupported(structs, structs[n].fields[i], SupportedStructs(structs))
<1> DEFINE D == DOMAIN structs
<1>1. PICK sup : /\ \A R \in Resolving(structs) : sup[R] = SupportedAt(structs, sup, R)
                 /\ SupportedStructs(structs) = sup[{}]
  BY SupportedByResolving
<1>2. \A G, H, t : G \subseteq H /\ FieldSupported(structs, t, G)
                      => FieldSupported(structs, t, H)
  BY DEF FieldSupported, ElemSupported, MapSupported, SliceSupported
<1>3. OfSupported!Ranked(structs)
  BY MoreIsResolved DEF OfSupported!Ranked
<1> DEFINE Fewer(Q) == \A R \in SUBSET Q : sup[Q] \subseteq sup[R]
           T == {Q \in Resolving(structs) : ~Fewer(Q)}
<1>4. T = {}
  <2> SUFFICES ASSUME T # {} PROVE FALSE
    OBVIOUS
  <2>1. T \in SUBSET Resolving(structs)
    OBVIOUS
  <2>2. PICK Q \in T : \A P \in T : Unresolved(structs, Q) <= Unresolved(structs, P)
    <3> HIDE DEF T
    <3> QED BY <1>3, <2>1, OfSupported!LeastRank
  <2>3. PICK R \in SUBSET Q : ~(sup[Q] \subseteq sup[R])
    BY <2>2
  <2>4. PICK m \in sup[Q] : m \notin sup[R]
    BY <2>3
  <2>5. Q \in Resolving(structs) /\ R \in Resolving(structs)
    BY <2>2, <2>3 DEF Resolving
  <2>6. /\ m \in D \ Q
        /\ \A i \in 1..Len(structs[m].fields) :
              FieldSupported(structs, structs[m].fields[i], sup[Q \cup {m}])
    BY <1>1, <2>4, <2>5 DEF SupportedAt
  <2>7. Q \cup {m} \notin T
    <3>1. Q \cup {m} \in Resolving(structs) /\ Q # Q \cup {m}
      BY <2>5, <2>6 DEF Resolving
    <3>2. /\ Unresolved(structs, Q \cup {m}) < Unresolved(structs, Q)
          /\ Unresolved(structs, Q) \in Nat /\ Unresolved(structs, Q \cup {m}) \in Nat
      BY <2>5, <3>1, MoreIsResolved
    <3> HIDE DEF T
    <3> QED BY <2>2, <3>2
  <2>8. sup[Q \cup {m}] \subseteq sup[R \cup {m}]
    <3>1. Q \cup {m} \in Resolving(structs)
      BY <2>5, <2>6 DEF Resolving
    <3>2. R \cup {m} \in SUBSET (Q \cup {m})
      BY <2>3
    <3> QED BY <2>7, <3>1, <3>2
  <2>9. m \in sup[R]
    <3>1. m \in D \ R
      BY <2>3, <2>6
    <3>2. \A i \in 1..Len(structs[m].fields) :
             FieldSupported(structs, structs[m].fields[i], sup[R \cup {m}])
      BY <1>2, <2>6, <2>8
    <3> QED BY <1>1, <2>5, <3>1, <3>2 DEF SupportedAt
  <2> QED BY <2>4, <2>9
<1>5. {} \in Resolving(structs)
  BY DEF Resolving
<1>6. /\ n \in D
      /\ \A i \in 1..Len(structs[n].fields) :
            FieldSupported(structs, structs[n].fields[i], sup[{n}])
  <2>1. n \in SupportedAt(structs, sup, {})
    BY <1>1, <1>5
  <2>2. {} \cup {n} = {n}
    OBVIOUS
  <2> QED BY <2>1, <2>2 DEF SupportedAt
<1>7. sup[{n}] \subseteq sup[{}]
  <2>1. {n} \in Resolving(structs) /\ {} \in SUBSET {n}
    BY <1>6 DEF Resolving
  <2> QED BY <1>4, <2>1
<1> QED BY <1>1, <1>2, <1>6, <1>7

---------------------------------------------------------------------------
(* What the analyser admits as the type of a global, field or element. *)
Kept(structs, t) == FieldSupported(structs, t, SupportedStructs(structs))

(* The analyser and the codec agree. *)
LEMMA KeptIsSupported ==
    ASSUME NEW structs, NEW t
    PROVE  /\ Kept(structs, t) <=> PersistentTypeSupported(structs, t)
           /\ Kept(structs, t) <=> FieldSnapshotSupported(structs, t)
           /\ ElemSnapshotSupported(structs, t) => Kept(structs, t)
BY DEF Kept, FieldSupported, ElemSupported, MapSupported, SliceSupported,
       PersistentTypeSupported, NamedStructSupported, FieldSnapshotSupported,
       ElemSnapshotSupported

(* What is assumed of a contract.                                          *)
LEMMA SchemaFacts ==
    ASSUME NEW s \in Schemas
    PROVE  /\ s.globals \in Seq(Types)
           /\ IsFiniteSet(DOMAIN s.structs)
           /\ \A n \in DOMAIN s.structs :
                 s.structs[n] \in Types /\ s.structs[n].kind = "struct"
BY CodecAssumption

(* A type resolves to a type, and to itself unless it is a struct.         *)
LEMMA ResolvedIsType ==
    ASSUME NEW s \in Schemas, NEW t \in Types
    PROVE  /\ ResolveType(s.structs, t) \in Types
           /\ ResolveType(s.structs, t).kind # "struct" => ResolveType(s.structs, t) = t
BY SchemaFacts DEF ResolveType

(* The parts of a type that is kept are kept, and the codec takes them. *)
LEMMA KeptParts ==
    ASSUME NEW s \in Schemas, NEW t \in Types, Kept(s.structs, t)
    PROVE  LET r == ResolveType(s.structs, t)
           IN  /\ r.kind \in {"scalar", "struct", "map", "slice"}
               /\ r.kind = "scalar" => r.scalar \in Scalars
               /\ r.kind = "struct" =>
                     /\ t.kind = "named"
                     /\ \A i \in 1..Len(r.fields) :
                           /\ r.fields[i] \in Types /\ Kept(s.structs, r.fields[i])
                           /\ FieldSnapshotSupported(s.structs, r.fields[i])
               /\ r.kind = "map" =>
                     /\ ResolveType(s.structs, r.key) = Scalar("string")
                     /\ ElemSnapshotSupported(s.structs, r.elem)
               /\ r.kind = "slice" => ElemSnapshotSupported(s.structs, r.elem)
               /\ r.kind \in {"map", "slice"} =>
                     r.elem \in Types /\ Kept(s.structs, r.elem)
<1> DEFINE structs == s.structs
           r == ResolveType(structs, t)
<1>1. r \in Types
  BY ResolvedIsType
<1>2. CASE IsScalar(structs, t)
  BY <1>1, <1>2, TypeParts DEF IsScalar
<1>3. CASE t.kind = "named" /\ t.name \in SupportedStructs(structs)
  <2>1. /\ t.name \in DOMAIN structs
        /\ \A i \in 1..Len(structs[t.name].fields) :
              Kept(structs, structs[t.name].fields[i])
    BY <1>3, SchemaFacts, SupportedFields DEF Kept
  <2>2. r = structs[t.name] /\ r.kind = "struct"
    BY <1>3, <2>1, SchemaFacts DEF ResolveType
  <2>3. r.fields \in Seq(Types)
    BY <1>1, <2>2, TypeParts
  <2>4. \A i \in 1..Len(r.fields) : r.fields[i] \in Types
    BY <2>3
  <2> QED BY <1>3, <2>1, <2>2, <2>4, KeptIsSupported
<1>4. CASE /\ t.kind \in {"map", "slice"} /\ ~IsScalar(structs, t)
  <2>1. r = t
    BY <1>4 DEF ResolveType
  <2>2. ElemSupported(structs, t.elem, SupportedStructs(structs))
    BY <1>4 DEF Kept, FieldSupported, ElemSupported, MapSupported, SliceSupported
  <2>3. ElemSnapshotSupported(structs, t.elem)
    BY <2>2 DEF ElemSupported, ElemSnapshotSupported, NamedStructSupported
  <2>4. t.kind = "map" => ResolveType(structs, t.key) = Scalar("string")
    BY <1>4 DEF Kept, FieldSupported, ElemSupported, MapSupported, SliceSupported
  <2>5. t.elem \in Types
    BY <1>4, TypeParts
  <2> QED BY <1>4, <2>1, <2>3, <2>4, <2>5, KeptIsSupported
<1> QED BY <1>2, <1>3, <1>4
        DEF Kept, FieldSupported, ElemSupported, MapSupported, SliceSupported
---------------------------------------------------------------------------
(* Values there can be: in a map no key comes twice, and what is nil is    *)
(* empty.  Those of a snapshot have their maps sorted.                     *)

MapsOver(how, inner) ==
    {v \in [kind : {"map"}, isnil : BOOLEAN, entries : Seq(Strings \X inner)] :
       /\ v.isnil => v.entries = <<>>
       /\ KeysApart(v.entries)
       /\ how = "sorted" => Ascending(v.entries)}

ProperAt(how, at, n) ==
    IF n = 0 THEN {}
    ELSE [kind : {"scalar"}, of : Scalars, data : Strings \cup Numbers \cup {0, 1}]
           \cup [kind : {"struct"}, fields : Seq(at[n - 1])]
           \cup MapsOver(how, at[n - 1])
           \cup {v \in [kind : {"slice"}, isnil : BOOLEAN, items : Seq(at[n - 1])] :
                   v.isnil => v.items = <<>>}

OfProper == INSTANCE Recursion WITH S <- Depths, Rank <- Level, Def <- ProperAt

Proper(how) == CHOOSE g : g = [n \in 0..Depth |-> ProperAt(how, g, n)]

(* The proper values of a level, from those one level down.                *)
LEMMA ProperByLevel ==
    ASSUME NEW how, NEW n \in 0..Depth
    PROVE  Proper(how)[n] = ProperAt(how, Proper(how), n)
<1> DEFINE at == Proper(how)
<1>1. OfProper!Ranked(how) /\ OfProper!Descends(how)
  BY DepthNat DEF OfProper!Ranked, OfProper!Descends, Depths, Level, ProperAt
<1>2. at = CHOOSE g : OfProper!Defines(how, g)
  BY DEF OfProper!Defines, Depths, Proper
<1>3. OfProper!Defines(how, at)
  <2> HIDE DEF at
  <2> QED BY <1>1, <1>2, OfProper!Recursion
<1> HIDE DEF at
<1>4. at[n] = ProperAt(how, at, n)
  BY <1>3 DEF OfProper!Defines, Depths
<1> QED BY <1>4 DEF at

(* What such a value can be. *)
LEMMA ProperShape ==
    ASSUME NEW how, NEW n \in 1..Depth, NEW v
    PROVE  v \in Proper(how)[n] <=>
             \/ v \in [kind : {"scalar"}, of : Scalars,
                       data : Strings \cup Numbers \cup {0, 1}]
             \/ v \in [kind : {"struct"}, fields : Seq(Proper(how)[n - 1])]
             \/ v \in MapsOver(how, Proper(how)[n - 1])
             \/ /\ v \in [kind : {"slice"}, isnil : BOOLEAN,
                          items : Seq(Proper(how)[n - 1])]
                /\ v.isnil => v.items = <<>>
<1>1. n \in 0..Depth /\ n # 0
  OBVIOUS
<1>2. Proper(how)[n] = ProperAt(how, Proper(how), n)
  BY <1>1, ProperByLevel
<1> QED BY <1>1, <1>2 DEF ProperAt

(* There is no proper value of depth zero.                                 *)
LEMMA NoneProperAtZero ==
    ASSUME NEW how
    PROVE  Proper(how)[0] = {}
<1>1. 0 \in 0..Depth
  BY DepthNat
<1> QED BY <1>1, ProperByLevel DEF ProperAt

(* Proper values are values, and sorted ones are proper.                   *)
LEMMA ProperAreValues ==
    ASSUME NEW n \in 0..Depth
    PROVE  /\ Proper("unordered")[n] \subseteq ValuesTo[n]
           /\ Proper("sorted")[n] \subseteq Proper("unordered")[n]
<1> DEFINE Good(k) == /\ Proper("unordered")[k] \subseteq ValuesTo[k]
                      /\ Proper("sorted")[k] \subseteq Proper("unordered")[k]
           N == {k \in Nat : Good(k)}
<1>1. 0 \in N
  BY NoneProperAtZero
<1>2. ASSUME NEW m \in N, m + 1 \in 1..Depth
      PROVE  m + 1 \in N
  <2> DEFINE V == ValuesTo[m]
             P == Proper("unordered")[m]
             Q == Proper("sorted")[m]
  <2>0. m \in Nat /\ Good(m)
    <3> HIDE DEF Good
    <3> QED BY <1>2
  <2>1. P \subseteq V /\ Q \subseteq P /\ (m + 1) - 1 = m
    BY <2>0
  <2> HIDE DEF V, P, Q
  <2>2. Seq(P) \subseteq Seq(V) /\ Seq(Q) \subseteq Seq(P)
    BY <2>1
  <2>3. Seq(Strings \X P) \subseteq Seq(Strings \X V)
    <3>1. Strings \X P \subseteq Strings \X V
      BY <2>1
    <3> QED BY <3>1
  <2>4. Seq(Strings \X Q) \subseteq Seq(Strings \X P)
    <3>1. Strings \X Q \subseteq Strings \X P
      BY <2>1
    <3> QED BY <3>1
  <2>5. MapsOver("sorted", Q) \subseteq MapsOver("unordered", P)
    BY <2>4 DEF MapsOver
  <2>6. MapsOver("unordered", P)
          \subseteq [kind : {"map"}, isnil : BOOLEAN, entries : Seq(Strings \X V)]
    BY <2>3 DEF MapsOver
  <2>7. ASSUME NEW v \in Proper("unordered")[m + 1]
        PROVE  v \in ValuesTo[m + 1]
    <3>1. \/ v \in [kind : {"scalar"}, of : Scalars,
                    data : Strings \cup Numbers \cup {0, 1}]
          \/ v \in [kind : {"struct"}, fields : Seq(P)]
          \/ v \in MapsOver("unordered", P)
          \/ v \in [kind : {"slice"}, isnil : BOOLEAN, items : Seq(P)]
      BY <1>2, <2>1, <2>7, ProperShape DEF P
    <3>2. \/ v \in [kind : {"scalar"}, of : Scalars,
                    data : Strings \cup Numbers \cup {0, 1}]
          \/ v \in [kind : {"struct"}, fields : Seq(V)]
          \/ v \in [kind : {"map"}, isnil : BOOLEAN, entries : Seq(Strings \X V)]
          \/ v \in [kind : {"slice"}, isnil : BOOLEAN, items : Seq(V)]
      BY <3>1, <2>2, <2>6
    <3> QED BY <1>2, <2>1, <3>2, ValueShape DEF V
  <2>8. ASSUME NEW v \in Proper("sorted")[m + 1]
        PROVE  v \in Proper("unordered")[m + 1]
    <3>1. \/ v \in [kind : {"scalar"}, of : Scalars,
                    data : Strings \cup Numbers \cup {0, 1}]
          \/ v \in [kind : {"struct"}, fields : Seq(Q)]
          \/ v \in MapsOver("sorted", Q)
          \/ /\ v \in [kind : {"slice"}, isnil : BOOLEAN, items : Seq(Q)]
             /\ v.isnil => v.items = <<>>
      BY <1>2, <2>1, <2>8, ProperShape DEF Q
    <3>2. \/ v \in [kind : {"scalar"}, of : Scalars,
                    data : Strings \cup Numbers \cup {0, 1}]
          \/ v \in [kind : {"struct"}, fields : Seq(P)]
          \/ v \in MapsOver("unordered", P)
          \/ /\ v \in [kind : {"slice"}, isnil : BOOLEAN, items : Seq(P)]
             /\ v.isnil => v.items = <<>>
      BY <3>1, <2>2, <2>5
    <3> QED BY <1>2, <2>1, <3>2, ProperShape DEF P
  <2>9. m + 1 \in Nat /\ Good(m + 1)
    BY <2>0, <2>7, <2>8
  <2> HIDE DEF Good
  <2> QED BY <2>9
<1>3. N \in SUBSET Nat
  OBVIOUS
<1>4. \A m \in 0..Depth : m \in N
  <2> HIDE DEF N
  <2> QED BY <1>1, <1>2, <1>3, DepthNat, BoundedInduction
<1> QED BY <1>4

---------------------------------------------------------------------------
(* What a function leaves in a global is such a value of its type. *)
LEMMA NewValues ==
    ASSUME NEW s \in Schemas, NEW n \in 0..Depth, NEW t \in Types,
           NEW v \in OfType(s.structs)[n][t]
    PROVE  <<t, v>> \in Typed(s.structs)[n] /\ v \in Proper("unordered")[n]
<1> DEFINE structs == s.structs
           Good(m) == \A u \in Types : \A x \in OfType(structs)[m][u] :
                         <<u, x>> \in Typed(structs)[m] /\ x \in Proper("unordered")[m]
           N == {k \in Nat : Good(k)}
<1>1. 0 \in N
  <2>1. 0 \in 0..Depth
    BY DepthNat
  <2>2. \A u \in Types : OfType(structs)[0][u] = {}
    BY <2>1, OfTypeByLevel DEF OfTypeAt
  <2> QED BY <2>2
<1>2. ASSUME NEW m \in N, m + 1 \in 1..Depth
      PROVE  m + 1 \in N
  <2>0. m \in Nat /\ Good(m)
    <3> HIDE DEF Good
    <3> QED BY <1>2
  <2> SUFFICES ASSUME NEW u \in Types, NEW x \in OfType(structs)[m + 1][u]
               PROVE  <<u, x>> \in Typed(structs)[m + 1] /\ x \in Proper("unordered")[m + 1]
    <3>1. m + 1 \in Nat /\ Good(m + 1)
      BY <2>0
    <3> HIDE DEF Good
    <3> QED BY <3>1
  <2> DEFINE inner == OfType(structs)[m]
             T == Typed(structs)[m]
             P == Proper("unordered")[m]
             r == ResolveType(structs, u)
  <2>1. m + 1 \in 0..Depth /\ m \in 0..Depth /\ (m + 1) - 1 = m /\ m + 1 # 0
    BY <1>2, <2>0, DepthNat
  <2>2. \A w \in Types : \A y \in inner[w] : <<w, y>> \in T /\ y \in P
    BY <2>0
  <2>3. x \in ValuesOver(structs, u, inner)
    <3>1. OfType(structs)[m + 1] = OfTypeAt(structs, OfType(structs), m + 1)
      BY <2>1, OfTypeByLevel
    <3>2. OfType(structs)[m + 1][u] = ValuesOver(structs, u, OfType(structs)[m])
      BY <2>1, <3>1 DEF OfTypeAt
    <3> QED BY <3>2
  <2>4. r \in Types
    BY ResolvedIsType
  <2>5. x \in Proper("unordered")[m + 1] => x \in ValuesTo[m + 1]
    BY <2>1, ProperAreValues
  <2> SUFFICES TypeOver(structs, u, x, T) /\ x \in Proper("unordered")[m + 1]
    BY <1>2, <2>1, <2>5, TypedByLevel
  <2> HIDE DEF N, Good, inner, T, r
  <2>6. CASE r.kind = "scalar"
    <3>1. PICK d \in Data(r.scalar) : x = ScalarValue(r.scalar, d)
      BY <2>3, <2>6 DEF ValuesOver, r
    <3>2. r.scalar \in Scalars /\ d \in Strings \cup Numbers \cup {0, 1}
      BY <2>4, <2>6, TypeParts DEF Data
    <3>3. x \in [kind : {"scalar"}, of : Scalars, data : Strings \cup Numbers \cup {0, 1}]
      BY <3>1, <3>2 DEF ScalarValue
    <3>4. TypeOver(structs, u, x, T)
      BY <2>6, <3>1 DEF TypeOver, ScalarValue, r
    <3> QED BY <1>2, <2>1, <3>3, <3>4, ProperShape
  <2>7. CASE r.kind = "struct"
    <3> DEFINE sets == Each(inner, r.fields)
    <3>1. r.fields \in Seq(Types)
      BY <2>4, <2>7, TypeParts
    <3>2. PICK fs \in Products(sets) : x = StructValue(fs)
      BY <2>3, <2>7 DEF ValuesOver, r
    <3>3. /\ sets \in Seq({sets[i] : i \in 1..Len(r.fields)}) /\ Len(sets) = Len(r.fields)
          /\ \A i \in 1..Len(r.fields) : sets[i] = inner[r.fields[i]]
      BY <3>1 DEF Each
    <3>4. \A i \in 1..Len(r.fields) : r.fields[i] \in Types /\ sets[i] \subseteq P
      <4>1. \A i \in 1..Len(r.fields) : r.fields[i] \in Types
        BY <3>1
      <4> HIDE DEF sets, P
      <4> QED BY <2>2, <3>3, <4>1
    <3> HIDE DEF sets, P
    <3>5. /\ fs \in Seq(P) /\ Len(fs) = Len(r.fields)
          /\ \A i \in 1..Len(r.fields) : fs[i] \in sets[i]
      BY ZenonT(30), <3>3, <3>4, ProductMember
    <3>6. x \in [kind : {"struct"}, fields : Seq(P)]
      BY <3>2, <3>5 DEF StructValue
    <3>7. TypeOver(structs, u, x, T)
      BY <2>2, <2>7, <3>2, <3>3, <3>4, <3>5 DEF TypeOver, StructValue, r
    <3> QED BY <1>2, <2>1, <3>6, <3>7, ProperShape DEF P
  <2>8. CASE r.kind = "map"
    <3>1. r.elem \in Types
      BY <2>4, <2>8, TypeParts
    <3>2. CASE x = NilMap
      <4>1. x \in MapsOver("unordered", P)
        BY <3>2 DEF NilMap, MapValue, MapsOver, KeysApart
      <4>2. TypeOver(structs, u, x, T)
        BY <2>8, <3>2 DEF TypeOver, NilMap, MapValue, r, ToSet
      <4> QED BY <1>2, <2>1, <4>1, <4>2, ProperShape
    <3>3. CASE x # NilMap
      <4>1. PICK ks \in KeyOrders : \E vs \in [1..Len(ks) -> inner[r.elem]] :
                x = MapOver(ks, vs)
        BY <2>3, <2>8, <3>3 DEF ValuesOver, r
      <4>2. PICK vs \in [1..Len(ks) -> inner[r.elem]] : x = MapOver(ks, vs)
        BY <4>1
      <4>3. ks \in Seq(Strings) /\ \A i, j \in 1..Len(ks) : ks[i] = ks[j] => i = j
        BY SMTT(30), CodecAssumption DEF KeyOrders, Upto, IsInjective
      <4> DEFINE es == [i \in 1..Len(ks) |-> <<ks[i], vs[i]>>]
      <4>4. \A i \in 1..Len(ks) : vs[i] \in P /\ <<r.elem, vs[i]>> \in T
        BY <2>2, <3>1, <4>2
      <4>5. es \in Seq(Strings \X P) /\ Len(es) = Len(ks)
        <5>1. \A i \in 1..Len(ks) : ks[i] \in Strings /\ vs[i] \in P
          <6>1. \A i \in 1..Len(ks) : ks[i] \in Strings
            <7>1. ks \in Seq(Strings)
              BY <4>3
            <7> QED BY <7>1
          <6>2. \A i \in 1..Len(ks) : vs[i] \in P
            BY <4>4
          <6> HIDE DEF P
          <6> QED BY <6>1, <6>2
        <5>2. \A i \in 1..Len(ks) : <<ks[i], vs[i]>> \in Strings \X P
          BY <5>1
        <5>3. Len(ks) \in Nat
          BY <4>3
        <5> QED BY <5>2, <5>3
      <4>6. \A i \in 1..Len(ks) : es[i] = <<ks[i], vs[i]>>
        OBVIOUS
      <4>7. x = MapValue(FALSE, es)
        BY <4>2 DEF MapOver
      <4> HIDE DEF es
      <4>8. KeysApart(es)
        BY <4>3, <4>5, <4>6 DEF KeysApart
      <4>9. x \in MapsOver("unordered", P)
        BY <4>5, <4>7, <4>8 DEF MapValue, MapsOver
      <4>10. \A e \in ToSet(es) : <<r.elem, e[2]>> \in T
        <5>1. \A i \in 1..Len(es) : <<r.elem, es[i][2]>> \in T
          BY <4>4, <4>5, <4>6
        <5> QED BY <4>5, <5>1, MembersOf
      <4>11. TypeOver(structs, u, x, T)
        BY <2>8, <4>7, <4>10 DEF TypeOver, MapValue, r
      <4> QED BY <1>2, <2>1, <4>9, <4>11, ProperShape
    <3> QED BY <3>2, <3>3
  <2>9. CASE r.kind = "slice"
    <3>1. r.elem \in Types
      BY <2>4, <2>9, TypeParts
    <3>2. PICK b \in BOOLEAN, vs \in Seq(inner[r.elem]) :
             x = SliceValue(b, vs) /\ (b => vs = <<>>)
      <4>1. CASE x = NilSlice
        <5>1. <<>> \in Seq(inner[r.elem]) /\ TRUE \in BOOLEAN
          OBVIOUS
        <5> QED BY <4>1, <5>1 DEF NilSlice
      <4>2. CASE \E ys \in Upto(inner[r.elem]) : x = SliceValue(FALSE, ys)
        <5>1. PICK ys \in Upto(inner[r.elem]) : x = SliceValue(FALSE, ys)
          BY <4>2
        <5>2. PICK k \in 0..MaxLive : ys \in [1..k -> inner[r.elem]]
          BY DEF Upto
        <5>3. ys \in Seq(inner[r.elem])
          BY <5>2, CodecAssumption
        <5> QED BY <5>1, <5>3
      <4> QED BY <2>3, <2>9, <4>1, <4>2 DEF ValuesOver, r
    <3> HIDE DEF P
    <3>3. vs \in Seq(P)
      <4>1. inner[r.elem] \subseteq P
        BY <2>2, <3>1
      <4> QED BY <4>1
    <3>4. \A y \in ToSet(vs) : <<r.elem, y>> \in T
      <4>1. \A i \in 1..Len(vs) : <<r.elem, vs[i]>> \in T
        BY <2>2, <3>1
      <4> QED BY <4>1, MembersOf
    <3>5. x \in [kind : {"slice"}, isnil : BOOLEAN, items : Seq(P)]
          /\ (x.isnil => x.items = <<>>)
      BY <3>2, <3>3 DEF SliceValue
    <3>6. TypeOver(structs, u, x, T)
      BY <2>9, <3>2, <3>4 DEF TypeOver, SliceValue, r
    <3> QED BY <1>2, <2>1, <3>5, <3>6, ProperShape DEF P
  <2> QED BY <2>3, <2>6, <2>7, <2>8, <2>9 DEF ValuesOver, r
<1>3. N \in SUBSET Nat
  OBVIOUS
<1>4. \A m \in 0..Depth : m \in N
  <2> HIDE DEF N
  <2> QED BY <1>1, <1>2, <1>3, DepthNat, BoundedInduction
<1> QED BY <1>4
---------------------------------------------------------------------------
(* Extract, Marshal and Build keep the shape of a value. *)

Maps(f, X, Y) == \A x \in X : f[x] \in Y

(* Each applies f at every place.                                          *)
LEMMA EachOf ==
    ASSUME NEW X, NEW Y, NEW f, Maps(f, X, Y), NEW vs \in Seq(X)
    PROVE  /\ Each(f, vs) \in Seq(Y) /\ Len(Each(f, vs)) = Len(vs)
           /\ \A i \in 1..Len(vs) : vs[i] \in X /\ Each(f, vs)[i] = f[vs[i]]
<1>1. Len(vs) \in Nat /\ \A i \in 1..Len(vs) : vs[i] \in X
  OBVIOUS
<1>2. \A i \in 1..Len(vs) : f[vs[i]] \in Y
  BY <1>1 DEF Maps
<1> QED BY <1>1, <1>2 DEF Each

(* fs has the keys of es, which has values in X, with f of their values. *)
Entrywise(f, X, es, fs) ==
    /\ Len(fs) = Len(es)
    /\ \A i \in 1..Len(es) : /\ es[i][1] \in Strings /\ es[i][2] \in X
                             /\ es[i] = <<es[i][1], es[i][2]>>
                             /\ fs[i] = <<es[i][1], f[es[i][2]]>>

(* EachEntry applies f to every value and keeps the keys.                  *)
LEMMA EachEntryOf ==
    ASSUME NEW X, NEW Y, NEW f, Maps(f, X, Y), NEW es \in Seq(Strings \X X)
    PROVE  /\ EachEntry(f, es) \in Seq(Strings \X Y)
           /\ Entrywise(f, X, es, EachEntry(f, es))
<1>1. Len(es) \in Nat /\ \A i \in 1..Len(es) : es[i] \in Strings \X X
  OBVIOUS
<1>2. \A i \in 1..Len(es) : /\ es[i][1] \in Strings /\ es[i][2] \in X
                            /\ es[i] = <<es[i][1], es[i][2]>>
  BY <1>1
<1>3. \A i \in 1..Len(es) : <<es[i][1], f[es[i][2]]>> \in Strings \X Y
  BY <1>2 DEF Maps
<1>4. EachEntry(f, es) \in Seq(Strings \X Y) /\ Len(EachEntry(f, es)) = Len(es)
  BY <1>1, <1>3 DEF EachEntry
<1>5. \A i \in 1..Len(es) : EachEntry(f, es)[i] = <<es[i][1], f[es[i][2]]>>
  BY <1>1 DEF EachEntry
<1> QED BY <1>2, <1>4, <1>5 DEF Entrywise

(* The value of every entry of fs is f of the value of an entry of es. *)
EntriesFrom(f, es, fs) ==
    \A i \in 1..Len(fs) : \E k \in 1..Len(es) : fs[i][2] = f[es[k][2]]

(* What extractMapSnapshotValue makes of the entries of a map.             *)
LEMMA SortedEntries ==
    ASSUME NEW X, NEW Y, NEW f, Maps(f, X, Y), NEW es \in Seq(Strings \X X)
    PROVE  /\ Sorted(EachEntry(f, es)) \in Seq(Strings \X Y)
           /\ EntriesFrom(f, es, Sorted(EachEntry(f, es)))
<1> DEFINE fs == EachEntry(f, es)
<1>1. /\ fs \in Seq(Strings \X Y) /\ Len(fs) = Len(es)
      /\ \A i \in 1..Len(es) : fs[i] = <<es[i][1], f[es[i][2]]>>
  <2>1. fs \in Seq(Strings \X Y) /\ Entrywise(f, X, es, fs)
    BY EachEntryOf
  <2> HIDE DEF fs
  <2> QED BY <2>1 DEF Entrywise
<1> HIDE DEF fs
<1>2. /\ Sorted(fs) \in Seq(Strings \X Y) /\ Len(Sorted(fs)) = Len(fs)
      /\ \A i \in 1..Len(fs) : \E k \in 1..Len(fs) : Sorted(fs)[i] = fs[k]
  BY <1>1, SortedPlaces
<1>3. ASSUME NEW i \in 1..Len(Sorted(fs))
      PROVE  \E k \in 1..Len(es) : Sorted(fs)[i][2] = f[es[k][2]]
  <2>1. PICK k \in 1..Len(fs) : Sorted(fs)[i] = fs[k]
    BY <1>2
  <2> QED BY <1>1, <2>1
<1>4. EntriesFrom(f, es, Sorted(fs))
  BY <1>3 DEF EntriesFrom
<1> QED BY <1>2, <1>4 DEF fs

(* What a literal with the sorted entries leaves in a map.                 *)
LEMMA BuiltEntries ==
    ASSUME NEW X, NEW Y, NEW f, Maps(f, X, Y), NEW es \in Seq(Strings \X X)
    PROVE  /\ Assigned(EachEntry(f, Sorted(es))) \in Seq(Strings \X Y)
           /\ EntriesFrom(f, es, Assigned(EachEntry(f, Sorted(es))))
<1> DEFINE fs == EachEntry(f, Sorted(es))
           Z == {e \in Strings \X Y : \E k \in 1..Len(es) : e[2] = f[es[k][2]]}
<1>1. /\ Sorted(es) \in Seq(Strings \X X) /\ Len(Sorted(es)) = Len(es)
      /\ \A i \in 1..Len(es) : \E k \in 1..Len(es) : Sorted(es)[i] = es[k]
  BY SortedPlaces
<1>2. /\ fs \in Seq(Strings \X Y) /\ Len(fs) = Len(es)
      /\ \A i \in 1..Len(es) : fs[i] = <<Sorted(es)[i][1], f[Sorted(es)[i][2]]>>
  <2>1. fs \in Seq(Strings \X Y) /\ Entrywise(f, X, Sorted(es), fs)
    BY <1>1, EachEntryOf
  <2> HIDE DEF fs
  <2> QED BY <1>1, <2>1 DEF Entrywise
<1> HIDE DEF fs
<1>3. \A i \in 1..Len(fs) : fs[i] \in Z
  <2> SUFFICES ASSUME NEW i \in 1..Len(fs)
               PROVE  fs[i] \in Z
    OBVIOUS
  <2>1. PICK k \in 1..Len(es) : Sorted(es)[i] = es[k]
    BY <1>1, <1>2
  <2>2. fs[i][2] = f[es[k][2]]
    BY <1>2, <2>1
  <2>3. fs[i] \in Strings \X Y
    BY <1>2
  <2> QED BY <2>2, <2>3
<1>4. fs \in Seq(Z)
  <2> HIDE DEF Z
  <2> QED BY <1>2, <1>3
<1>5. Assigned(fs) \in Seq(Z)
  BY <1>4, AssignedEntries
<1>6. Assigned(fs) \in Seq(Strings \X Y)
  <2>1. Z \subseteq Strings \X Y
    OBVIOUS
  <2> HIDE DEF Z
  <2> QED BY <1>5, <2>1
<1>7. EntriesFrom(f, es, Assigned(fs))
  <2>1. \A i \in 1..Len(Assigned(fs)) : Assigned(fs)[i] \in Z
    <3> HIDE DEF Z
    <3> QED BY <1>5
  <2> QED BY <2>1 DEF EntriesFrom
<1> QED BY <1>6, <1>7 DEF fs

(* What replaces a string is one.                                          *)
LEMMA ReplacedStrings ==
    ASSUME NEW s \in Strings
    PROVE  Replaced(s) \in Strings
BY CodecAssumption DEF Replaced

Marshalled(f, es) == [i \in 1..Len(es) |-> <<Replaced(es[i][1]), f[es[i][2]]>>]

(* What is read back of the entries of a map.                              *)
LEMMA MarshalledEntries ==
    ASSUME NEW X, NEW Y, NEW f, Maps(f, X, Y), NEW es \in Seq(Strings \X X)
    PROVE  Marshalled(f, es) \in Seq(Strings \X Y) /\ EntriesFrom(f, es, Marshalled(f, es))
<1> DEFINE fs == Marshalled(f, es)
<1>1. Len(es) \in Nat /\ \A i \in 1..Len(es) : es[i][1] \in Strings /\ es[i][2] \in X
  <2>1. Entrywise(f, X, es, EachEntry(f, es))
    BY EachEntryOf
  <2> QED BY <2>1 DEF Entrywise
<1>2. \A i \in 1..Len(es) : <<Replaced(es[i][1]), f[es[i][2]]>> \in Strings \X Y
  BY <1>1, ReplacedStrings DEF Maps
<1>3. fs \in Seq(Strings \X Y) /\ Len(fs) = Len(es)
  BY <1>1, <1>2 DEF Marshalled
<1>4. \A i \in 1..Len(fs) : fs[i][2] = f[es[i][2]]
  BY <1>1, <1>3 DEF Marshalled
<1> HIDE DEF fs
<1>5. EntriesFrom(f, es, fs)
  BY <1>3, <1>4 DEF EntriesFrom
<1> QED BY <1>3, <1>5 DEF fs

(* The walks that give a value again. *)
Reshaping == {"extract", "marshal", "build"}

(* w has the shape of v, with f of the values in it. *)
Reshaped(f, v, w) ==
    /\ w.kind = v.kind
    /\ v.kind = "scalar" => /\ w.of = v.of
                            /\ v.of # "string" => w = v
                            /\ v.data \in Strings => w.data \in Strings
    /\ v.kind = "struct" => w.fields = Each(f, v.fields)
    /\ v.kind = "map"    => EntriesFrom(f, v.entries, w.entries)
    /\ v.kind = "slice"  => w.items = Each(f, v.items)

(* A walk keeps the shape of a value if it keeps values inside.            *)
LEMMA WalkReshapes ==
    ASSUME NEW what \in Reshaping, NEW n \in 1..Depth, NEW f,
           Maps(f, ValuesTo[n - 1], ValuesTo[n - 1]), NEW v \in ValuesTo[n]
    PROVE  WalkOver(what, v, f) \in ValuesTo[n] /\ Reshaped(f, v, WalkOver(what, v, f))
<1> DEFINE V == ValuesTo[n - 1]
           w == WalkOver(what, v, f)
<1>0. Maps(f, V, V)
  OBVIOUS
<1>1. \/ v \in [kind : {"scalar"}, of : Scalars, data : Strings \cup Numbers \cup {0, 1}]
      \/ v \in [kind : {"struct"}, fields : Seq(V)]
      \/ v \in [kind : {"map"}, isnil : BOOLEAN, entries : Seq(Strings \X V)]
      \/ v \in [kind : {"slice"}, isnil : BOOLEAN, items : Seq(V)]
  BY ValueShape
<1> SUFFICES /\ \/ w \in [kind : {"scalar"}, of : Scalars,
                          data : Strings \cup Numbers \cup {0, 1}]
                \/ w \in [kind : {"struct"}, fields : Seq(V)]
                \/ w \in [kind : {"map"}, isnil : BOOLEAN, entries : Seq(Strings \X V)]
                \/ w \in [kind : {"slice"}, isnil : BOOLEAN, items : Seq(V)]
             /\ Reshaped(f, v, w)
  BY ValueShape
<1> HIDE DEF V
<1>2. CASE v \in [kind : {"scalar"}, of : Scalars, data : Strings \cup Numbers \cup {0, 1}]
  <2>1. v.kind = "scalar" /\ v.of \in Scalars /\ v.data \in Strings \cup Numbers \cup {0, 1}
    BY <1>2
  <2>2. w = v \/ (v.of = "string" /\ w = ScalarValue(v.of, Replaced(v.data)))
    BY <2>1 DEF WalkOver, ExtractOver, MarshalOver, BuildOver, Reshaping
  <2>3. Replaced(v.data) \in Strings \cup Numbers \cup {0, 1}
        /\ (v.data \in Strings => Replaced(v.data) \in Strings)
    BY <2>1, CodecAssumption DEF Replaced
  <2>4. CASE w = v
    <3>1. Reshaped(f, v, w)
      BY <2>1, <2>4 DEF Reshaped
    <3> HIDE DEF w
    <3> QED BY <1>2, <2>4, <3>1
  <2>5. CASE v.of = "string" /\ w = ScalarValue(v.of, Replaced(v.data))
    <3> HIDE DEF w
    <3>1. w \in [kind : {"scalar"}, of : Scalars, data : Strings \cup Numbers \cup {0, 1}]
      BY <2>1, <2>3, <2>5 DEF ScalarValue
    <3>2. w.kind = "scalar" /\ w.of = v.of /\ w.data = Replaced(v.data)
      BY <2>5 DEF ScalarValue
    <3>3. Reshaped(f, v, w)
      BY <2>1, <2>3, <2>5, <3>2 DEF Reshaped
    <3> QED BY <3>1, <3>3
  <2> QED BY <2>2, <2>4, <2>5
<1>3. CASE v \in [kind : {"struct"}, fields : Seq(V)]
  <2>1. v.kind = "struct" /\ v.fields \in Seq(V)
    BY <1>3
  <2>2. w = StructValue(Each(f, v.fields))
    BY <2>1 DEF WalkOver, ExtractOver, MarshalOver, BuildOver, Reshaping
  <2>3. Each(f, v.fields) \in Seq(V)
    BY <1>0, <2>1, EachOf
  <2> HIDE DEF w
  <2>4. w \in [kind : {"struct"}, fields : Seq(V)]
    BY <2>2, <2>3 DEF StructValue
  <2>5. Reshaped(f, v, w)
    BY <2>1, <2>2 DEF Reshaped, StructValue
  <2> QED BY <2>4, <2>5
<1>4. CASE v \in [kind : {"map"}, isnil : BOOLEAN, entries : Seq(Strings \X V)]
  <2>1. v.kind = "map" /\ v.isnil \in BOOLEAN /\ v.entries \in Seq(Strings \X V)
    BY <1>4
  <2> DEFINE ms == Marshalled(f, v.entries)
  <2>2. /\ Sorted(EachEntry(f, v.entries)) \in Seq(Strings \X V)
        /\ EntriesFrom(f, v.entries, Sorted(EachEntry(f, v.entries)))
    BY <1>0, <2>1, SortedEntries
  <2>3. /\ Assigned(EachEntry(f, Sorted(v.entries))) \in Seq(Strings \X V)
        /\ EntriesFrom(f, v.entries, Assigned(EachEntry(f, Sorted(v.entries))))
    BY <1>0, <2>1, BuiltEntries
  <2>4. ms \in Seq(Strings \X V) /\ EntriesFrom(f, v.entries, ms)
    BY <1>0, <2>1, MarshalledEntries
  <2>5. <<>> \in Seq(Strings \X V) /\ EntriesFrom(f, v.entries, <<>>)
    BY DEF EntriesFrom
  <2>6. PICK b \in BOOLEAN, es \in Seq(Strings \X V) :
             w = MapValue(b, es) /\ EntriesFrom(f, v.entries, es)
    <3>1. CASE what = "extract" /\ v.isnil
      BY <2>1, <2>5, <3>1 DEF WalkOver, ExtractOver, ExtractMap, NilMap
    <3>2. CASE what = "extract" /\ ~v.isnil
      BY <2>1, <2>2, <3>2 DEF WalkOver, ExtractOver, ExtractMap
    <3>3. CASE what = "marshal"
      BY <2>1, <2>4, <3>3 DEF WalkOver, MarshalOver, Marshalled
    <3>4. CASE what = "build"
      BY <2>1, <2>3, <3>4 DEF WalkOver, BuildOver
    <3> QED BY <3>1, <3>2, <3>3, <3>4 DEF Reshaping
  <2> HIDE DEF w
  <2>7. w \in [kind : {"map"}, isnil : BOOLEAN, entries : Seq(Strings \X V)]
    BY <2>6 DEF MapValue
  <2>8. Reshaped(f, v, w)
    BY <2>1, <2>6 DEF Reshaped, MapValue
  <2> QED BY <2>7, <2>8
<1>5. CASE v \in [kind : {"slice"}, isnil : BOOLEAN, items : Seq(V)]
  <2>1. v.kind = "slice" /\ v.isnil \in BOOLEAN /\ v.items \in Seq(V)
    BY <1>5
  <2>2. w = SliceValue(v.isnil, Each(f, v.items))
    BY <2>1 DEF WalkOver, ExtractOver, MarshalOver, BuildOver, Reshaping
  <2>3. Each(f, v.items) \in Seq(V)
    BY <1>0, <2>1, EachOf
  <2> HIDE DEF w
  <2>4. w \in [kind : {"slice"}, isnil : BOOLEAN, items : Seq(V)]
    BY <2>1, <2>2, <2>3 DEF SliceValue
  <2>5. Reshaped(f, v, w)
    BY <2>1, <2>2 DEF Reshaped, SliceValue
  <2> QED BY <2>4, <2>5
<1> QED BY <1>1, <1>2, <1>3, <1>4, <1>5

(* Extracting, writing as text and building give values.                   *)
LEMMA WalksKeepValues ==
    ASSUME NEW what \in Reshaping, NEW n \in 0..Depth
    PROVE  Maps(Walk(what)[n], ValuesTo[n], ValuesTo[n])
<1> DEFINE Good(k) == Maps(Walk(what)[k], ValuesTo[k], ValuesTo[k])
           N == {k \in Nat : Good(k)}
<1>1. 0 \in N
  BY NoValueAtZero DEF Maps
<1>2. ASSUME NEW m \in N, m + 1 \in 1..Depth
      PROVE  m + 1 \in N
  <2>1. m \in Nat /\ Good(m)
    <3> HIDE DEF Good
    <3> QED BY <1>2
  <2>2. m + 1 \in 1..Depth /\ (m + 1) - 1 = m
    BY <1>2, <2>1
  <2>3. Maps(Walk(what)[(m + 1) - 1], ValuesTo[(m + 1) - 1], ValuesTo[(m + 1) - 1])
    BY <2>1, <2>2
  <2>4. ASSUME NEW v \in ValuesTo[m + 1]
        PROVE  Walk(what)[m + 1][v] \in ValuesTo[m + 1]
    <3>1. WalkOver(what, v, Walk(what)[(m + 1) - 1]) \in ValuesTo[m + 1]
      BY <2>2, <2>3, WalkReshapes
    <3> QED BY <2>2, <3>1, WalkByLevel
  <2>5. m + 1 \in Nat /\ Good(m + 1)
    BY <2>1, <2>4 DEF Maps
  <2> HIDE DEF Good
  <2> QED BY <2>5
<1>3. N \in SUBSET Nat
  OBVIOUS
<1>4. \A m \in 0..Depth : m \in N
  <2> HIDE DEF N
  <2> QED BY <1>1, <1>2, <1>3, DepthNat, BoundedInduction
<1> QED BY <1>4

(* f keeps the type of a value. *)
KeepsTypes(f, T) == \A t, v : <<t, v>> \in T => <<t, f[v]>> \in T

(* The parts of a value, by its kind.                                      *)
LEMMA ValueParts ==
    ASSUME NEW n \in 1..Depth, NEW v \in ValuesTo[n]
    PROVE  /\ v.kind \in {"scalar", "struct", "map", "slice"}
           /\ v.kind = "struct" => v.fields \in Seq(ValuesTo[n - 1])
           /\ v.kind = "map" => v.entries \in Seq(Strings \X ValuesTo[n - 1])
           /\ v.kind = "slice" => v.items \in Seq(ValuesTo[n - 1])
<1> DEFINE V == ValuesTo[n - 1]
<1>1. \/ v \in [kind : {"scalar"}, of : Scalars, data : Strings \cup Numbers \cup {0, 1}]
      \/ v \in [kind : {"struct"}, fields : Seq(V)]
      \/ v \in [kind : {"map"}, isnil : BOOLEAN, entries : Seq(Strings \X V)]
      \/ v \in [kind : {"slice"}, isnil : BOOLEAN, items : Seq(V)]
  BY ValueShape
<1> HIDE DEF V
<1> SUFFICES /\ v.kind \in {"scalar", "struct", "map", "slice"}
             /\ v.kind = "struct" => v.fields \in Seq(V)
             /\ v.kind = "map" => v.entries \in Seq(Strings \X V)
             /\ v.kind = "slice" => v.items \in Seq(V)
  BY DEF V
<1>2. CASE v \in [kind : {"scalar"}, of : Scalars, data : Strings \cup Numbers \cup {0, 1}]
  BY <1>2
<1>3. CASE v \in [kind : {"struct"}, fields : Seq(V)]
  BY <1>3
<1>4. CASE v \in [kind : {"map"}, isnil : BOOLEAN, entries : Seq(Strings \X V)]
  BY <1>4
<1>5. CASE v \in [kind : {"slice"}, isnil : BOOLEAN, items : Seq(V)]
  BY <1>5
<1> QED BY <1>1, <1>2, <1>3, <1>4, <1>5

(* A value of the same shape has the same types.                           *)
LEMMA ReshapedKeepsType ==
    ASSUME NEW structs, NEW n \in 1..Depth, NEW f, NEW T, KeepsTypes(f, T),
           NEW t, NEW v \in ValuesTo[n], NEW w \in ValuesTo[n],
           Reshaped(f, v, w), TypeOver(structs, t, v, T)
    PROVE  TypeOver(structs, t, w, T)
<1> DEFINE r == ResolveType(structs, t)
<1>1. w.kind = v.kind /\ v.kind = r.kind /\ r.kind \in {"scalar", "struct", "map", "slice"}
  BY DEF Reshaped, TypeOver
<1> HIDE DEF r
<1>2. CASE r.kind = "scalar"
  <2>1. v.of = r.scalar /\ v.data \in Data(r.scalar)
    BY <1>2 DEF TypeOver, r
  <2>2. w.of = v.of /\ w.data \in Data(r.scalar)
    <3>1. w.of = v.of /\ (v.of # "string" => w = v)
          /\ (v.data \in Strings => w.data \in Strings)
      BY <1>1, <1>2 DEF Reshaped
    <3>2. CASE v.of = "string"
      BY <2>1, <3>1, <3>2 DEF Data
    <3>3. CASE v.of # "string"
      BY <2>1, <3>1, <3>3
    <3> QED BY <3>1, <3>2, <3>3
  <2> QED BY <1>1, <1>2, <2>1, <2>2 DEF TypeOver, r
<1>3. CASE r.kind = "struct"
  <2>1. /\ Len(v.fields) = Len(r.fields)
        /\ \A i \in 1..Len(r.fields) : <<r.fields[i], v.fields[i]>> \in T
    BY <1>3 DEF TypeOver, r
  <2>2. w.fields = Each(f, v.fields)
    BY <1>1, <1>3 DEF Reshaped
  <2>3. v.fields \in Seq(ValuesTo[n - 1])
    BY <1>1, <1>3, ValueParts
  <2>4. Len(w.fields) = Len(v.fields)
        /\ \A i \in 1..Len(v.fields) : w.fields[i] = f[v.fields[i]]
    BY <2>2, <2>3 DEF Each
  <2>5. /\ Len(w.fields) = Len(r.fields)
        /\ \A i \in 1..Len(r.fields) : <<r.fields[i], w.fields[i]>> \in T
    BY <2>1, <2>4 DEF KeepsTypes
  <2> QED BY <1>1, <1>3, <2>5 DEF TypeOver, r
<1>4. CASE r.kind = "map"
  <2>1. \A e \in ToSet(v.entries) : <<r.elem, e[2]>> \in T
    BY <1>4 DEF TypeOver, r
  <2>2. EntriesFrom(f, v.entries, w.entries)
    BY <1>1, <1>4 DEF Reshaped
  <2>3. /\ v.entries \in Seq(Strings \X ValuesTo[n - 1])
        /\ w.entries \in Seq(Strings \X ValuesTo[n - 1])
    BY <1>1, <1>4, ValueParts
  <2>4. ASSUME NEW e \in ToSet(w.entries)
        PROVE  <<r.elem, e[2]>> \in T
    <3>1. PICK i \in 1..Len(w.entries) : e = w.entries[i]
      BY <2>3, MembersOf
    <3>2. PICK k \in 1..Len(v.entries) : w.entries[i][2] = f[v.entries[k][2]]
      BY <2>2 DEF EntriesFrom
    <3>3. v.entries[k] \in ToSet(v.entries)
      BY <2>3, MembersOf
    <3> QED BY <2>1, <3>1, <3>2, <3>3 DEF KeepsTypes
  <2> QED BY <1>1, <1>4, <2>4 DEF TypeOver, r
<1>5. CASE r.kind = "slice"
  <2>1. \A x \in ToSet(v.items) : <<r.elem, x>> \in T
    BY <1>5 DEF TypeOver, r
  <2>2. w.items = Each(f, v.items)
    BY <1>1, <1>5 DEF Reshaped
  <2>3. v.items \in Seq(ValuesTo[n - 1]) /\ w.items \in Seq(ValuesTo[n - 1])
    BY <1>1, <1>5, ValueParts
  <2>4. Len(w.items) = Len(v.items)
        /\ \A i \in 1..Len(v.items) : w.items[i] = f[v.items[i]]
    BY <2>2, <2>3 DEF Each
  <2>5. ASSUME NEW x \in ToSet(w.items)
        PROVE  <<r.elem, x>> \in T
    <3>1. PICK i \in 1..Len(w.items) : x = w.items[i]
      BY <2>3, MembersOf
    <3>2. v.items[i] \in ToSet(v.items)
      BY <2>3, <2>4, <3>1, MembersOf
    <3> QED BY <2>1, <2>4, <3>1, <3>2 DEF KeepsTypes
  <2> QED BY <1>1, <1>5, <2>5 DEF TypeOver, r
<1> QED BY <1>1, <1>2, <1>3, <1>4, <1>5

(* What has a type is a value, and not of depth zero.                      *)
LEMMA TypedShape ==
    ASSUME NEW structs, NEW n \in 0..Depth, NEW p \in Typed(structs)[n]
    PROVE  n # 0 /\ p = <<p[1], p[2]>> /\ p[1] \in Types /\ p[2] \in ValuesTo[n]
<1> DEFINE at == Typed(structs)
<1>1. at[n] = TypedAt(structs, at, n)
  <2>1. OfTyped!Ranked(structs) /\ OfTyped!Descends(structs)
    BY DepthNat DEF OfTyped!Ranked, OfTyped!Descends, Depths, Level, TypedAt
  <2>2. at = CHOOSE g : OfTyped!Defines(structs, g)
    BY DEF OfTyped!Defines, Depths, Typed
  <2>3. OfTyped!Defines(structs, at)
    <3> HIDE DEF at
    <3> QED BY <2>1, <2>2, OfTyped!Recursion
  <2> HIDE DEF at
  <2> QED BY <2>3 DEF OfTyped!Defines, Depths
<1> HIDE DEF at
<1>2. p \in at[n]
  BY DEF at
<1>3. n # 0 /\ p \in Types \X ValuesTo[n]
  BY <1>1, <1>2 DEF TypedAt
<1> QED BY <1>3

(* Extracting, writing as text and building keep types.                    *)
LEMMA WalksKeepTypes ==
    ASSUME NEW structs, NEW what \in Reshaping, NEW n \in 0..Depth
    PROVE  KeepsTypes(Walk(what)[n], Typed(structs)[n])
<1> DEFINE Good(k) == KeepsTypes(Walk(what)[k], Typed(structs)[k])
           N == {k \in Nat : Good(k)}
<1>1. 0 \in N
  <2>1. 0 \in 0..Depth
    BY DepthNat
  <2>2. Good(0)
    BY <2>1, TypedShape DEF KeepsTypes
  <2> HIDE DEF Good
  <2> QED BY <2>2
<1>2. ASSUME NEW m \in N, m + 1 \in 1..Depth
      PROVE  m + 1 \in N
  <2>1. m \in Nat /\ Good(m)
    <3> HIDE DEF Good
    <3> QED BY <1>2
  <2>2. m + 1 \in 1..Depth /\ (m + 1) - 1 = m /\ m \in 0..Depth
    BY <1>2, <2>1, DepthNat
  <2> DEFINE f == Walk(what)[m]
             T == Typed(structs)[m]
  <2>3. KeepsTypes(f, T)
    BY <2>1
  <2>4. Maps(Walk(what)[(m + 1) - 1], ValuesTo[(m + 1) - 1], ValuesTo[(m + 1) - 1])
    BY <2>2, WalksKeepValues
  <2>5. ASSUME NEW t, NEW v, <<t, v>> \in Typed(structs)[m + 1]
        PROVE  <<t, Walk(what)[m + 1][v]>> \in Typed(structs)[m + 1]
    <3> DEFINE w == Walk(what)[m + 1][v]
    <3>1. t \in Types /\ v \in ValuesTo[m + 1] /\ TypeOver(structs, t, v, T)
      BY <2>2, <2>5, TypedByLevel
    <3>2. w = WalkOver(what, v, f)
      BY <2>2, <3>1, WalkByLevel
    <3>3. w \in ValuesTo[m + 1] /\ Reshaped(f, v, w)
      BY <2>2, <2>4, <3>1, <3>2, WalkReshapes
    <3> HIDE DEF w, f, T
    <3>4. TypeOver(structs, t, w, T)
      BY <2>2, <2>3, <3>1, <3>3, ReshapedKeepsType
    <3> QED BY <2>2, <3>1, <3>3, <3>4, TypedByLevel DEF T, w
  <2>6. m + 1 \in Nat /\ Good(m + 1)
    BY <2>1, <2>5 DEF KeepsTypes
  <2> HIDE DEF Good
  <2> QED BY <2>6
<1>3. N \in SUBSET Nat
  OBVIOUS
<1>4. \A m \in 0..Depth : m \in N
  <2> HIDE DEF N
  <2> QED BY <1>1, <1>2, <1>3, DepthNat, BoundedInduction
<1> QED BY <1>4

(* A value of a type that may be kept is one the codec takes. *)
CodecTakes(structs, T, C) == \A t, v : <<t, v>> \in T /\ Kept(structs, t) => <<t, v>> \in C

(* The codec converts every value of a type that may be kept.              *)
LEMMA KeptConverts ==
    ASSUME NEW s \in Schemas, NEW n \in 0..Depth
    PROVE  CodecTakes(s.structs, Typed(s.structs)[n], Converts(s.structs)[n])
<1> DEFINE structs == s.structs
           Good(k) == CodecTakes(structs, Typed(structs)[k], Converts(structs)[k])
           N == {k \in Nat : Good(k)}
<1>1. 0 \in N
  <2>1. 0 \in 0..Depth
    BY DepthNat
  <2>2. Good(0)
    BY <2>1, TypedShape DEF CodecTakes
  <2> HIDE DEF Good
  <2> QED BY <2>2
<1>2. ASSUME NEW m \in N, m + 1 \in 1..Depth
      PROVE  m + 1 \in N
  <2>1. m \in Nat /\ Good(m)
    <3> HIDE DEF Good
    <3> QED BY <1>2
  <2>2. m + 1 \in 1..Depth /\ (m + 1) - 1 = m
    BY <1>2, <2>1
  <2> DEFINE T == Typed(structs)[m]
             C == Converts(structs)[m]
  <2>3. CodecTakes(structs, T, C)
    BY <2>1
  <2>4. ASSUME NEW t, NEW v, <<t, v>> \in Typed(structs)[m + 1], Kept(structs, t)
        PROVE  <<t, v>> \in Converts(structs)[m + 1]
    <3> DEFINE r == ResolveType(structs, t)
    <3>1. t \in Types /\ v \in ValuesTo[m + 1] /\ TypeOver(structs, t, v, T)
      BY <2>2, <2>4, TypedByLevel
    <3>2. /\ r.kind \in {"scalar", "struct", "map", "slice"}
          /\ r.kind = "scalar" => r.scalar \in Scalars
          /\ r.kind = "struct" =>
                /\ t.kind = "named"
                /\ \A i \in 1..Len(r.fields) :
                      /\ Kept(structs, r.fields[i])
                      /\ FieldSnapshotSupported(structs, r.fields[i])
          /\ r.kind = "map" =>
                /\ ResolveType(structs, r.key) = Scalar("string")
                /\ ElemSnapshotSupported(structs, r.elem)
          /\ r.kind = "slice" => ElemSnapshotSupported(structs, r.elem)
          /\ r.kind \in {"map", "slice"} => Kept(structs, r.elem)
      BY <2>4, <3>1, KeptParts
    <3> HIDE DEF T, C, r
    <3>3. v.kind = r.kind
      BY <3>1 DEF TypeOver, r
    <3> SUFFICES ConvertibleOver(structs, t, v, C)
      BY <2>2, <3>1, ConvertsByLevel DEF C
    <3>4. CASE r.kind = "scalar"
      BY <3>2, <3>3, <3>4 DEF ConvertibleOver, r
    <3>5. CASE r.kind = "struct"
      <4>1. /\ Len(v.fields) = Len(r.fields)
            /\ \A i \in 1..Len(r.fields) : <<r.fields[i], v.fields[i]>> \in T
        BY <3>1, <3>5 DEF TypeOver, r
      <4>2. \A i \in 1..Len(r.fields) : <<r.fields[i], v.fields[i]>> \in C
        BY <2>3, <3>2, <3>5, <4>1 DEF CodecTakes
      <4> QED BY <3>2, <3>3, <3>5, <4>1, <4>2 DEF ConvertibleOver, r
    <3>6. CASE r.kind = "map"
      <4>1. \A e \in ToSet(v.entries) : <<r.elem, e[2]>> \in T
        BY <3>1, <3>6 DEF TypeOver, r
      <4>2. \A e \in ToSet(v.entries) : <<r.elem, e[2]>> \in C
        BY <2>3, <3>2, <3>6, <4>1 DEF CodecTakes
      <4> QED BY <3>2, <3>3, <3>6, <4>2 DEF ConvertibleOver, r
    <3>7. CASE r.kind = "slice"
      <4>1. \A x \in ToSet(v.items) : <<r.elem, x>> \in T
        BY <3>1, <3>7 DEF TypeOver, r
      <4>2. \A x \in ToSet(v.items) : <<r.elem, x>> \in C
        BY <2>3, <3>2, <3>7, <4>1 DEF CodecTakes
      <4> QED BY <3>2, <3>3, <3>7, <4>2 DEF ConvertibleOver, r
    <3> QED BY <3>2, <3>4, <3>5, <3>6, <3>7
  <2>5. m + 1 \in Nat /\ Good(m + 1)
    BY <2>1, <2>4 DEF CodecTakes
  <2> HIDE DEF Good
  <2> QED BY <2>5
<1>3. N \in SUBSET Nat
  OBVIOUS
<1>4. \A m \in 0..Depth : m \in N
  <2> HIDE DEF N
  <2> QED BY <1>1, <1>2, <1>3, DepthNat, BoundedInduction
<1> QED BY <1>4
---------------------------------------------------------------------------
(* The globals of a contract, in memory or captured. *)

OfContract(s, vs) ==
    /\ vs \in Seq(ValuesTo[Depth]) /\ Len(vs) = Len(s.globals)
    /\ \A i \in 1..Len(vs) : <<s.globals[i], vs[i]>> \in Typed(s.structs)[Depth]

AdmittedContract(s) ==
    /\ s \in Schemas
    /\ \A i \in 1..Len(s.globals) : s.globals[i] \in Types /\ Kept(s.structs, s.globals[i])

CodecTypeInv ==
    /\ AdmittedContract(schema)
    /\ \A vs \in {snapshot, live, meant} : vs = <<>> \/ OfContract(schema, vs)
    /\ outcome \in {"done", "running", "returned", "dropped", "over limit",
                    "unsupported", "unrestorable"}
    /\ outcome \in {"running", "returned"} => OfContract(schema, live)

(* What a function leaves has the types of the globals and is proper.      *)
LEMMA GlobalsOfContract ==
    ASSUME AdmittedContract(schema), NEW vs \in Globals
    PROVE  /\ OfContract(schema, vs)
           /\ \A i \in 1..Len(vs) : vs[i] \in Proper("unordered")[Depth]
<1> DEFINE sets == [i \in 1..Len(schema.globals) |->
                      Values(schema.structs, schema.globals[i])]
           P == Proper("unordered")[Depth]
<1>1. schema \in Schemas /\ schema.globals \in Seq(Types) /\ Depth \in 0..Depth
  BY SchemaFacts, DepthNat DEF AdmittedContract
<1>2. Len(schema.globals) \in Nat /\ \A i \in 1..Len(schema.globals) : schema.globals[i] \in Types
  BY <1>1
<1>3. ASSUME NEW i \in 1..Len(schema.globals), NEW v \in sets[i]
      PROVE  <<schema.globals[i], v>> \in Typed(schema.structs)[Depth] /\ v \in P
  <2>1. v \in OfType(schema.structs)[Depth][schema.globals[i]]
    BY <1>3, ValuesOfType
  <2> QED BY <1>1, <1>2, <2>1, NewValues
<1>4. sets \in Seq({sets[i] : i \in 1..Len(schema.globals)})
      /\ Len(sets) = Len(schema.globals)
  BY <1>2
<1>5. vs \in Products(sets)
  BY DEF Globals
<1> HIDE DEF sets, P
<1>6. \A i \in 1..Len(sets) : sets[i] \subseteq P
  BY <1>3, <1>4
<1>7. /\ vs \in Seq(P) /\ Len(vs) = Len(sets)
      /\ \A i \in 1..Len(sets) : vs[i] \in sets[i]
  BY <1>4, <1>5, <1>6, ProductMember
<1>8. vs \in Seq(ValuesTo[Depth])
  <2>1. P \subseteq ValuesTo[Depth]
    BY <1>1, ProperAreValues DEF P
  <2> QED BY <1>7, <2>1
<1>9. OfContract(schema, vs)
  BY <1>3, <1>4, <1>7, <1>8 DEF OfContract
<1>10. \A i \in 1..Len(vs) : vs[i] \in P
  BY <1>7
<1> QED BY <1>9, <1>10 DEF P

(* The walks of the codec keep the types. *)
LEMMA WalkedOfContract ==
    ASSUME NEW s, NEW vs, OfContract(s, vs)
    PROVE  OfContract(s, Captured(vs)) /\ OfContract(s, Built(vs))
<1> DEFINE T == Typed(s.structs)[Depth]
           V == ValuesTo[Depth]
<1>1. Depth \in 0..Depth
  BY DepthNat
<1>2. /\ vs \in Seq(V) /\ Len(vs) = Len(s.globals)
      /\ \A i \in 1..Len(vs) : <<s.globals[i], vs[i]>> \in T
  BY DEF OfContract
<1>3. ASSUME NEW what \in Reshaping, NEW t, NEW v \in V, <<t, v>> \in T
      PROVE  Walk(what)[Depth][v] \in V /\ <<t, Walk(what)[Depth][v]>> \in T
  <2>1. Maps(Walk(what)[Depth], V, V)
    BY <1>1, WalksKeepValues
  <2>2. KeepsTypes(Walk(what)[Depth], T)
    BY <1>1, WalksKeepTypes
  <2> QED BY <1>3, <2>1, <2>2 DEF Maps, KeepsTypes
<1>4. ASSUME NEW t, NEW v \in V, <<t, v>> \in T
      PROVE  /\ Extract(v) \in V /\ <<t, Extract(v)>> \in T
             /\ Marshal(v) \in V /\ <<t, Marshal(v)>> \in T
             /\ Build(v) \in V /\ <<t, Build(v)>> \in T
  <2> HIDE DEF T, V
  <2> QED BY <1>3, <1>4, WalksOfValues DEF Reshaping
<1> HIDE DEF T, V
<1>5. Len(vs) \in Nat
  BY <1>2
<1>6. ASSUME NEW i \in 1..Len(vs)
      PROVE  /\ Marshal(Extract(vs[i])) \in V
             /\ <<s.globals[i], Marshal(Extract(vs[i]))>> \in T
             /\ Build(vs[i]) \in V
             /\ <<s.globals[i], Build(vs[i])>> \in T
  <2>1. vs[i] \in V /\ <<s.globals[i], vs[i]>> \in T
    BY <1>2
  <2>2. Extract(vs[i]) \in V /\ <<s.globals[i], Extract(vs[i])>> \in T
    BY <1>4, <2>1
  <2> QED BY <1>4, <2>1, <2>2
<1>7. OfContract(s, Captured(vs))
  <2>1. Captured(vs) \in Seq(V) /\ Len(Captured(vs)) = Len(vs)
    <3>1. \A i \in 1..Len(vs) : Marshal(Extract(vs[i])) \in V
      BY <1>6
    <3> QED BY <1>5, <3>1 DEF Captured
  <2>2. \A i \in 1..Len(vs) : <<s.globals[i], Captured(vs)[i]>> \in T
    BY <1>6 DEF Captured
  <2> QED BY <1>2, <2>1, <2>2 DEF OfContract, T, V
<1>8. OfContract(s, Built(vs))
  <2>1. Built(vs) \in Seq(V) /\ Len(Built(vs)) = Len(vs)
    <3>1. \A i \in 1..Len(vs) : Build(vs[i]) \in V
      BY <1>6
    <3> QED BY <1>5, <3>1 DEF Built
  <2>2. \A i \in 1..Len(vs) : <<s.globals[i], Built(vs)[i]>> \in T
    BY <1>6 DEF Built
  <2> QED BY <1>2, <2>1, <2>2 DEF OfContract, T, V
<1> QED BY <1>7, <1>8

(* The codec takes the globals of an admitted contract. *)
LEMMA AdmittedConverts ==
    ASSUME NEW s, AdmittedContract(s), NEW vs, OfContract(s, vs)
    PROVE  ConvertibleAll(s, vs)
<1>1. CodecTakes(s.structs, Typed(s.structs)[Depth], Converts(s.structs)[Depth])
  BY KeptConverts, DepthNat DEF AdmittedContract
<1>2. ASSUME NEW i \in 1..Len(vs)
      PROVE  Convertible(s.structs, s.globals[i], vs[i])
  <2>1. <<s.globals[i], vs[i]>> \in Typed(s.structs)[Depth] /\ Kept(s.structs, s.globals[i])
    BY DEF OfContract, AdmittedContract
  <2> QED BY <1>1, <2>1, ConvertedValues DEF CodecTakes
<1> QED BY <1>2 DEF ConvertibleAll

(* The types are right before the registration.                            *)
LEMMA CodecTypeInvInit == CodecInit => CodecTypeInv
<1> SUFFICES ASSUME CodecInit
             PROVE  CodecTypeInv
  OBVIOUS
<1>1. schema \in Schemas /\ schema.globals \in Seq(Types)
  BY SchemaFacts DEF CodecInit
<1>2. \A i \in 1..Len(schema.globals) :
         schema.globals[i] \in Types /\ Kept(schema.structs, schema.globals[i])
  BY <1>1, KeptIsSupported DEF CodecInit
<1> QED BY <1>1, <1>2 DEF CodecInit, CodecTypeInv, AdmittedContract

(* Every step keeps the types.                                             *)
LEMMA CodecTypeInvNext == CodecTypeInv /\ [CodecNext]_codecVars => CodecTypeInv'
<1> SUFFICES ASSUME CodecTypeInv, [CodecNext]_codecVars
             PROVE  CodecTypeInv'
  OBVIOUS
<1>1. AdmittedContract(schema)
  BY DEF CodecTypeInv
<1> DEFINE Well(vs) == vs = <<>> \/ OfContract(schema, vs)
<1>2. Well(snapshot) /\ Well(live) /\ Well(meant)
  BY DEF CodecTypeInv
<1>3. CASE Register
  <2>1. OfContract(schema, live')
    BY <1>1, <1>3, GlobalsOfContract DEF Register
  <2> QED BY <1>1, <1>2, <1>3, <2>1 DEF Register, CodecTypeInv
<1>4. CASE Restore
  <2>1. snapshot # <<>> /\ UNCHANGED <<schema, snapshot, meant>>
        /\ \/ live' = Built(snapshot) /\ outcome' = "running"
           \/ live' = <<>> /\ outcome' = "unrestorable"
    BY <1>4 DEF Restore
  <2>2. OfContract(schema, Built(snapshot))
    BY <1>2, <2>1, WalkedOfContract
  <2> QED BY <1>1, <1>2, <2>1, <2>2 DEF CodecTypeInv
<1>5. CASE Return
  <2>1. OfContract(schema, live')
    BY <1>1, <1>5, GlobalsOfContract DEF Return
  <2> QED BY <1>1, <1>2, <1>5, <2>1 DEF Return, CodecTypeInv
<1>6. CASE Capture
  <2>1. OfContract(schema, live)
    BY <1>6 DEF Capture, CodecTypeInv
  <2>2. OfContract(schema, Captured(live))
    BY <2>1, WalkedOfContract
  <2>3. /\ live' = <<>> /\ schema' = schema
        /\ \/ UNCHANGED <<snapshot, meant>> /\ outcome' \in {"unsupported", "over limit"}
           \/ snapshot' = Captured(live) /\ meant' = live /\ outcome' = "done"
    BY <1>6 DEF Capture
  <2> QED BY <1>1, <1>2, <2>1, <2>2, <2>3 DEF CodecTypeInv
<1>7. CASE Drop
  BY <1>1, <1>2, <1>7 DEF Drop, CodecTypeInv
<1>8. CASE \E i, j \in 1..Len(schema.globals) : Query(i, j)
  BY <1>1, <1>2, <1>8 DEF Query, CodecTypeInv
<1>9. CASE UNCHANGED codecVars
  BY <1>9 DEF codecVars, CodecTypeInv
<1> QED BY <1>3, <1>4, <1>5, <1>6, <1>7, <1>8, <1>9 DEF CodecNext

(* The inductive invariant behind CodecTypeCorrect.                        *)
LEMMA CodecTypeInvariant == CodecSpec => []CodecTypeInv
<1> QED BY CodecTypeInvInit, CodecTypeInvNext, PTL DEF CodecSpec

(* Globals in memory and in a snapshot have the types of the contract:     *)
(* extracting, writing as text and building again keep the type of every   *)
(* value.                                                                  *)
THEOREM CodecTypeCorrect == CodecSpec => []CodecTypeOK
<1>1. CodecTypeInv => CodecTypeOK
  <2> SUFFICES ASSUME CodecTypeInv
               PROVE  CodecTypeOK
    OBVIOUS
  <2>1. ASSUME NEW vs \in {snapshot, live, meant}, vs # <<>>, NEW i \in 1..Len(vs)
        PROVE  Len(vs) = Len(schema.globals) /\ HasType(schema.structs, schema.globals[i], vs[i])
    <3>1. OfContract(schema, vs)
      BY <2>1 DEF CodecTypeInv
    <3> QED BY <3>1, TypedValues DEF OfContract
  <2>2. \A vs \in {snapshot, live, meant} : vs # <<>> => Len(vs) = Len(schema.globals)
    BY DEF CodecTypeInv, OfContract
  <2>3. schema \in Schemas
    BY DEF CodecTypeInv, AdmittedContract
  <2> QED BY <2>1, <2>2, <2>3 DEF CodecTypeInv, CodecTypeOK
<1> QED BY <1>1, CodecTypeInvariant, PTL
---------------------------------------------------------------------------
(* What is captured is sorted, and a sorted value stays as it is.          *)

(* Keys that differ still do when f is applied to the values.              *)
LEMMA ApartEntries ==
    ASSUME NEW X, NEW Y, NEW f, Maps(f, X, Y), NEW es \in Seq(Strings \X X), KeysApart(es)
    PROVE  KeysApart(EachEntry(f, es))
<1> DEFINE fs == EachEntry(f, es)
<1>1. Entrywise(f, X, es, fs)
  BY EachEntryOf
<1> HIDE DEF fs
<1>2. Len(fs) = Len(es) /\ \A i \in 1..Len(es) : fs[i][1] = es[i][1]
  BY <1>1 DEF Entrywise
<1>3. KeysApart(fs)
  BY <1>2 DEF KeysApart
<1> QED BY <1>3 DEF fs

(* What is extracted is sorted if what is extracted inside is.             *)
LEMMA ExtractOfProper ==
    ASSUME NEW n \in 1..Depth, NEW f,
           Maps(f, Proper("unordered")[n - 1], Proper("sorted")[n - 1]),
           NEW v \in Proper("unordered")[n]
    PROVE  ExtractOver(v, f) \in Proper("sorted")[n]
<1> DEFINE P == Proper("unordered")[n - 1]
           Q == Proper("sorted")[n - 1]
           w == ExtractOver(v, f)
<1>0. Maps(f, P, Q)
  OBVIOUS
<1>1. \/ v \in [kind : {"scalar"}, of : Scalars, data : Strings \cup Numbers \cup {0, 1}]
      \/ v \in [kind : {"struct"}, fields : Seq(P)]
      \/ v \in MapsOver("unordered", P)
      \/ /\ v \in [kind : {"slice"}, isnil : BOOLEAN, items : Seq(P)]
         /\ v.isnil => v.items = <<>>
  BY ProperShape
<1> SUFFICES \/ w \in [kind : {"scalar"}, of : Scalars,
                       data : Strings \cup Numbers \cup {0, 1}]
             \/ w \in [kind : {"struct"}, fields : Seq(Q)]
             \/ w \in MapsOver("sorted", Q)
             \/ /\ w \in [kind : {"slice"}, isnil : BOOLEAN, items : Seq(Q)]
                /\ w.isnil => w.items = <<>>
  BY ProperShape
<1> HIDE DEF P, Q
<1>2. CASE v \in [kind : {"scalar"}, of : Scalars, data : Strings \cup Numbers \cup {0, 1}]
  <2>1. w = v
    BY <1>2 DEF ExtractOver
  <2> HIDE DEF w
  <2> QED BY <1>2, <2>1
<1>3. CASE v \in [kind : {"struct"}, fields : Seq(P)]
  <2>1. v.kind = "struct" /\ v.fields \in Seq(P)
    BY <1>3
  <2>2. w = StructValue(Each(f, v.fields))
    BY <2>1 DEF ExtractOver
  <2>3. Each(f, v.fields) \in Seq(Q)
    BY <1>0, <2>1, EachOf
  <2> HIDE DEF w
  <2> QED BY <2>2, <2>3 DEF StructValue
<1>4. CASE v \in MapsOver("unordered", P)
  <2> DEFINE es == v.entries
             fs == EachEntry(f, es)
  <2>1. v.kind = "map" /\ v.isnil \in BOOLEAN /\ es \in Seq(Strings \X P) /\ KeysApart(es)
    BY <1>4 DEF MapsOver
  <2>2. w = ExtractMap(v, f)
    BY <2>1 DEF ExtractOver
  <2> HIDE DEF w
  <2>3. CASE v.isnil
    <3>1. w = MapValue(TRUE, <<>>)
      BY <2>2, <2>3 DEF ExtractMap, NilMap
    <3>2. <<>> \in Seq(Strings \X Q) /\ KeysApart(<<>>) /\ Ascending(<<>>)
      BY DEF KeysApart, Ascending
    <3> QED BY <3>1, <3>2 DEF MapsOver, MapValue
  <2>4. CASE ~v.isnil
    <3>1. w = MapValue(FALSE, Sorted(fs))
      BY <2>2, <2>4 DEF ExtractMap
    <3>2. fs \in Seq(Strings \X Q)
      BY <1>0, <2>1, EachEntryOf
    <3>3. KeysApart(fs)
      BY <1>0, <2>1, ApartEntries
    <3> HIDE DEF fs, es
    <3>4. Sorted(fs) \in Seq(Strings \X Q)
      BY <3>2, SortedPlaces
    <3>5. Ascending(Sorted(fs))
      BY <3>2, <3>3, SortedAscends
    <3>6. KeysApart(Sorted(fs))
      BY <3>4, <3>5, AscendingIsSorted
    <3> QED BY <3>1, <3>4, <3>5, <3>6 DEF MapsOver, MapValue
  <2> QED BY <2>1, <2>3, <2>4
<1>5. CASE /\ v \in [kind : {"slice"}, isnil : BOOLEAN, items : Seq(P)]
           /\ v.isnil => v.items = <<>>
  <2>1. v.kind = "slice" /\ v.isnil \in BOOLEAN /\ v.items \in Seq(P)
        /\ (v.isnil => v.items = <<>>)
    BY <1>5
  <2>2. w = SliceValue(v.isnil, Each(f, v.items))
    BY <2>1 DEF ExtractOver
  <2>3. Each(f, v.items) \in Seq(Q) /\ Len(Each(f, v.items)) = Len(v.items)
    BY <1>0, <2>1, EachOf
  <2>4. v.isnil => Each(f, v.items) = <<>>
    BY <2>1, <2>3
  <2> HIDE DEF w
  <2>5. w \in [kind : {"slice"}, isnil : BOOLEAN, items : Seq(Q)]
    BY <2>1, <2>2, <2>3 DEF SliceValue
  <2>6. w.isnil => w.items = <<>>
    BY <2>2, <2>4 DEF SliceValue
  <2> QED BY <2>5, <2>6
<1> QED BY <1>1, <1>2, <1>3, <1>4, <1>5

(* What is extracted of a proper value is sorted.                          *)
LEMMA ExtractIsSorted ==
    ASSUME NEW n \in 0..Depth
    PROVE  Maps(Walk("extract")[n], Proper("unordered")[n], Proper("sorted")[n])
<1> DEFINE Good(k) == Maps(Walk("extract")[k], Proper("unordered")[k], Proper("sorted")[k])
           N == {k \in Nat : Good(k)}
<1>1. 0 \in N
  BY NoneProperAtZero DEF Maps
<1>2. ASSUME NEW m \in N, m + 1 \in 1..Depth
      PROVE  m + 1 \in N
  <2>1. m \in Nat /\ Good(m)
    <3> HIDE DEF Good
    <3> QED BY <1>2
  <2>2. m + 1 \in 1..Depth /\ (m + 1) - 1 = m /\ m + 1 \in 0..Depth
    BY <1>2, <2>1
  <2>3. Maps(Walk("extract")[(m + 1) - 1], Proper("unordered")[(m + 1) - 1],
             Proper("sorted")[(m + 1) - 1])
    BY <2>1, <2>2
  <2>4. ASSUME NEW v \in Proper("unordered")[m + 1]
        PROVE  Walk("extract")[m + 1][v] \in Proper("sorted")[m + 1]
    <3>1. ExtractOver(v, Walk("extract")[(m + 1) - 1]) \in Proper("sorted")[m + 1]
      BY <2>2, <2>3, ExtractOfProper
    <3>2. v \in ValuesTo[m + 1]
      BY <2>2, ProperAreValues
    <3>3. Walk("extract")[m + 1][v] = WalkOver("extract", v, Walk("extract")[(m + 1) - 1])
      BY <2>2, <3>2, WalkByLevel
    <3> QED BY <3>1, <3>3 DEF WalkOver
  <2>5. m + 1 \in Nat /\ Good(m + 1)
    BY <2>1, <2>4 DEF Maps
  <2> HIDE DEF Good
  <2> QED BY <2>5
<1>3. N \in SUBSET Nat
  OBVIOUS
<1>4. \A m \in 0..Depth : m \in N
  <2> HIDE DEF N
  <2> QED BY <1>1, <1>2, <1>3, DepthNat, BoundedInduction
<1> QED BY <1>4

Fixes(f, X) == \A x \in X : f[x] = x

(* Applying f changes nothing where f changes no item.                     *)
LEMMA EachFixed ==
    ASSUME NEW X, NEW f, Fixes(f, X), NEW vs \in Seq(X)
    PROVE  Each(f, vs) = vs
<1>1. Maps(f, X, X)
  BY DEF Fixes, Maps
<1>2. /\ Each(f, vs) \in Seq(X) /\ Len(Each(f, vs)) = Len(vs)
      /\ \A i \in 1..Len(vs) : vs[i] \in X /\ Each(f, vs)[i] = f[vs[i]]
  BY <1>1, EachOf
<1>3. \A i \in 1..Len(vs) : Each(f, vs)[i] = vs[i]
  BY <1>2 DEF Fixes
<1> QED BY <1>2, <1>3

(* Applying f changes nothing where f changes no value.                    *)
LEMMA EachEntryFixed ==
    ASSUME NEW X, NEW f, Fixes(f, X), NEW es \in Seq(Strings \X X)
    PROVE  EachEntry(f, es) = es
<1> DEFINE fs == EachEntry(f, es)
<1>1. Maps(f, X, X)
  BY DEF Fixes, Maps
<1>2. fs \in Seq(Strings \X X) /\ Entrywise(f, X, es, fs)
  BY <1>1, EachEntryOf
<1> HIDE DEF fs
<1>3. Len(fs) = Len(es) /\ \A i \in 1..Len(es) : fs[i] = es[i]
  BY <1>2 DEF Entrywise, Fixes
<1>4. fs = es
  BY <1>2, <1>3
<1> QED BY <1>4 DEF fs

(* Writing as text changes no entries.                                     *)
LEMMA MarshalledFixed ==
    ASSUME Invalid = {}, NEW X, NEW f, Fixes(f, X), NEW es \in Seq(Strings \X X)
    PROVE  Marshalled(f, es) = es
<1>1. Marshalled(f, es) = EachEntry(f, es)
  BY DEF Marshalled, EachEntry, Replaced
<1> QED BY <1>1, EachEntryFixed

(* A step of a walk leaves a sorted value if the walk does inside.         *)
LEMMA SortedIsFixed ==
    ASSUME Invalid = {}, NEW what \in Reshaping, NEW n \in 1..Depth, NEW f,
           Fixes(f, Proper("sorted")[n - 1]), NEW v \in Proper("sorted")[n]
    PROVE  WalkOver(what, v, f) = v
<1> DEFINE Q == Proper("sorted")[n - 1]
           w == WalkOver(what, v, f)
<1>0. Fixes(f, Q)
  OBVIOUS
<1>1. \/ v \in [kind : {"scalar"}, of : Scalars, data : Strings \cup Numbers \cup {0, 1}]
      \/ v \in [kind : {"struct"}, fields : Seq(Q)]
      \/ v \in MapsOver("sorted", Q)
      \/ /\ v \in [kind : {"slice"}, isnil : BOOLEAN, items : Seq(Q)]
         /\ v.isnil => v.items = <<>>
  BY ProperShape
<1> HIDE DEF Q
<1>2. CASE v \in [kind : {"scalar"}, of : Scalars, data : Strings \cup Numbers \cup {0, 1}]
  <2>1. v.kind = "scalar" /\ v = [kind |-> "scalar", of |-> v.of, data |-> v.data]
    BY <1>2
  <2>2. w = v \/ w = ScalarValue(v.of, Replaced(v.data))
    BY <2>1 DEF WalkOver, ExtractOver, MarshalOver, BuildOver, Reshaping
  <2>3. ScalarValue(v.of, Replaced(v.data)) = v
    BY <2>1 DEF ScalarValue, Replaced
  <2> QED BY <2>2, <2>3
<1>3. CASE v \in [kind : {"struct"}, fields : Seq(Q)]
  <2>1. v.kind = "struct" /\ v.fields \in Seq(Q)
        /\ v = [kind |-> "struct", fields |-> v.fields]
    BY <1>3
  <2>2. w = StructValue(Each(f, v.fields))
    BY <2>1 DEF WalkOver, ExtractOver, MarshalOver, BuildOver, Reshaping
  <2>3. Each(f, v.fields) = v.fields
    BY <1>0, <2>1, EachFixed
  <2> HIDE DEF w
  <2>4. w = v
    BY <2>1, <2>2, <2>3 DEF StructValue
  <2> QED BY <2>4 DEF w
<1>4. CASE v \in MapsOver("sorted", Q)
  <2> DEFINE es == v.entries
  <2>1. /\ v.kind = "map" /\ v.isnil \in BOOLEAN /\ es \in Seq(Strings \X Q)
        /\ v = [kind |-> "map", isnil |-> v.isnil, entries |-> v.entries]
        /\ Ascending(es) /\ KeysApart(es)
        /\ (v.isnil => es = <<>>)
    BY <1>4 DEF MapsOver
  <2>2. Sorted(es) = es
    BY <2>1, AscendingIsSorted
  <2>3. EachEntry(f, es) = es /\ Marshalled(f, es) = es
    BY <1>0, <2>1, EachEntryFixed, MarshalledFixed
  <2>4. Assigned(es) = es
    BY <2>1, AssignedEntries
  <2>5. CASE what = "extract"
    <3>1. w = ExtractMap(v, f)
      BY <2>1, <2>5 DEF WalkOver, ExtractOver
    <3> HIDE DEF w
    <3>2. CASE v.isnil
      <4>1. w = MapValue(TRUE, <<>>)
        BY <3>1, <3>2 DEF ExtractMap, NilMap
      <4>2. w = MapValue(v.isnil, v.entries)
        BY <2>1, <3>2, <4>1
      <4> QED BY <2>1, <4>2 DEF MapValue, w
    <3>3. CASE ~v.isnil
      <4>1. w = MapValue(FALSE, es)
        BY <2>2, <2>3, <3>1, <3>3 DEF ExtractMap
      <4>2. w = MapValue(v.isnil, v.entries)
        BY <2>1, <3>3, <4>1
      <4> QED BY <2>1, <4>2 DEF MapValue, w
    <3> QED BY <2>1, <3>2, <3>3
  <2>6. CASE what = "marshal"
    <3>1. w = MapValue(v.isnil, Marshalled(f, es))
      BY <2>1, <2>6 DEF WalkOver, MarshalOver, Marshalled
    <3> HIDE DEF w
    <3> QED BY <2>1, <2>3, <3>1 DEF MapValue, w
  <2>7. CASE what = "build"
    <3>1. w = MapValue(v.isnil, Assigned(EachEntry(f, Sorted(es))))
      BY <2>1, <2>7 DEF WalkOver, BuildOver
    <3> HIDE DEF w
    <3> QED BY <2>1, <2>2, <2>3, <2>4, <3>1 DEF MapValue, w
  <2> QED BY <2>5, <2>6, <2>7 DEF Reshaping
<1>5. CASE /\ v \in [kind : {"slice"}, isnil : BOOLEAN, items : Seq(Q)]
           /\ v.isnil => v.items = <<>>
  <2>1. v.kind = "slice" /\ v.items \in Seq(Q)
        /\ v = [kind |-> "slice", isnil |-> v.isnil, items |-> v.items]
    BY <1>5
  <2>2. w = SliceValue(v.isnil, Each(f, v.items))
    BY <2>1 DEF WalkOver, ExtractOver, MarshalOver, BuildOver, Reshaping
  <2>3. Each(f, v.items) = v.items
    BY <1>0, <2>1, EachFixed
  <2> HIDE DEF w
  <2>4. w = v
    BY <2>1, <2>2, <2>3 DEF SliceValue
  <2> QED BY <2>4 DEF w
<1> QED BY <1>1, <1>2, <1>3, <1>4, <1>5

(* Extracting, writing as text and building leave a sorted value.          *)
LEMMA SortedStays ==
    ASSUME Invalid = {}, NEW what \in Reshaping, NEW n \in 0..Depth
    PROVE  Fixes(Walk(what)[n], Proper("sorted")[n])
<1> DEFINE Good(k) == Fixes(Walk(what)[k], Proper("sorted")[k])
           N == {k \in Nat : Good(k)}
<1>1. 0 \in N
  BY NoneProperAtZero DEF Fixes
<1>2. ASSUME NEW m \in N, m + 1 \in 1..Depth
      PROVE  m + 1 \in N
  <2>1. m \in Nat /\ Good(m)
    <3> HIDE DEF Good
    <3> QED BY <1>2
  <2>2. m + 1 \in 1..Depth /\ (m + 1) - 1 = m /\ m + 1 \in 0..Depth
    BY <1>2, <2>1
  <2>3. Fixes(Walk(what)[(m + 1) - 1], Proper("sorted")[(m + 1) - 1])
    BY <2>1, <2>2
  <2>4. ASSUME NEW v \in Proper("sorted")[m + 1]
        PROVE  Walk(what)[m + 1][v] = v
    <3>1. WalkOver(what, v, Walk(what)[(m + 1) - 1]) = v
      BY <2>2, <2>3, SortedIsFixed
    <3>2. v \in ValuesTo[m + 1]
      BY <2>2, ProperAreValues
    <3> QED BY <2>2, <3>1, <3>2, WalkByLevel
  <2>5. m + 1 \in Nat /\ Good(m + 1)
    BY <2>1, <2>4 DEF Fixes
  <2> HIDE DEF Good
  <2> QED BY <2>5
<1>3. N \in SUBSET Nat
  OBVIOUS
<1>4. \A m \in 0..Depth : m \in N
  <2> HIDE DEF N
  <2> QED BY <1>1, <1>2, <1>3, DepthNat, BoundedInduction
<1> QED BY <1>4
---------------------------------------------------------------------------
(* Two values are the same exactly if the same is captured of them.        *)

(* Ascending entries are as many as their set has members.                 *)
LEMMA AscendingSize ==
    ASSUME NEW Y, NEW es \in Seq(Strings \X Y), Ascending(es)
    PROVE  IsFiniteSet(ToSet(es)) /\ Cardinality(ToSet(es)) = Len(es)
<1> DEFINE k == Len(es)
           f == [j \in 1..k |-> es[j]]
           T == ToSet(es)
<1>1. \A j \in 1..k : es[j][1] \in Nat
  BY KeysAreNumbers
<1>2. \A x : x \in T <=> \E j \in 1..k : x = es[j]
  BY MembersOf
<1>3. k \in Nat
  OBVIOUS
<1>4. \A i, j \in 1..k : f[i] = f[j] => i = j
  BY <1>1 DEF Ascending
<1> HIDE DEF T, k
<1>5. f \in [1..k -> T]
  BY <1>2
<1>6. \A x \in T : \E j \in 1..k : f[j] = x
  BY <1>2
<1>7. f \in Bijection(1..k, T)
  <2> HIDE DEF f
  <2> QED BY <1>4, <1>5, <1>6 DEF Bijection, Injection, IsInjective, Surjection
<1>8. ExistsBijection(1..k, T)
  <2> HIDE DEF f
  <2> QED BY <1>7 DEF ExistsBijection
<1>9. IsFiniteSet(T) /\ Cardinality(T) = k
  BY <1>3, <1>8, FS_CountingElements, FS_Bijection, FS_Interval
<1> QED BY <1>9 DEF T, k

(* The pairs of R have the same f. *)
Tells(f, R, X) == \A a, b \in X : <<a, b>> \in R <=> f[a] = f[b]

AllSame(vs, ws, R) ==
    Len(vs) = Len(ws) /\ \A i \in 1..Len(vs) : <<vs[i], ws[i]>> \in R

(* Sequences are the same if f of them is equal.                           *)
LEMMA SameEach ==
    ASSUME NEW X, NEW Y, NEW f, Maps(f, X, Y), NEW R, Tells(f, R, X),
           NEW vs \in Seq(X), NEW ws \in Seq(X)
    PROVE  AllSame(vs, ws, R) <=> Each(f, vs) = Each(f, ws)
<1> DEFINE fv == Each(f, vs)
           fw == Each(f, ws)
<1>1. /\ fv \in Seq(Y) /\ Len(fv) = Len(vs)
      /\ \A i \in 1..Len(vs) : vs[i] \in X /\ fv[i] = f[vs[i]]
  BY EachOf
<1>2. /\ fw \in Seq(Y) /\ Len(fw) = Len(ws)
      /\ \A i \in 1..Len(ws) : ws[i] \in X /\ fw[i] = f[ws[i]]
  BY EachOf
<1> HIDE DEF fv, fw
<1>3. ASSUME AllSame(vs, ws, R)
      PROVE  fv = fw
  <2>1. Len(fv) = Len(fw) /\ \A i \in 1..Len(fv) : fv[i] = fw[i]
    BY ZenonT(30), <1>1, <1>2, <1>3 DEF AllSame, Tells
  <2> QED BY <1>1, <1>2, <2>1
<1>4. ASSUME fv = fw
      PROVE  AllSame(vs, ws, R)
  BY <1>1, <1>2, <1>4 DEF AllSame, Tells
<1> QED BY <1>3, <1>4 DEF fv, fw

SameEntries(es, ds, R) ==
    /\ Len(es) = Len(ds)
    /\ \A e \in ToSet(es) : \E d \in ToSet(ds) : e[1] = d[1] /\ <<e[2], d[2]>> \in R

(* Entries are the same if f of them, sorted, is equal.                    *)
LEMMA SameSorted ==
    ASSUME NEW X, NEW Y, NEW f, Maps(f, X, Y), NEW R, Tells(f, R, X),
           NEW es \in Seq(Strings \X X), KeysApart(es),
           NEW ds \in Seq(Strings \X X), KeysApart(ds)
    PROVE  SameEntries(es, ds, R) <=> Sorted(EachEntry(f, es)) = Sorted(EachEntry(f, ds))
<1> DEFINE fe == EachEntry(f, es)
           fd == EachEntry(f, ds)
<1>1. fe \in Seq(Strings \X Y) /\ Entrywise(f, X, es, fe) /\ KeysApart(fe)
  BY EachEntryOf, ApartEntries
<1>2. fd \in Seq(Strings \X Y) /\ Entrywise(f, X, ds, fd) /\ KeysApart(fd)
  BY EachEntryOf, ApartEntries
<1> HIDE DEF fe, fd
<1>3. /\ Sorted(fe) \in Seq(Strings \X Y) /\ Len(Sorted(fe)) = Len(fe)
      /\ ToSet(Sorted(fe)) = ToSet(fe) /\ Ascending(Sorted(fe))
  BY <1>1, SortedPlaces, SortedSet, SortedAscends
<1>4. /\ Sorted(fd) \in Seq(Strings \X Y) /\ Len(Sorted(fd)) = Len(fd)
      /\ ToSet(Sorted(fd)) = ToSet(fd) /\ Ascending(Sorted(fd))
  BY <1>2, SortedPlaces, SortedSet, SortedAscends
<1>5. Len(fe) = Len(es) /\ Len(fd) = Len(ds)
  BY <1>1, <1>2 DEF Entrywise
<1>6. \A e : e \in ToSet(es) <=> \E i \in 1..Len(es) : e = es[i]
  BY MembersOf
<1>7. \A e : e \in ToSet(ds) <=> \E i \in 1..Len(ds) : e = ds[i]
  BY MembersOf
<1>8. \A e : e \in ToSet(fe) <=> \E i \in 1..Len(es) : e = fe[i]
  BY <1>1, <1>5, MembersOf
<1>9. \A e : e \in ToSet(fd) <=> \E i \in 1..Len(ds) : e = fd[i]
  BY <1>2, <1>5, MembersOf
<1>10. \A i \in 1..Len(es) : /\ es[i][2] \in X /\ fe[i] = <<es[i][1], f[es[i][2]]>>
  BY <1>1 DEF Entrywise
<1>11. \A i \in 1..Len(ds) : /\ ds[i][2] \in X /\ fd[i] = <<ds[i][1], f[ds[i][2]]>>
  BY <1>2 DEF Entrywise
<1>12. ASSUME SameEntries(es, ds, R)
       PROVE  Sorted(fe) = Sorted(fd)
  <2>1. ToSet(fe) \subseteq ToSet(fd)
    <3> SUFFICES ASSUME NEW i \in 1..Len(es)
                 PROVE  fe[i] \in ToSet(fd)
      BY <1>8
    <3>1. es[i] \in ToSet(es)
      BY <1>6
    <3>2. PICK d \in ToSet(ds) : es[i][1] = d[1] /\ <<es[i][2], d[2]>> \in R
      BY <1>12, <3>1 DEF SameEntries
    <3>3. PICK k \in 1..Len(ds) : d = ds[k]
      BY <1>7
    <3>4. f[es[i][2]] = f[ds[k][2]]
      BY <1>10, <1>11, <3>2, <3>3 DEF Tells
    <3>5. fe[i] = fd[k]
      BY <1>10, <1>11, <3>2, <3>3, <3>4
    <3> QED BY <1>9, <3>5
  <2>2. /\ IsFiniteSet(ToSet(fe)) /\ Cardinality(ToSet(fe)) = Len(fe)
        /\ IsFiniteSet(ToSet(fd)) /\ Cardinality(ToSet(fd)) = Len(fd)
    <3>1. IsFiniteSet(ToSet(Sorted(fe))) /\ Cardinality(ToSet(Sorted(fe))) = Len(Sorted(fe))
      BY <1>3, AscendingSize
    <3>2. IsFiniteSet(ToSet(Sorted(fd))) /\ Cardinality(ToSet(Sorted(fd))) = Len(Sorted(fd))
      BY <1>4, AscendingSize
    <3> QED BY <1>3, <1>4, <3>1, <3>2
  <2>3. ToSet(fe) = ToSet(fd)
    <3>1. Len(fe) = Len(fd)
      BY <1>5, <1>12 DEF SameEntries
    <3> QED BY <2>1, <2>2, <3>1, FS_Subset
  <2> QED BY <1>3, <1>4, <2>3, AscendingUnique
<1>13. ASSUME Sorted(fe) = Sorted(fd)
       PROVE  SameEntries(es, ds, R)
  <2>1. Len(es) = Len(ds) /\ ToSet(fe) = ToSet(fd)
    BY <1>3, <1>4, <1>5, <1>13
  <2>2. ASSUME NEW e \in ToSet(es)
        PROVE  \E d \in ToSet(ds) : e[1] = d[1] /\ <<e[2], d[2]>> \in R
    <3>1. PICK i \in 1..Len(es) : e = es[i]
      BY <1>6
    <3>2. fe[i] \in ToSet(fd)
      BY <1>8, <2>1
    <3>3. PICK k \in 1..Len(ds) : fe[i] = fd[k]
      BY <1>9, <3>2
    <3>4. es[i][1] = ds[k][1] /\ f[es[i][2]] = f[ds[k][2]]
      BY <1>10, <1>11, <3>3
    <3>5. <<es[i][2], ds[k][2]>> \in R
      BY <1>10, <1>11, <3>4 DEF Tells
    <3>6. ds[k] \in ToSet(ds)
      BY <1>7
    <3> QED BY <3>1, <3>4, <3>5, <3>6
  <2> QED BY <2>1, <2>2 DEF SameEntries
<1> QED BY <1>12, <1>13 DEF fe, fd

(* The parts of a proper value, by its kind. *)
LEMMA ProperParts ==
    ASSUME NEW how, NEW n \in 1..Depth, NEW v \in Proper(how)[n]
    PROVE  /\ v.kind \in {"scalar", "struct", "map", "slice"}
           /\ v.kind = "scalar" => v = [kind |-> "scalar", of |-> v.of, data |-> v.data]
           /\ v.kind = "struct" => v.fields \in Seq(Proper(how)[n - 1])
           /\ v.kind = "map" => /\ v.entries \in Seq(Strings \X Proper(how)[n - 1])
                                /\ KeysApart(v.entries)
                                /\ v.isnil \in BOOLEAN /\ (v.isnil => v.entries = <<>>)
           /\ v.kind = "slice" => /\ v.items \in Seq(Proper(how)[n - 1])
                                  /\ v.isnil \in BOOLEAN
<1> DEFINE P == Proper(how)[n - 1]
           A == v \in [kind : {"scalar"}, of : Scalars, data : Strings \cup Numbers \cup {0, 1}]
           B == v \in [kind : {"struct"}, fields : Seq(P)]
           C == v \in MapsOver(how, P)
           D == v \in [kind : {"slice"}, isnil : BOOLEAN, items : Seq(P)]
<1>1. A \/ B \/ C \/ D
  BY ProperShape
<1>2. A => v.kind = "scalar" /\ v = [kind |-> "scalar", of |-> v.of, data |-> v.data]
  OBVIOUS
<1> HIDE DEF P
<1>3. B => v.kind = "struct" /\ v.fields \in Seq(P)
  OBVIOUS
<1>4. C => /\ v.kind = "map" /\ v.entries \in Seq(Strings \X P)
           /\ KeysApart(v.entries)
           /\ v.isnil \in BOOLEAN /\ (v.isnil => v.entries = <<>>)
  BY DEF MapsOver
<1>5. D => v.kind = "slice" /\ v.items \in Seq(P) /\ v.isnil \in BOOLEAN
  OBVIOUS
<1> HIDE DEF A, B, C, D
<1> QED BY <1>1, <1>2, <1>3, <1>4, <1>5 DEF P

(* Values are the same if what is extracted is equal, given so inside.     *)
LEMMA SameIsExtract ==
    ASSUME NEW n \in 1..Depth, NEW f, NEW R, NEW Y,
           Maps(f, Proper("unordered")[n - 1], Y),
           Tells(f, R, Proper("unordered")[n - 1]),
           NEW a \in Proper("unordered")[n], NEW b \in Proper("unordered")[n]
    PROVE  SameOver(a, b, R) <=> ExtractOver(a, f) = ExtractOver(b, f)
<1> DEFINE P == Proper("unordered")[n - 1]
           Parts(v) ==
             /\ v.kind \in {"scalar", "struct", "map", "slice"}
             /\ v.kind = "scalar" => v = [kind |-> "scalar", of |-> v.of, data |-> v.data]
             /\ v.kind = "struct" => v.fields \in Seq(P)
             /\ v.kind = "map" => /\ v.entries \in Seq(Strings \X P)
                                  /\ KeysApart(v.entries)
                                  /\ v.isnil \in BOOLEAN /\ (v.isnil => v.entries = <<>>)
             /\ v.kind = "slice" => v.items \in Seq(P) /\ v.isnil \in BOOLEAN
           x == ExtractOver(a, f)
           y == ExtractOver(b, f)
<1>0. Maps(f, P, Y) /\ Tells(f, R, P)
  OBVIOUS
<1>1. Parts(a) /\ Parts(b)
  BY ProperParts
<1> HIDE DEF P
<1>2. \A v : Parts(v) => ExtractOver(v, f).kind = v.kind
  BY DEF ExtractOver, ExtractMap, NilMap, MapValue, SliceValue, StructValue
<1>3. CASE a.kind # b.kind
  <2>1. x # y
    BY <1>1, <1>2, <1>3
  <2> QED BY <1>3, <2>1 DEF SameOver
<1>4. CASE a.kind = "scalar" /\ b.kind = "scalar"
  BY <1>4 DEF SameOver, ExtractOver
<1>5. CASE a.kind = "struct" /\ b.kind = "struct"
  <2>1. x = StructValue(Each(f, a.fields)) /\ y = StructValue(Each(f, b.fields))
    BY <1>5 DEF ExtractOver
  <2>2. AllSame(a.fields, b.fields, R) <=> Each(f, a.fields) = Each(f, b.fields)
    BY <1>0, <1>1, <1>5, SameEach
  <2>3. SameOver(a, b, R) <=> AllSame(a.fields, b.fields, R)
    BY <1>5 DEF SameOver, AllSame
  <2> HIDE DEF x, y
  <2>4. x = y <=> Each(f, a.fields) = Each(f, b.fields)
    BY <2>1 DEF StructValue
  <2> QED BY <2>2, <2>3, <2>4 DEF x, y
<1>6. CASE a.kind = "map" /\ b.kind = "map"
  <2>1. x = ExtractMap(a, f) /\ y = ExtractMap(b, f)
    BY <1>6 DEF ExtractOver
  <2>2. SameEntries(a.entries, b.entries, R)
          <=> Sorted(EachEntry(f, a.entries)) = Sorted(EachEntry(f, b.entries))
    BY <1>0, <1>1, <1>6, SameSorted
  <2>3. SameOver(a, b, R) <=> a.isnil = b.isnil /\ SameEntries(a.entries, b.entries, R)
    BY <1>6 DEF SameOver, SameEntries
  <2>4. a.isnil \in BOOLEAN /\ b.isnil \in BOOLEAN
        /\ (a.isnil => a.entries = <<>>) /\ (b.isnil => b.entries = <<>>)
    BY <1>1, <1>6
  <2> HIDE DEF x, y
  <2>5. CASE a.isnil /\ b.isnil
    <3>1. x = y
      BY <2>1, <2>5 DEF ExtractMap
    <3>2. SameEntries(a.entries, b.entries, R)
      BY <2>2, <2>4, <2>5
    <3> QED BY <2>3, <2>5, <3>1, <3>2 DEF x, y
  <2>6. CASE a.isnil /\ ~b.isnil
    <3>1. x.isnil = TRUE /\ y.isnil = FALSE
      BY <2>1, <2>6 DEF ExtractMap, NilMap, MapValue
    <3>2. x # y
      BY <3>1
    <3> QED BY <2>3, <2>6, <3>2 DEF x, y
  <2>7. CASE ~a.isnil /\ b.isnil
    <3>1. x.isnil = FALSE /\ y.isnil = TRUE
      BY <2>1, <2>7 DEF ExtractMap, NilMap, MapValue
    <3>2. x # y
      BY <3>1
    <3> QED BY <2>3, <2>7, <3>2 DEF x, y
  <2>8. CASE ~a.isnil /\ ~b.isnil
    <3>1. x = MapValue(FALSE, Sorted(EachEntry(f, a.entries)))
          /\ y = MapValue(FALSE, Sorted(EachEntry(f, b.entries)))
      BY <2>1, <2>8 DEF ExtractMap
    <3>2. x = y <=> Sorted(EachEntry(f, a.entries)) = Sorted(EachEntry(f, b.entries))
      BY <3>1 DEF MapValue
    <3>3. a.isnil = b.isnil
      BY <2>4, <2>8
    <3> QED BY <2>2, <2>3, <3>2, <3>3 DEF x, y
  <2> QED BY <2>4, <2>5, <2>6, <2>7, <2>8
<1>7. CASE a.kind = "slice" /\ b.kind = "slice"
  <2>1. x = SliceValue(a.isnil, Each(f, a.items)) /\ y = SliceValue(b.isnil, Each(f, b.items))
    BY <1>7 DEF ExtractOver
  <2>2. AllSame(a.items, b.items, R) <=> Each(f, a.items) = Each(f, b.items)
    BY <1>0, <1>1, <1>7, SameEach
  <2>3. SameOver(a, b, R) <=> a.isnil = b.isnil /\ AllSame(a.items, b.items, R)
    BY <1>7 DEF SameOver, AllSame
  <2> HIDE DEF x, y
  <2>4. x = y <=> a.isnil = b.isnil /\ Each(f, a.items) = Each(f, b.items)
    BY <2>1 DEF SliceValue
  <2> QED BY <2>2, <2>3, <2>4 DEF x, y
<1> QED BY <1>1, <1>3, <1>4, <1>5, <1>6, <1>7

TellsOver(f, R, X) ==
    \A a, b \in X : SameOver(a, b, R) <=> ExtractOver(a, f) = ExtractOver(b, f)

(* The same for all values of a level.                                     *)
LEMMA ExtractTellsOver ==
    ASSUME NEW n \in 1..Depth, NEW f, NEW R,
           Maps(f, Proper("unordered")[n - 1], Proper("sorted")[n - 1]),
           Tells(f, R, Proper("unordered")[n - 1])
    PROVE  TellsOver(f, R, Proper("unordered")[n])
<1> DEFINE Y == Proper("sorted")[n - 1]
           X == Proper("unordered")[n - 1]
           Z == Proper("unordered")[n]
<1>1. Maps(f, X, Y) /\ Tells(f, R, X)
  OBVIOUS
<1> SUFFICES ASSUME NEW a \in Z, NEW b \in Z
             PROVE  SameOver(a, b, R) <=> ExtractOver(a, f) = ExtractOver(b, f)
  BY DEF TellsOver
<1> HIDE DEF Y
<1> QED BY <1>1, SameIsExtract

(* Values are the same exactly if what is extracted is equal.              *)
LEMMA ExtractTells ==
    ASSUME NEW n \in 0..Depth
    PROVE  Tells(Walk("extract")[n], Sames[n], Proper("unordered")[n])
<1> DEFINE Good(k) == Tells(Walk("extract")[k], Sames[k], Proper("unordered")[k])
           N == {k \in Nat : Good(k)}
<1>1. 0 \in N
  BY NoneProperAtZero DEF Tells
<1>2. ASSUME NEW m \in N, m + 1 \in 1..Depth
      PROVE  m + 1 \in N
  <2>1. m \in Nat /\ Good(m)
    <3> HIDE DEF Good
    <3> QED BY <1>2
  <2>2. m + 1 \in 1..Depth /\ (m + 1) - 1 = m /\ m + 1 \in 0..Depth /\ m \in 0..Depth
    BY <1>2, <2>1, DepthNat
  <2> DEFINE f == Walk("extract")[(m + 1) - 1]
             R == Sames[(m + 1) - 1]
             P == Proper("unordered")[m + 1]
  <2>3. /\ Tells(f, R, Proper("unordered")[(m + 1) - 1])
        /\ Maps(f, Proper("unordered")[(m + 1) - 1], Proper("sorted")[(m + 1) - 1])
    BY <2>1, <2>2, ExtractIsSorted
  <2>4. ASSUME NEW a \in P, NEW b \in P
        PROVE  <<a, b>> \in Sames[m + 1]
                 <=> Walk("extract")[m + 1][a] = Walk("extract")[m + 1][b]
    <3>1. SameOver(a, b, R) <=> ExtractOver(a, f) = ExtractOver(b, f)
      <4>1. m + 1 \in 1..Depth
        BY <2>2
      <4> HIDE DEF f, R
      <4>2. TellsOver(f, R, P)
        BY <2>2, <2>3, <4>1, ExtractTellsOver
      <4> QED BY <4>2 DEF TellsOver
    <3>2. a \in ValuesTo[m + 1] /\ b \in ValuesTo[m + 1]
      BY <2>2, ProperAreValues
    <3>3. /\ Walk("extract")[m + 1][a] = WalkOver("extract", a, f)
          /\ Walk("extract")[m + 1][b] = WalkOver("extract", b, f)
      BY <2>2, <3>2, WalkByLevel
    <3>4. <<a, b>> \in Sames[m + 1] <=> SameOver(a, b, R)
      BY <2>2, <3>2, SameByLevel
    <3> QED BY <3>1, <3>3, <3>4 DEF WalkOver
  <2>5. m + 1 \in Nat /\ Good(m + 1)
    BY <2>1, <2>4 DEF Tells
  <2> HIDE DEF Good
  <2> QED BY <2>5
<1>3. N \in SUBSET Nat
  OBVIOUS
<1>4. \A m \in 0..Depth : m \in N
  <2> HIDE DEF N
  <2> QED BY <1>1, <1>2, <1>3, DepthNat, BoundedInduction
<1> QED BY <1>4
---------------------------------------------------------------------------
(* A query answers the same with a value and with what is captured of it.  *)

(* An entry is found by its key.                                           *)
LEMMA EntryOfKey ==
    ASSUME NEW X, NEW es \in Seq(Strings \X X), KeysApart(es), NEW i \in 1..Len(es)
    PROVE  (CHOOSE e \in ToSet(es) : e[1] = es[i][1]) = es[i]
<1> DEFINE c == CHOOSE e \in ToSet(es) : e[1] = es[i][1]
<1>1. \A e : e \in ToSet(es) <=> \E j \in 1..Len(es) : e = es[j]
  BY MembersOf
<1>2. \E e \in ToSet(es) : e[1] = es[i][1]
  BY <1>1
<1>3. c \in ToSet(es) /\ c[1] = es[i][1]
  BY <1>2
<1> HIDE DEF c
<1>4. PICK j \in 1..Len(es) : c = es[j]
  BY <1>1, <1>3
<1>5. c = es[i]
  BY <1>3, <1>4 DEF KeysApart
<1> QED BY <1>5 DEF c

Agrees(g, f, X) == \A x \in X : g[f[x]] = g[x]

Keys(es) == {e[1] : e \in ToSet(es)}

JSONEntries(g, es) ==
    [k \in Keys(es) |-> g[(CHOOSE e \in ToSet(es) : e[1] = k)[2]]]

(* The keys of a map.                                                      *)
LEMMA KeysOf ==
    ASSUME NEW X, NEW es \in Seq(Strings \X X), NEW k
    PROVE  k \in Keys(es) <=> \E i \in 1..Len(es) : k = es[i][1]
<1>1. \A e : e \in ToSet(es) <=> \E j \in 1..Len(es) : e = es[j]
  BY MembersOf
<1> QED BY <1>1 DEF Keys

(* The answer does not tell the order of a map.                            *)
LEMMA JSONOfSorted ==
    ASSUME NEW X, NEW Y, NEW f, Maps(f, X, Y), NEW g, Agrees(g, f, X),
           NEW es \in Seq(Strings \X X), KeysApart(es)
    PROVE  JSONEntries(g, Sorted(EachEntry(f, es))) = JSONEntries(g, es)
<1> DEFINE fe == EachEntry(f, es)
           c(k) == (CHOOSE e \in ToSet(es) : e[1] = k)[2]
           d(k) == (CHOOSE e \in ToSet(fe) : e[1] = k)[2]
<1>1. fe \in Seq(Strings \X Y) /\ Entrywise(f, X, es, fe) /\ KeysApart(fe)
  BY EachEntryOf, ApartEntries
<1> HIDE DEF fe
<1>2. ToSet(Sorted(fe)) = ToSet(fe)
  BY <1>1, SortedSet
<1>3. Len(fe) = Len(es) /\ \A i \in 1..Len(es) :
         es[i][2] \in X /\ fe[i] = <<es[i][1], f[es[i][2]]>>
  BY <1>1 DEF Entrywise
<1>4. Keys(fe) = Keys(es)
  <2>1. \A k : k \in Keys(fe) <=> \E i \in 1..Len(fe) : k = fe[i][1]
    BY <1>1, KeysOf
  <2>2. \A k : k \in Keys(es) <=> \E i \in 1..Len(es) : k = es[i][1]
    BY KeysOf
  <2>3. Len(fe) = Len(es) /\ \A i \in 1..Len(es) : fe[i][1] = es[i][1]
    BY <1>3
  <2>4. \A k : k \in Keys(fe) <=> k \in Keys(es)
    BY <2>1, <2>2, <2>3
  <2> QED BY <2>4
<1>5. ASSUME NEW k \in Keys(es)
      PROVE  g[d(k)] = g[c(k)]
  <2>1. PICK i \in 1..Len(es) : k = es[i][1]
    BY ZenonT(30), KeysOf
  <2>2. c(k) = es[i][2]
    <3>1. (CHOOSE e \in ToSet(es) : e[1] = es[i][1]) = es[i]
      BY EntryOfKey
    <3> QED BY <2>1, <3>1
  <2>3. d(k) = f[es[i][2]]
    <3>1. (CHOOSE e \in ToSet(fe) : e[1] = fe[i][1]) = fe[i]
      BY <1>1, <1>3, EntryOfKey
    <3>2. k = fe[i][1] /\ fe[i][2] = f[es[i][2]]
      BY <1>3, <2>1
    <3> QED BY <3>1, <3>2
  <2> HIDE DEF c, d
  <2> QED BY <1>3, <2>2, <2>3 DEF Agrees
<1>6. JSONEntries(g, Sorted(fe)) = [k \in Keys(fe) |-> g[d(k)]]
  BY <1>2 DEF JSONEntries, Keys
<1>7. JSONEntries(g, es) = [k \in Keys(es) |-> g[c(k)]]
  BY DEF JSONEntries
<1> HIDE DEF c, d
<1>8. JSONEntries(g, Sorted(fe)) = JSONEntries(g, es)
  BY <1>4, <1>5, <1>6, <1>7
<1> QED BY <1>8 DEF fe

(* The answer of items is that of what is extracted of them.               *)
LEMMA JSONOfEach ==
    ASSUME NEW X, NEW Y, NEW f, Maps(f, X, Y), NEW g, Agrees(g, f, X), NEW vs \in Seq(X)
    PROVE  Each(g, Each(f, vs)) = Each(g, vs)
<1>1. /\ Each(f, vs) \in Seq(Y) /\ Len(Each(f, vs)) = Len(vs)
      /\ \A i \in 1..Len(vs) : vs[i] \in X /\ Each(f, vs)[i] = f[vs[i]]
  BY EachOf
<1> DEFINE fv == Each(f, vs)
<1> HIDE DEF fv
<1>2. Each(g, fv) = [i \in 1..Len(vs) |-> g[fv[i]]]
  BY <1>1 DEF Each, fv
<1>3. \A i \in 1..Len(vs) : g[fv[i]] = g[vs[i]]
  BY <1>1 DEF Agrees, fv
<1>4. Each(g, fv) = Each(g, vs)
  BY <1>2, <1>3 DEF Each
<1> QED BY <1>4 DEF fv

(* The answer of a value is that of what is extracted, given so inside.    *)
LEMMA JSONOfExtract ==
    ASSUME NEW n \in 1..Depth, NEW f, NEW g,
           Maps(f, Proper("unordered")[n - 1], Proper("sorted")[n - 1]),
           Agrees(g, f, Proper("unordered")[n - 1]),
           NEW v \in Proper("unordered")[n]
    PROVE  JSONOver(ExtractOver(v, f), g) = JSONOver(v, g)
<1> DEFINE P == Proper("unordered")[n - 1]
           Q == Proper("sorted")[n - 1]
           w == ExtractOver(v, f)
<1>0. Maps(f, P, Q) /\ Agrees(g, f, P)
  OBVIOUS
<1>1. /\ v.kind \in {"scalar", "struct", "map", "slice"}
      /\ v.kind = "struct" => v.fields \in Seq(P)
      /\ v.kind = "map" => /\ v.entries \in Seq(Strings \X P)
                           /\ KeysApart(v.entries) /\ v.isnil \in BOOLEAN
      /\ v.kind = "slice" => v.items \in Seq(P) /\ v.isnil \in BOOLEAN
  BY ProperParts
<1> HIDE DEF P, Q
<1>2. CASE v.kind = "scalar"
  BY <1>2 DEF ExtractOver
<1>3. CASE v.kind = "struct"
  <2>1. w = StructValue(Each(f, v.fields))
    BY <1>3 DEF ExtractOver
  <2> HIDE DEF w
  <2>2. w.kind = "struct" /\ w.fields = Each(f, v.fields)
    BY <2>1 DEF StructValue
  <2>3. JSONOver(w, g) = Each(g, Each(f, v.fields))
    BY <2>2 DEF JSONOver
  <2>4. JSONOver(v, g) = Each(g, v.fields)
    BY <1>3 DEF JSONOver
  <2>5. Each(g, Each(f, v.fields)) = Each(g, v.fields)
    BY <1>0, <1>1, <1>3, JSONOfEach
  <2> QED BY <2>3, <2>4, <2>5 DEF w
<1>4. CASE v.kind = "map"
  <2>1. w = ExtractMap(v, f)
    BY <1>4 DEF ExtractOver
  <2> HIDE DEF w
  <2>2. CASE v.isnil
    <3>1. w.kind = "map" /\ w.isnil = TRUE
      BY <2>1, <2>2 DEF ExtractMap, NilMap, MapValue
    <3>2. JSONOver(w, g) = Null /\ JSONOver(v, g) = Null
      BY <1>4, <2>2, <3>1 DEF JSONOver
    <3> QED BY <3>2 DEF w
  <2>3. CASE ~v.isnil
    <3>1. w.kind = "map" /\ w.isnil = FALSE /\ w.entries = Sorted(EachEntry(f, v.entries))
      BY <2>1, <2>3 DEF ExtractMap, MapValue
    <3>2. JSONOver(w, g) = JSONEntries(g, w.entries)
      BY <3>1 DEF JSONOver, JSONEntries, Keys
    <3>3. JSONOver(v, g) = JSONEntries(g, v.entries)
      BY <1>4, <2>3 DEF JSONOver, JSONEntries, Keys
    <3>4. JSONEntries(g, Sorted(EachEntry(f, v.entries))) = JSONEntries(g, v.entries)
      BY <1>0, <1>1, <1>4, JSONOfSorted
    <3> QED BY <3>1, <3>2, <3>3, <3>4 DEF w
  <2> QED BY <2>2, <2>3
<1>5. CASE v.kind = "slice"
  <2>1. w = SliceValue(v.isnil, Each(f, v.items))
    BY <1>5 DEF ExtractOver
  <2> HIDE DEF w
  <2>2. w.kind = "slice" /\ w.isnil = v.isnil /\ w.items = Each(f, v.items)
    BY <2>1 DEF SliceValue
  <2>3. JSONOver(w, g) = IF v.isnil THEN Null ELSE Each(g, Each(f, v.items))
    BY <2>2 DEF JSONOver
  <2>4. JSONOver(v, g) = IF v.isnil THEN Null ELSE Each(g, v.items)
    BY <1>5 DEF JSONOver
  <2>5. Each(g, Each(f, v.items)) = Each(g, v.items)
    BY <1>0, <1>1, <1>5, JSONOfEach
  <2> QED BY <2>3, <2>4, <2>5 DEF w
<1> QED BY <1>1, <1>2, <1>3, <1>4, <1>5

(* The answer of a value is that of what is extracted.                     *)
LEMMA ExtractTellsQueries ==
    ASSUME NEW n \in 0..Depth
    PROVE  Agrees(Walk("json")[n], Walk("extract")[n], Proper("unordered")[n])
<1> DEFINE Good(k) == Agrees(Walk("json")[k], Walk("extract")[k], Proper("unordered")[k])
           N == {k \in Nat : Good(k)}
<1>1. 0 \in N
  BY NoneProperAtZero DEF Agrees
<1>2. ASSUME NEW m \in N, m + 1 \in 1..Depth
      PROVE  m + 1 \in N
  <2>1. m \in Nat /\ Good(m)
    <3> HIDE DEF Good
    <3> QED BY <1>2
  <2>2. m + 1 \in 1..Depth /\ (m + 1) - 1 = m /\ m + 1 \in 0..Depth /\ m \in 0..Depth
    BY <1>2, <2>1, DepthNat
  <2> DEFINE f == Walk("extract")[(m + 1) - 1]
             g == Walk("json")[(m + 1) - 1]
             P == Proper("unordered")[m + 1]
  <2>3. /\ Agrees(g, f, Proper("unordered")[(m + 1) - 1])
        /\ Maps(f, Proper("unordered")[(m + 1) - 1], Proper("sorted")[(m + 1) - 1])
    BY <2>1, <2>2, ExtractIsSorted
  <2>4. ASSUME NEW v \in P
        PROVE  Walk("json")[m + 1][Walk("extract")[m + 1][v]] = Walk("json")[m + 1][v]
    <3> DEFINE w == Walk("extract")[m + 1][v]
    <3>1. v \in ValuesTo[m + 1]
      BY <2>2, ProperAreValues
    <3>2. w \in ValuesTo[m + 1]
      BY <2>2, <3>1, WalksKeepValues DEF Maps, Reshaping
    <3>3. Walk("json")[m + 1][v] = JSONOver(v, g)
      BY <2>2, <3>1, WalkByLevel DEF WalkOver
    <3>4. Walk("json")[m + 1][w] = JSONOver(w, g)
      BY <2>2, <3>2, WalkByLevel DEF WalkOver
    <3>5. w = ExtractOver(v, f)
      BY <2>2, <3>1, WalkByLevel DEF WalkOver
    <3> HIDE DEF w
    <3>6. JSONOver(ExtractOver(v, f), g) = JSONOver(v, g)
      <4>1. m + 1 \in 1..Depth
        BY <2>2
      <4> HIDE DEF f, g
      <4> QED BY <2>3, <4>1, JSONOfExtract
    <3> QED BY <3>3, <3>4, <3>5, <3>6 DEF w
  <2>5. m + 1 \in Nat /\ Good(m + 1)
    BY <2>1, <2>4 DEF Agrees
  <2> HIDE DEF Good
  <2> QED BY <2>5
<1>3. N \in SUBSET Nat
  OBVIOUS
<1>4. \A m \in 0..Depth : m \in N
  <2> HIDE DEF N
  <2> QED BY <1>1, <1>2, <1>3, DepthNat, BoundedInduction
<1> QED BY <1>4
---------------------------------------------------------------------------
(* From here on every string is UTF-8: writing a snapshot as text keeps it. *)

AllProper(vs) == \A i \in 1..Len(vs) : vs[i] \in Proper("unordered")[Depth]

AllSorted(vs) == \A i \in 1..Len(vs) : vs[i] \in Proper("sorted")[Depth]

(* ExtractIsSorted for the values of globals.                              *)
LEMMA ExtractSorts ==
    ASSUME NEW v \in Proper("unordered")[Depth]
    PROVE  Extract(v) \in Proper("sorted")[Depth]
<1>1. Maps(Walk("extract")[Depth], Proper("unordered")[Depth], Proper("sorted")[Depth])
  BY DepthNat, ExtractIsSorted
<1> QED BY <1>1, WalksOfValues DEF Maps

(* SortedStays for the values of globals.                                  *)
LEMMA SortedIsKept ==
    ASSUME Invalid = {}, NEW v \in Proper("sorted")[Depth]
    PROVE  Extract(v) = v /\ Marshal(v) = v /\ Build(v) = v
<1>1. ASSUME NEW what \in Reshaping
      PROVE  Walk(what)[Depth][v] = v
  <2>1. Fixes(Walk(what)[Depth], Proper("sorted")[Depth])
    BY DepthNat, SortedStays
  <2> QED BY <2>1 DEF Fixes
<1> QED BY <1>1, WalksOfValues DEF Reshaping

(* A sorted value is a proper one.                                         *)
LEMMA SortedIsProper ==
    ASSUME NEW v \in Proper("sorted")[Depth]
    PROVE  v \in Proper("unordered")[Depth]
BY DepthNat, ProperAreValues

(* ExtractTells for the values of globals.                                 *)
LEMMA SameOfExtract ==
    ASSUME NEW a \in Proper("unordered")[Depth], NEW b \in Proper("unordered")[Depth]
    PROVE  SameValue(a, b) <=> Extract(a) = Extract(b)
<1>1. Tells(Walk("extract")[Depth], Sames[Depth], Proper("unordered")[Depth])
  BY DepthNat, ExtractTells
<1>2. SameValue(a, b) <=> <<a, b>> \in Sames[Depth]
  BY SameValues
<1>3. Extract(a) = Walk("extract")[Depth][a] /\ Extract(b) = Walk("extract")[Depth][b]
  BY WalksOfValues
<1> QED BY <1>1, <1>2, <1>3 DEF Tells

(* ExtractTellsQueries for the values of globals.                          *)
LEMMA AnswerOfExtract ==
    ASSUME NEW v \in Proper("unordered")[Depth]
    PROVE  JSONCompatible(Extract(v)) = JSONCompatible(v)
<1>1. Agrees(Walk("json")[Depth], Walk("extract")[Depth], Proper("unordered")[Depth])
  BY DepthNat, ExtractTellsQueries
<1> QED BY <1>1, WalksOfValues DEF Agrees

(* A snapshot has what is extracted of each global, sorted.                *)
LEMMA CapturedEach ==
    ASSUME Invalid = {}, NEW s, NEW vs, OfContract(s, vs), AllProper(vs)
    PROVE  /\ Captured(vs) \in Seq(ValuesTo[Depth]) /\ Len(Captured(vs)) = Len(vs)
           /\ \A i \in 1..Len(vs) : Captured(vs)[i] = Extract(vs[i])
           /\ AllSorted(Captured(vs))
<1>1. Captured(vs) \in Seq(ValuesTo[Depth]) /\ Len(Captured(vs)) = Len(vs)
  BY WalkedOfContract DEF OfContract
<1>2. ASSUME NEW i \in 1..Len(vs)
      PROVE  Captured(vs)[i] = Extract(vs[i]) /\ Extract(vs[i]) \in Proper("sorted")[Depth]
  <2>1. Extract(vs[i]) \in Proper("sorted")[Depth]
    BY ExtractSorts DEF AllProper
  <2>2. Captured(vs)[i] = Marshal(Extract(vs[i]))
    BY DEF Captured
  <2> QED BY <2>1, <2>2, SortedIsKept
<1> QED BY <1>1, <1>2 DEF AllSorted

(* Restoring sorted globals gives them back.                               *)
LEMMA SortedKept ==
    ASSUME Invalid = {}, NEW s, NEW vs, OfContract(s, vs), AllSorted(vs)
    PROVE  Built(vs) = vs /\ AllProper(vs)
<1>1. vs \in Seq(ValuesTo[Depth])
  BY DEF OfContract
<1>2. \A i \in 1..Len(vs) : Build(vs[i]) = vs[i]
  BY SortedIsKept DEF AllSorted
<1>3. Built(vs) = vs
  BY <1>1, <1>2 DEF Built
<1>4. AllProper(vs)
  BY SortedIsProper DEF AllSorted, AllProper
<1> QED BY <1>3, <1>4

CodecInv ==
    /\ CodecTypeInv
    /\ AllProper(live) /\ AllProper(meant)
    /\ snapshot = Captured(meant)
    /\ snapshot # <<>> => WithinLimits(snapshot)
    /\ AdmittedIsKept
    /\ outcome \in {"running", "returned"} => query = NoQuery
    /\ QueriesTellTheState

(* What was captured can be restored as it is. *)
LEMMA SnapshotIsRestorable ==
    ASSUME Invalid = {}, CodecInv, snapshot # <<>>, NEW lenient
    PROVE  /\ OfContract(schema, snapshot) /\ AllSorted(snapshot) /\ Built(snapshot) = snapshot
           /\ OfContract(schema, meant) /\ Len(snapshot) = Len(meant)
           /\ \A i \in 1..Len(meant) : snapshot[i] = Extract(meant[i])
           /\ Restorable(snapshot, lenient)
<1>1. OfContract(schema, snapshot)
  BY DEF CodecInv, CodecTypeInv
<1>2. OfContract(schema, meant)
  <2>1. Captured(<<>>) = <<>>
    BY DEF Captured
  <2>2. meant # <<>>
    BY <2>1 DEF CodecInv
  <2> QED BY <2>2 DEF CodecInv, CodecTypeInv
<1>3. /\ Len(snapshot) = Len(meant) /\ AllSorted(snapshot)
      /\ \A i \in 1..Len(meant) : snapshot[i] = Extract(meant[i])
  <2>1. AllProper(meant) /\ snapshot = Captured(meant)
    BY DEF CodecInv
  <2> QED BY <1>2, <2>1, CapturedEach
<1>4. Built(snapshot) = snapshot
  BY <1>1, <1>3, SortedKept
<1>5. KeysDiffer(snapshot)
  BY <1>4 DEF KeysDiffer
<1>6. ConvertibleAll(schema, snapshot)
  BY <1>1, AdmittedConverts DEF CodecInv, CodecTypeInv
<1>7. WithinLimits(snapshot)
  BY DEF CodecInv
<1> QED BY <1>1, <1>2, <1>3, <1>4, <1>5, <1>6, <1>7 DEF Restorable

(* The invariant holds before the registration.                            *)
LEMMA CodecInvInit ==
    ASSUME Invalid = {}, CodecInit
    PROVE  CodecInv
<1>1. CodecTypeInv
  BY CodecTypeInvInit
<1>2. snapshot = <<>> /\ live = <<>> /\ meant = <<>> /\ outcome = "done" /\ query = NoQuery
  BY DEF CodecInit
<1>3. AllProper(<<>>) /\ Captured(<<>>) = <<>>
  BY DEF AllProper, Captured
<1>4. QueriesTellTheState
  BY <1>2 DEF QueriesTellTheState, NoQuery
<1> QED BY <1>1, <1>2, <1>3, <1>4 DEF CodecInv, AdmittedIsKept

(* A query that leaves v in global j finds it changed exactly if it is     *)
(* not the same, and answers with the globals the snapshot was taken from. *)
LEMMA QueryTells ==
    ASSUME Invalid = {}, CodecInv, NEW i \in 1..Len(schema.globals),
           NEW j \in 1..Len(schema.globals), Query(i, j)
    PROVE  QueriesTellTheState'
<1>1. /\ snapshot # <<>> /\ meant' = meant
      /\ OfContract(schema, snapshot) /\ AllSorted(snapshot) /\ Built(snapshot) = snapshot
      /\ OfContract(schema, meant) /\ AllProper(meant)
      /\ \A k \in 1..Len(meant) : snapshot[k] = Extract(meant[k])
  BY SnapshotIsRestorable DEF Query, CodecInv
<1>2. PICK v \in Values(schema.structs, schema.globals[j]) :
        LET is  == Captured([snapshot EXCEPT ![j] = v])
            was == Captured(snapshot)
        IN  query' = [status |-> IF ~WithinLimits(is) THEN "over limit"
                                 ELSE IF is # was THEN "mutated" ELSE "answered",
                      of     |-> i,
                      answer |-> JSONCompatible(Extract(snapshot[i])),
                      wrote  |-> j,
                      value  |-> v]
  BY <1>1 DEF Query
<1>3. /\ snapshot \in Seq(ValuesTo[Depth]) /\ Len(snapshot) = Len(schema.globals)
      /\ Len(meant) = Len(schema.globals)
  BY <1>1 DEF OfContract
<1>4. v \in Proper("unordered")[Depth] /\ <<schema.globals[j], v>> \in Typed(schema.structs)[Depth]
  <2>1. v \in OfType(schema.structs)[Depth][schema.globals[j]]
    BY ValuesOfType
  <2>2. schema \in Schemas /\ schema.globals[j] \in Types
    BY DEF CodecInv, CodecTypeInv, AdmittedContract
  <2> QED BY <2>1, <2>2, NewValues, DepthNat
<1> DEFINE left == [snapshot EXCEPT ![j] = v]
<1>5. /\ \A k \in 1..Len(snapshot) : Captured(snapshot)[k] = snapshot[k]
      /\ Captured(snapshot) \in Seq(ValuesTo[Depth]) /\ Len(Captured(snapshot)) = Len(snapshot)
  <2>1. AllProper(snapshot)
    BY <1>1, SortedKept
  <2>2. \A k \in 1..Len(snapshot) : Extract(snapshot[k]) = snapshot[k]
    BY <1>1, SortedIsKept DEF AllSorted
  <2> QED BY <1>1, <2>1, <2>2, CapturedEach
<1>6. /\ \A k \in 1..Len(snapshot) :
            Captured(left)[k] = IF k = j THEN Extract(v) ELSE snapshot[k]
      /\ Captured(left) \in Seq(ValuesTo[Depth]) /\ Len(Captured(left)) = Len(snapshot)
  <2>1. v \in ValuesTo[Depth]
    BY <1>4, ProperAreValues, DepthNat
  <2>2. /\ left \in Seq(ValuesTo[Depth]) /\ Len(left) = Len(snapshot)
        /\ \A k \in 1..Len(snapshot) : left[k] = IF k = j THEN v ELSE snapshot[k]
    BY <1>3, <2>1
  <2> HIDE DEF left
  <2>3. OfContract(schema, left)
    BY <1>1, <1>4, <2>2 DEF OfContract
  <2>4. AllProper(left)
    BY <1>1, <1>4, <2>2, SortedIsProper DEF AllProper, AllSorted
  <2>5. \A k \in 1..Len(snapshot) : Extract(snapshot[k]) = snapshot[k]
    BY <1>1, SortedIsKept DEF AllSorted
  <2>6. /\ Captured(left) \in Seq(ValuesTo[Depth]) /\ Len(Captured(left)) = Len(left)
        /\ \A k \in 1..Len(left) : Captured(left)[k] = Extract(left[k])
    BY <2>3, <2>4, CapturedEach
  <2> QED BY <2>2, <2>5, <2>6
<1>7. Captured(left) # Captured(snapshot) <=> ~SameValue(v, meant[j])
  <2>1. SameValue(v, meant[j]) <=> Extract(v) = Extract(meant[j])
    BY <1>1, <1>3, <1>4, SameOfExtract DEF AllProper
  <2>2. Extract(meant[j]) = snapshot[j]
    BY <1>1, <1>3
  <2>3. j \in 1..Len(snapshot)
    BY <1>3
  <2> HIDE DEF left
  <2>4. Extract(v) = snapshot[j] => Captured(left) = Captured(snapshot)
    BY <1>5, <1>6
  <2>5. Captured(left) = Captured(snapshot) => Extract(v) = snapshot[j]
    BY <1>5, <1>6, <2>3
  <2> QED BY <2>1, <2>2, <2>4, <2>5
<1>8. JSONCompatible(Extract(snapshot[i])) = JSONCompatible(meant[i])
  <2>1. snapshot[i] = Extract(meant[i]) /\ meant[i] \in Proper("unordered")[Depth]
    BY <1>1, <1>3 DEF AllProper
  <2>2. Extract(snapshot[i]) = snapshot[i]
    BY <1>1, <1>3, SortedIsKept DEF AllSorted
  <2> QED BY <2>1, <2>2, AnswerOfExtract
<1>9. /\ query'.answer = JSONCompatible(meant[query'.of]) /\ query'.wrote = j /\ query'.value = v
      /\ query'.status = "answered" => Captured(left) = Captured(snapshot)
      /\ query'.status = "mutated" => Captured(left) # Captured(snapshot)
  BY <1>2, <1>8
<1> HIDE DEF left
<1> QED BY <1>1, <1>7, <1>9 DEF QueriesTellTheState

(* Every step keeps the invariant.                                         *)
LEMMA CodecInvNext ==
    ASSUME Invalid = {}, CodecInv, [CodecNext]_codecVars
    PROVE  CodecInv'
<1>0. CodecTypeInv'
  BY CodecTypeInvNext DEF CodecInv
<1>1. AdmittedContract(schema)
  BY DEF CodecInv, CodecTypeInv
<1>2. CASE Register
  <2>1. AllProper(live')
    BY <1>1, <1>2, GlobalsOfContract DEF Register, AllProper
  <2>2. QueriesTellTheState'
    BY <1>2 DEF Register, QueriesTellTheState, NoQuery
  <2> QED BY <1>0, <1>2, <2>1, <2>2 DEF Register, CodecInv, AdmittedIsKept
<1>3. CASE Restore
  <2>1. snapshot # <<>> /\ query' = NoQuery /\ UNCHANGED <<schema, snapshot, meant>>
    BY <1>3 DEF Restore
  <2>2. /\ \A lenient \in BOOLEAN : Restorable(snapshot, lenient)
        /\ Built(snapshot) = snapshot /\ AllProper(snapshot)
    BY <2>1, SnapshotIsRestorable, SortedKept
  <2>3. live' = snapshot /\ outcome' = "running"
    BY <1>3, <2>2 DEF Restore
  <2>4. QueriesTellTheState'
    BY <2>1 DEF QueriesTellTheState, NoQuery
  <2> QED BY <1>0, <2>1, <2>2, <2>3, <2>4 DEF CodecInv, AdmittedIsKept
<1>4. CASE Return
  <2>1. AllProper(live')
    BY <1>1, <1>4, GlobalsOfContract DEF Return, AllProper
  <2>2. QueriesTellTheState'
    BY <1>4 DEF Return, CodecInv, QueriesTellTheState
  <2> QED BY <1>0, <1>4, <2>1, <2>2 DEF Return, CodecInv, AdmittedIsKept
<1>5. CASE Capture
  <2>1. OfContract(schema, live) /\ query = NoQuery
    BY <1>5 DEF Capture, CodecInv, CodecTypeInv
  <2>2. ConvertibleAll(schema, live)
    BY <1>1, <2>1, AdmittedConverts
  <2>3. /\ live' = <<>> /\ query' = NoQuery
        /\ \/ UNCHANGED <<snapshot, meant>> /\ outcome' = "over limit"
           \/ /\ snapshot' = Captured(live) /\ meant' = live /\ outcome' = "done"
              /\ WithinLimits(Captured(live))
    BY <1>5, <2>1, <2>2 DEF Capture
  <2>4. AllProper(<<>>)
    BY DEF AllProper
  <2>5. QueriesTellTheState'
    BY <2>3 DEF QueriesTellTheState, NoQuery
  <2> QED BY <1>0, <2>3, <2>4, <2>5 DEF CodecInv, AdmittedIsKept
<1>6. CASE Drop
  <2>1. AllProper(<<>>)
    BY DEF AllProper
  <2>2. QueriesTellTheState'
    BY <1>6 DEF Drop, CodecInv, QueriesTellTheState
  <2> QED BY <1>0, <1>6, <2>1, <2>2 DEF Drop, CodecInv, AdmittedIsKept
<1>7. ASSUME NEW i \in 1..Len(schema.globals), NEW j \in 1..Len(schema.globals), Query(i, j)
      PROVE  CodecInv'
  <2>1. QueriesTellTheState'
    BY <1>7, QueryTells
  <2> QED BY <1>0, <1>7, <2>1 DEF Query, CodecInv, AdmittedIsKept
<1>8. CASE UNCHANGED codecVars
  <2>1. QueriesTellTheState'
    BY <1>8 DEF codecVars, CodecInv, QueriesTellTheState
  <2> QED BY <1>0, <1>8, <2>1 DEF codecVars, CodecInv, AdmittedIsKept
<1> QED BY <1>2, <1>3, <1>4, <1>5, <1>6, <1>7, <1>8 DEF CodecNext

(* The inductive invariant behind the three theorems.                      *)
LEMMA CodecInvariant ==
    ASSUME Invalid = {}
    PROVE  CodecSpec => []CodecInv
<1>1. CodecInit => CodecInv
  BY CodecInvInit
<1>2. CodecInv /\ [CodecNext]_codecVars => CodecInv'
  BY CodecInvNext
<1> QED BY <1>1, <1>2, PTL DEF CodecSpec

(* Where every string is UTF-8, the state of an admitted contract is never *)
(* refused for its types, and what was captured can be restored.           *)
THEOREM AdmittedStateIsKept ==
    ASSUME Invalid = {}
    PROVE  CodecSpec => []AdmittedIsKept
<1>1. CodecInv => AdmittedIsKept
  BY DEF CodecInv
<1> QED BY <1>1, CodecInvariant, PTL

(* Where every string is UTF-8, a query answers with the state the last    *)
(* operation left and is refused as one that changes it exactly when it    *)
(* leaves another one.                                                     *)
THEOREM QueriesTell ==
    ASSUME Invalid = {}
    PROVE  CodecSpec => []QueriesTellTheState
<1>1. CodecInv => QueriesTellTheState
  BY DEF CodecInv
<1> QED BY <1>1, CodecInvariant, PTL

(* Where every string is UTF-8, an operation starts from the globals the   *)
(* last successful one left, but for the order of maps.                    *)
THEOREM RestoreFaithful ==
    ASSUME Invalid = {}
    PROVE  CodecSpec => RestoreIsFaithful
<1> DEFINE Faithful == live = <<>> /\ snapshot # <<>> /\ live' # <<>> =>
                         \A i \in 1..Len(meant) : SameValue(live'[i], meant[i])
<1>1. CodecInv /\ [CodecNext]_codecVars => [Faithful]_codecVars
  <2> SUFFICES ASSUME CodecInv, CodecNext, live = <<>>, snapshot # <<>>, live' # <<>>,
                      NEW i \in 1..Len(meant)
               PROVE  SameValue(live'[i], meant[i])
    OBVIOUS
  <2>1. /\ OfContract(schema, snapshot) /\ AllSorted(snapshot) /\ Built(snapshot) = snapshot
        /\ Len(snapshot) = Len(meant) /\ snapshot[i] = Extract(meant[i])
    BY SnapshotIsRestorable
  <2>2. live' = snapshot
    <3>1. CASE Restore
      BY <2>1, <3>1 DEF Restore
    <3>2. CASE Return
      <4>1. OfContract(schema, live)
        BY <3>2 DEF Return, CodecInv, CodecTypeInv
      <4>2. snapshot \in Seq(ValuesTo[Depth]) /\ Len(snapshot) = 0
        BY <2>1, <4>1 DEF OfContract
      <4> QED BY <4>2
    <3> QED BY <3>1, <3>2 DEF CodecNext, Register, Capture, Drop, Query
  <2>3. /\ snapshot[i] \in Proper("sorted")[Depth] /\ meant[i] \in Proper("unordered")[Depth]
    BY <2>1 DEF AllSorted, CodecInv, AllProper
  <2>4. Extract(snapshot[i]) = snapshot[i] /\ snapshot[i] \in Proper("unordered")[Depth]
    BY <2>3, SortedIsKept, SortedIsProper
  <2>5. SameValue(snapshot[i], meant[i])
    BY <2>1, <2>3, <2>4, SameOfExtract
  <2> QED BY <2>2, <2>5
<1>2. CodecSpec => [][Faithful]_codecVars
  BY <1>1, CodecInvariant, PTL DEF CodecSpec
<1> QED BY <1>2 DEF RestoreIsFaithful
=============================================================================
