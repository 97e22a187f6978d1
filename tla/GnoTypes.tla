------------------------------ MODULE GnoTypes ------------------------------
(***************************************************************************)
(* The types of a typed Gno contract: how the analyser resolves the type   *)
(* expressions of a source, which types a contract may keep between        *)
(* operations, and the complexity the schema is limited by.                *)
(*                                                                         *)
(* A type expression is an identifier, a map, a slice, a struct or         *)
(* something else: a name of a package, a pointer, an array, an interface  *)
(* and so on.  Of those only the name after the last dot of their text     *)
(* matters ("chain.WriteContext" and "*chain.WriteContext" have the same,  *)
(* and "" stands for none).  Fields are known by their place, and what an  *)
(* error says is left out: a check is the condition for it to pass.        *)
(*                                                                         *)
(* A function of expressions or types goes level by level: at[n] is what   *)
(* it is for those that nest at most n deep, and refers to at[n - 1].      *)
(***************************************************************************)
EXTENDS Integers, Sequences, SequencesExt, FiniteSetsExt

CONSTANT Nesting  \* bound of the model: maps, slices and structs in each other

ASSUME NestingAssumption == Nesting \in Nat

Scalars == {"string", "bool", "int", "int64", "uint64"}

Kinds == {"scalar", "named", "map", "slice", "struct", "opaque"}

(* Not about the constant: that a literal is a string, which the provers   *)
(* have to be told.                                                        *)
ASSUME StringsAssumption == {""} \cup Scalars \cup Kinds \subseteq STRING

(* Expressions *)
Ident(name)      == [form |-> "ident", name |-> name]
MapExpr(k, e)    == [form |-> "map", key |-> k, elem |-> e]
SliceExpr(e)     == [form |-> "slice", elem |-> e]
StructExpr(fs)   == [form |-> "struct", fields |-> fs, embedded |-> FALSE]
EmbedExpr(fs)    == [form |-> "struct", fields |-> fs, embedded |-> TRUE]
OtherExpr(n)     == [form |-> "other", name |-> n]

(* Type references. name is empty for a struct without one. *)
Scalar(s)        == [kind |-> "scalar", scalar |-> s]
Named(n)         == [kind |-> "named", name |-> n]
MapOf(k, e)      == [kind |-> "map", key |-> k, elem |-> e]
SliceOf(e)       == [kind |-> "slice", elem |-> e]
Struct(n, fs)    == [kind |-> "struct", name |-> n, fields |-> fs]
Opaque(n, q)     == [kind |-> "opaque", name |-> n, qualified |-> q]

ExprsTo[n \in 0..Nesting] ==
    IF n = 0 THEN {}
    ELSE LET inner == ExprsTo[n - 1] IN
         [form : {"ident", "other"}, name : STRING]
           \cup [form : {"map"}, key : inner, elem : inner]
           \cup [form : {"slice"}, elem : inner]
           \cup [form : {"struct"}, fields : Seq(inner), embedded : BOOLEAN]

Exprs == ExprsTo[Nesting]

TypesTo[n \in 0..Nesting] ==
    IF n = 0 THEN {}
    ELSE LET inner == TypesTo[n - 1] IN
         [kind : {"scalar"}, scalar : Scalars]
           \cup [kind : {"named"}, name : STRING]
           \cup [kind : {"opaque"}, name : STRING, qualified : BOOLEAN]
           \cup [kind : {"map"}, key : inner, elem : inner]
           \cup [kind : {"slice"}, elem : inner]
           \cup [kind : {"struct"}, name : STRING, fields : Seq(inner)]

Types == TypesTo[Nesting]

---------------------------------------------------------------------------
(* The resolver.  An identifier that is declared stays a reference by      *)
(* name, so resolving an expression never follows a declaration.           *)

(* resolveStructFields refuses embedded fields. *)
Resolvable(e) ==
    LET at[n \in 0..Nesting] ==
          IF n = 0 THEN {}
          ELSE LET inner == at[n - 1] IN
               [form : {"ident", "other"}, name : STRING]
                 \cup [form : {"map"}, key : inner, elem : inner]
                 \cup [form : {"slice"}, elem : inner]
                 \cup [form : {"struct"}, fields : Seq(inner), embedded : {FALSE}]
    IN  e \in at[Nesting]

ResolveIdent(declared, name) ==
    IF name \in Scalars THEN Scalar(name)
    ELSE IF name \in declared THEN Named(name)
    ELSE Opaque(name, FALSE)

ResolveTypeExpr(declared, expr) ==
    LET at[n \in 0..Nesting] ==
          IF n = 0 THEN <<>>
          ELSE LET inner == at[n - 1] IN
               [e \in ExprsTo[n] |->
                  CASE e.form = "ident" -> ResolveIdent(declared, e.name)
                    [] e.form = "map" -> MapOf(inner[e.key], inner[e.elem])
                    [] e.form = "slice" -> SliceOf(inner[e.elem])
                    [] e.form = "struct" ->
                          Struct("", [i \in 1..Len(e.fields) |-> inner[e.fields[i]]])
                    [] e.form = "other" -> Opaque(e.name, TRUE)]
    IN  at[Nesting][expr]

(* populateFromResolver: the declarations that are structs. *)
Structs(decls) ==
    LET T(n) == ResolveTypeExpr(DOMAIN decls, decls[n])
    IN  [n \in {m \in DOMAIN decls : T(m).kind = "struct"} |->
            Struct(n, T(n).fields)]

ResolveType(structs, t) ==
    IF t.kind = "named" /\ t.name \in DOMAIN structs THEN structs[t.name] ELSE t

(* The name after the last dot of the text of a type, "" if it ends in     *)
(* none.                                                                   *)
AfterDot(type) ==
    LET at[n \in 0..Nesting] ==
          IF n = 0 THEN <<>>
          ELSE LET inner == at[n - 1] IN
               [t \in TypesTo[n] |->
                  IF t.kind \in {"map", "slice"} THEN inner[t.elem]
                  ELSE IF t.kind = "opaque" /\ t.qualified THEN t.name
                  ELSE ""]
    IN  at[Nesting][type]

(* The text of a type is a name. *)
IsNamedAs(t, name) ==
    \/ t.kind = "named" /\ t.name = name
    \/ t.kind = "opaque" /\ ~t.qualified /\ t.name = name

IsContextTypeNamed(t, name) == IsNamedAs(t, name) \/ AfterDot(t) = name

---------------------------------------------------------------------------
(* Types that may be kept: scalars, named structs, maps from strings and   *)
(* slices, the elements of both scalars or named structs.                  *)

IsScalar(structs, t) == ResolveType(structs, t).kind = "scalar"

(* What the three checks below ask of an element or field; good are the    *)
(* structs that are supported.                                             *)
ElemSupported(structs, t, good) ==
    IsScalar(structs, t) \/ (t.kind = "named" /\ t.name \in good)

(* validateSliceTypeRecursive *)
SliceSupported(structs, t, good) ==
    t.kind = "slice" /\ ElemSupported(structs, t.elem, good)

(* Mutation: any scalar is a key. *)
MapSupportedAnyKey(structs, t, good) ==
    /\ t.kind = "map"
    /\ IsScalar(structs, t.key)
    /\ ElemSupported(structs, t.elem, good)

(* validateMapTypeRecursive *)
MapSupported(structs, t, good) ==
    /\ t.kind = "map"
    /\ ResolveType(structs, t.key) = Scalar("string")
    /\ ElemSupported(structs, t.elem, good)

FieldSupported(structs, t, good) ==
    \/ ElemSupported(structs, t, good)
    \/ MapSupported(structs, t, good)
    \/ SliceSupported(structs, t, good)

(* validateNamedStructTypeRecursive: resolving are the structs that are    *)
(* being checked, and one of them is recursive where it is met again.      *)
SupportedStructs(structs) ==
    LET supported[resolving \in SUBSET DOMAIN structs] ==
          {name \in DOMAIN structs \ resolving :
             \A i \in 1..Len(structs[name].fields) :
                FieldSupported(structs, structs[name].fields[i],
                               supported[resolving \cup {name}])}
    IN  supported[{}]

NamedStructSupported(structs, t) ==
    t.kind = "named" /\ t.name \in SupportedStructs(structs)

(* ValidatePersistentGlobalType *)
PersistentTypeSupported(structs, t) ==
    \/ IsScalar(structs, t)
    \/ MapSupported(structs, t, SupportedStructs(structs))
    \/ SliceSupported(structs, t, SupportedStructs(structs))
    \/ NamedStructSupported(structs, t)

(* validateScalarABIType *)
ScalarABITypeSupported(structs, t) == IsScalar(structs, t)

(* validateCompositeABIType *)
CompositeABITypeSupported(structs, t) ==
    \/ IsScalar(structs, t)
    \/ NamedStructSupported(structs, t)
    \/ MapSupported(structs, t, SupportedStructs(structs))
    \/ SliceSupported(structs, t, SupportedStructs(structs))

---------------------------------------------------------------------------
(* Complexity.  Both walks stop at a struct they are inside of.            *)

Deepest(depths) == Max(depths \cup {0})

Total(ns) == FoldLeft(LAMBDA a, b : a + b, 0, ns)

(* The struct is entered: one without a name leaves no trace. *)
Inside(resolving, struct) ==
    IF struct.name = "" THEN resolving ELSE resolving \cup {struct.name}

(* contractSchemaTypeDepth *)
TypeDepth(structs, type) ==
    LET depth[resolving \in SUBSET DOMAIN structs, n \in 0..Nesting] ==
          [t \in TypesTo[n] |->
             CASE t.kind = "named" /\ t.name \in DOMAIN structs \ resolving ->
                     depth[resolving, Nesting][structs[t.name]]
               [] t.kind = "struct" /\ t.name \notin resolving ->
                     1 + Deepest({depth[Inside(resolving, t), n - 1][t.fields[i]] :
                                    i \in 1..Len(t.fields)})
               [] t.kind = "map" ->
                     1 + Deepest({depth[resolving, n - 1][t.key],
                                  depth[resolving, n - 1][t.elem]})
               [] t.kind = "slice" -> 1 + depth[resolving, n - 1][t.elem]
               [] OTHER -> 0]
    IN  depth[{}, Nesting][type]

(* contractSchemaTypeNodeCount *)
TypeNodeCount(structs, type) ==
    LET count[resolving \in SUBSET DOMAIN structs, n \in 0..Nesting] ==
          [t \in TypesTo[n] |->
             CASE t.kind = "named" /\ t.name \in DOMAIN structs \ resolving ->
                     1 + count[resolving, Nesting][structs[t.name]]
               [] t.kind = "struct" /\ t.name \notin resolving ->
                     1 + Len(t.fields)
                       + Total([i \in 1..Len(t.fields) |->
                                  count[Inside(resolving, t), n - 1][t.fields[i]]])
               [] t.kind = "map" ->
                     1 + count[resolving, n - 1][t.key]
                       + count[resolving, n - 1][t.elem]
               [] t.kind = "slice" -> 1 + count[resolving, n - 1][t.elem]
               [] OTHER -> 1]
    IN  count[{}, Nesting][type]
=============================================================================
