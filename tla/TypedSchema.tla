----------------------------- MODULE TypedSchema -----------------------------
(***************************************************************************)
(* Admission of a contract source: the schema the analyser makes of it and *)
(* the conditions under which it is refused.                               *)
(*                                                                         *)
(* A source is what the analyser looks at: its package and imports, its    *)
(* type declarations, persistent globals and functions, and which members  *)
(* of the context and of the chain package a function body selects.        *)
(***************************************************************************)
EXTENDS GnoTypes

CONSTANTS
    Sources,         \* the sources that are submitted
    AllowedImports,  \* paths of allowedTypedContractImportSpecs
    MaxImports, MaxFunctions, MaxGlobals, MaxStructs, MaxStructFields,
    MaxDepth, MaxNodes

GlobalDecls == [type : Exprs, explicit : BOOLEAN]

FunctionDecls ==
    [name : STRING, exported : BOOLEAN, params : Seq(Exprs), results : Seq(Exprs),
     chainUses : SUBSET STRING, paramUses : SUBSET STRING]

ASSUME SchemaAssumption ==
    /\ {MaxImports, MaxFunctions, MaxGlobals, MaxStructs, MaxStructFields,
        MaxDepth, MaxNodes} \subseteq Nat
    /\ \A s \in Sources :
          /\ s.package \in STRING
          /\ s.imports \in Seq(STRING)
          /\ IsFiniteSet(DOMAIN s.types)
          /\ DOMAIN s.types \subseteq STRING \ ({""} \cup Scalars)
          /\ \A n \in DOMAIN s.types : s.types[n] \in Exprs
          /\ s.globals \in Seq(GlobalDecls)
          /\ s.functions \in Seq(FunctionDecls)

VARIABLES
    source,  \* the source that is submitted
    verdict  \* "submitted", "refused" or "admitted"

vars == <<source, verdict>>

Init ==
    /\ source \in Sources
    /\ verdict = "submitted"

---------------------------------------------------------------------------
(* The schema.                                                             *)

Resolve(s, e) == ResolveTypeExpr(DOMAIN s.types, e)

ResolveAll(s, es) == [i \in 1..Len(es) |-> Resolve(s, es[i])]

(* parseFunctionSchema *)
FunctionOf(s, f) ==
    [name     |-> f.name,
     exported |-> f.exported,
     params   |-> ResolveAll(s, f.params),
     results  |-> ResolveAll(s, f.results)]

SchemaOf(s) ==
    [structs   |-> Structs(s.types),
     globals   |-> [i \in 1..Len(s.globals) |->
                      [type     |-> Resolve(s, s.globals[i].type),
                       explicit |-> s.globals[i].explicit]],
     functions |-> [i \in 1..Len(s.functions) |-> FunctionOf(s, s.functions[i])]]

Expressions(s) ==
    {s.types[n] : n \in DOMAIN s.types}
        \cup {s.globals[i].type : i \in 1..Len(s.globals)}
        \cup UNION {ToSet(f.params) \cup ToSet(f.results) : f \in ToSet(s.functions)}

---------------------------------------------------------------------------
(* Shapes of functions.                                                    *)

TakesFirst(f, context) ==
    Len(f.params) > 0 /\ IsContextTypeNamed(f.params[1], context)

IsWriteContextCallable(f) == TakesFirst(f, "WriteContext")

IsQueryContextCallable(f) == TakesFirst(f, "QueryContext")

UsesLegacyContractContext(f) == TakesFirst(f, "ContractContext")

IsSingleErrorResult(f) == Len(f.results) = 1 /\ IsNamedAs(f.results[1], "error")

IsTypedInitializeShape(f) ==
    f.name = "Initialize" /\ IsWriteContextCallable(f) /\ IsSingleErrorResult(f)

(* Mutation: a write may return something beside the error. *)
IsTypedWriteShapeLastError(f) ==
    /\ f.exported
    /\ f.name # "Initialize"
    /\ IsWriteContextCallable(f)
    /\ Len(f.results) > 0
    /\ IsNamedAs(f.results[Len(f.results)], "error")

IsTypedWriteShape(f) ==
    /\ f.exported
    /\ f.name # "Initialize"
    /\ IsWriteContextCallable(f)
    /\ IsSingleErrorResult(f)

IsTypedQueryShape(f) ==
    /\ f.exported
    /\ f.name # "Initialize"
    /\ IsQueryContextCallable(f)
    /\ \/ Len(f.results) = 1 /\ ~IsSingleErrorResult(f)
       \/ Len(f.results) = 2 /\ f.results[2] = Scalar("bool")

ScalarParams(sc, f) ==
    \A i \in 2..Len(f.params) : ScalarABITypeSupported(sc.structs, f.params[i])

---------------------------------------------------------------------------
(* Checks of the analyser, in its order.                                   *)

ImportsAllowed(s) == ToSet(s.imports) \subseteq AllowedImports

(* validateContextABIUsage: selections on the chain package and on the     *)
(* first parameter, in functions with a body.                              *)
ContextABIUsed(f, parsed) ==
    /\ "CurrentHeight" \notin f.chainUses
    /\ ~("GetCurrentHeight" \in f.paramUses /\ IsWriteContextCallable(parsed))
    /\ ~("GetBlockTime" \in f.paramUses /\ IsQueryContextCallable(parsed))

TypesOfSchema(sc) ==
    {sc.structs[n] : n \in DOMAIN sc.structs}
        \cup {sc.globals[i].type : i \in 1..Len(sc.globals)}
        \cup UNION {ToSet(f.params) \cup ToSet(f.results) : f \in ToSet(sc.functions)}

SchemaDepth(sc) == Deepest({TypeDepth(sc.structs, t) : t \in TypesOfSchema(sc)})

NodeCounts(sc, ts) == Total([i \in 1..Len(ts) |-> TypeNodeCount(sc.structs, ts[i])])

(* contractSchemaNodeCount; an import counts as often as it is written.   *)
SchemaNodeCount(s, sc) ==
    Len(s.imports) + Len(sc.functions) + Len(sc.globals)
      + Cardinality(DOMAIN sc.structs)
      + MapThenSumSet(LAMBDA n : Len(sc.structs[n].fields)
                                   + NodeCounts(sc, sc.structs[n].fields),
                      DOMAIN sc.structs)
      + NodeCounts(sc, [i \in 1..Len(sc.globals) |-> sc.globals[i].type])
      + Total([i \in 1..Len(sc.functions) |->
                 LET ts == sc.functions[i].params \o sc.functions[i].results
                 IN  Len(ts) + NodeCounts(sc, ts)])

(* validateContractSchemaComplexity *)
ComplexityAllowed(s, sc) ==
    /\ Len(s.imports) <= MaxImports
    /\ Len(sc.functions) <= MaxFunctions
    /\ Len(sc.globals) <= MaxGlobals
    /\ Cardinality(DOMAIN sc.structs) <= MaxStructs
    /\ \A n \in DOMAIN sc.structs : Len(sc.structs[n].fields) <= MaxStructFields
    /\ SchemaDepth(sc) <= MaxDepth
    /\ SchemaNodeCount(s, sc) <= MaxNodes

(* An exported function that is no business of the node has no context. *)
FunctionAllowed(sc, f) ==
    \/ f.name = "Initialize"
    \/ ~f.exported
    \/ /\ ~UsesLegacyContractContext(f)
       /\ \/ ~IsWriteContextCallable(f) /\ ~IsQueryContextCallable(f)
          \/ IsTypedWriteShape(f) /\ ScalarParams(sc, f)
          \/ /\ IsTypedQueryShape(f)
             /\ ScalarParams(sc, f)
             /\ CompositeABITypeSupported(sc.structs, f.results[1])

(* finalizeContractSchema; FindFunction finds the first of a name. *)
Finalized(s, sc) ==
    /\ s.package = "contract"
    /\ \E i \in 1..Len(sc.functions) :
          /\ sc.functions[i].name = "Initialize"
          /\ \A j \in 1..i-1 : sc.functions[j].name # "Initialize"
          /\ IsTypedInitializeShape(sc.functions[i])
          /\ ScalarParams(sc, sc.functions[i])
    /\ \A i \in 1..Len(sc.globals) :
          /\ sc.globals[i].explicit
          /\ PersistentTypeSupported(sc.structs, sc.globals[i].type)
    /\ \A f \in ToSet(sc.functions) : FunctionAllowed(sc, f)

(* AnalyzeContractSchema returns a schema. *)
Admitted(s) ==
    LET sc == SchemaOf(s)
    IN  /\ ImportsAllowed(s)
        /\ \A e \in Expressions(s) : Resolvable(e)
        /\ \A i \in 1..Len(s.functions) :
              ContextABIUsed(s.functions[i], sc.functions[i])
        /\ ComplexityAllowed(s, sc)
        /\ Finalized(s, sc)

Analyze ==
    /\ verdict = "submitted"
    /\ verdict' = IF Admitted(source) THEN "admitted" ELSE "refused"
    /\ UNCHANGED source

Next == Analyze

Spec == Init /\ [][Next]_vars

---------------------------------------------------------------------------
Schema == SchemaOf(source)

(* The types a state may have by the documentation: a scalar, a struct     *)
(* with a name, a map from strings to them, a slice of them, in fields as  *)
(* well. A struct is one of them when all its fields are, which makes the  *)
(* documented structs the least set closed under that rule; no struct that *)
(* contains itself is in it.                                               *)
DocumentedElem(good, t) == t.kind = "scalar" \/ (t.kind = "named" /\ t.name \in good)

Documented(good, t) ==
    \/ DocumentedElem(good, t)
    \/ t.kind = "map" /\ t.key = Scalar("string") /\ DocumentedElem(good, t.elem)
    \/ t.kind = "slice" /\ DocumentedElem(good, t.elem)

HasDocumentedFields(structs, good, n) ==
    \A i \in 1..Len(structs[n].fields) : Documented(good, structs[n].fields[i])

DocumentedStructs(structs) ==
    {n \in DOMAIN structs :
        \A good \in SUBSET DOMAIN structs :
            (\A m \in DOMAIN structs : HasDocumentedFields(structs, good, m)
                                         => m \in good)
                => n \in good}

(* Contract-language-support.md: the checks of state types, which follow   *)
(* references and carry the structs being checked, admit the documented    *)
(* types for globals and query results, no others, and through every cycle *)
(* of declarations refuse those a contract can have no finite value of.    *)
StateTypesAsDocumented ==
    LET good == DocumentedStructs(Schema.structs)
    IN  /\ verdict = "admitted" =>
             /\ \A i \in 1..Len(Schema.globals) :
                   Documented(good, Schema.globals[i].type)
             /\ \A f \in ToSet(Schema.functions) :
                   IsTypedQueryShape(f) => Documented(good, f.results[1])
        /\ \A i \in 1..Len(Schema.globals) :
             Documented(good, Schema.globals[i].type) =>
                /\ PersistentTypeSupported(Schema.structs, Schema.globals[i].type)
                /\ CompositeABITypeSupported(Schema.structs, Schema.globals[i].type)

(* The name a type is written with, whatever it is a map or a slice of:    *)
(* by that name the analyser knows a context.                              *)
Naming(name) ==
    LET after[n \in 0..Nesting] ==
          IF n = 0 THEN {}
          ELSE {OtherExpr(name)}
                 \cup [form : {"map"}, key : ExprsTo[n - 1], elem : after[n - 1]]
                 \cup [form : {"slice"}, elem : after[n - 1]]
    IN  {Ident(name)} \cup after[Nesting]

(* What a source says of a function by the documentation: one that takes   *)
(* a WriteContext is a write and returns an error, one that takes a        *)
(* QueryContext is a query and returns a value that is no error and        *)
(* perhaps a bool; the other arguments are scalars.                        *)
Takes(f, context) == f.params # <<>> /\ f.params[1] \in Naming(context)

ScalarExprs == {Ident(k) : k \in Scalars}

ScalarsBeside(f) == ToSet(Tail(f.params)) \subseteq ScalarExprs

WriteByDocument(f) == f.results = <<Ident("error")>>

QueryByDocument(f) ==
    \/ Len(f.results) = 1 /\ f.results[1] # Ident("error")
    \/ Len(f.results) = 2 /\ f.results[2] = Ident("bool")

(* The first of the name Initialize, which the engine calls. *)
FirstInitialize(fs, i) ==
    fs[i].name = "Initialize" /\ \A j \in 1..i-1 : fs[j].name # "Initialize"

(* Contract-language-support.md: however a source is put together, when it *)
(* is admitted there is an Initialize, and the first one takes a           *)
(* WriteContext, scalars beside it and returns an error; of the other      *)
(* exported functions every one that takes a context is a write or a query *)
(* by its results and takes scalars beside the context, and none takes the *)
(* context of the earlier draft.  No check of the analyser says this       *)
(* alone.  A slice or pointer of contexts counts as one, as it does for    *)
(* the analyser: that a call can pass what a function takes is not said.   *)
FunctionsAsDocumented ==
    verdict = "admitted" =>
        LET fs == source.functions IN
        /\ \E i \in 1..Len(fs) :
              /\ FirstInitialize(fs, i)
              /\ Takes(fs[i], "WriteContext")
              /\ ScalarsBeside(fs[i])
              /\ WriteByDocument(fs[i])
        /\ \A f \in ToSet(fs) :
              f.exported /\ f.name # "Initialize" =>
                /\ ~Takes(f, "ContractContext")
                /\ Takes(f, "WriteContext") => WriteByDocument(f)
                /\ Takes(f, "QueryContext") => QueryByDocument(f)
                /\ Takes(f, "WriteContext") \/ Takes(f, "QueryContext") =>
                      ScalarsBeside(f)
=============================================================================
