-------------------------- MODULE PersistedSchema --------------------------
(***************************************************************************)
(* The schema that is stored with a design, and what becomes of it when it *)
(* is read back.                                                           *)
(*                                                                         *)
(* A stored type is one record for all kinds, with a place for whatever a  *)
(* kind may have; a place that is not used is empty.  Reading checks that  *)
(* the places fit the kind and finalises the schema once more, in lieu of  *)
(* the analysis: imports, bodies and complexity are not looked at again.   *)
(***************************************************************************)
EXTENDS TypedSchema

Nothing == <<>>

(* Stored types, as deep as a type may be. *)
StoredOver(inner) ==
    [kind : STRING, scalar : STRING, name : STRING, qualified : BOOLEAN,
     key : Seq(inner), elem : Seq(inner), fields : Seq(inner)]

StoredTo[n \in 0..Nesting] == IF n = 0 THEN {} ELSE StoredOver(StoredTo[n - 1])

(* persistedTypeRefFromRuntime; qualified stands for the text. *)
PersistedTypeRef(type) ==
    LET at[n \in 0..Nesting] ==
          IF n = 0 THEN <<>>
          ELSE LET inner == at[n - 1] IN
               [t \in TypesTo[n] |->
                  LET Has(place) == place \in DOMAIN t IN
                  [kind      |-> t.kind,
                   scalar    |-> IF Has("scalar") THEN t.scalar ELSE "",
                   name      |-> IF Has("name") THEN t.name ELSE "",
                   qualified |-> Has("qualified") /\ t.qualified,
                   key       |-> IF Has("key") THEN <<inner[t.key]>> ELSE Nothing,
                   elem      |-> IF Has("elem") THEN <<inner[t.elem]>> ELSE Nothing,
                   fields    |-> IF Has("fields")
                                 THEN [i \in 1..Len(t.fields) |-> inner[t.fields[i]]]
                                 ELSE <<>>]]
    IN  at[Nesting][type]

PersistedAll(ts) == [i \in DOMAIN ts |-> PersistedTypeRef(ts[i])]

Persisted(sc) ==
    [structs   |-> [n \in DOMAIN sc.structs |-> PersistedTypeRef(sc.structs[n])],
     globals   |-> [i \in DOMAIN sc.globals |->
                      [sc.globals[i] EXCEPT !.type = PersistedTypeRef(@)]],
     functions |-> [i \in DOMAIN sc.functions |->
                      [sc.functions[i] EXCEPT !.params = PersistedAll(@),
                                              !.results = PersistedAll(@)]]]

---------------------------------------------------------------------------
(* Mutation: only the kinds a state can have are known. *)
KnownKindOfState(kind) == kind \in {"scalar", "struct", "map", "slice", "named"}

KnownKind(kind) == kind \in {"scalar", "struct", "map", "slice", "named", "opaque"}

(* validatePersistedTypeRefShape *)
ShapeAllowed(d) ==
    CASE d.kind = "map"    -> d.key # Nothing /\ d.elem # Nothing /\ d.fields = <<>>
      [] d.kind = "slice"  -> d.key = Nothing /\ d.elem # Nothing /\ d.fields = <<>>
      [] d.kind = "struct" -> d.key = Nothing /\ d.elem = Nothing
      [] OTHER -> d.key = Nothing /\ d.elem = Nothing /\ d.fields = <<>>

(* runtimeTypeRefFromPersisted returns no error. *)
Readable(stored) ==
    LET at[n \in 0..Nesting] ==
          IF n = 0 THEN {}
          ELSE {d \in StoredOver(at[n - 1]) : KnownKind(d.kind) /\ ShapeAllowed(d)}
    IN  stored \in at[Nesting]

RuntimeTypeRef(stored) ==
    LET at[n \in 0..Nesting] ==
          IF n = 0 THEN <<>>
          ELSE LET inner == at[n - 1] IN
               [d \in StoredTo[n] |->
                  CASE d.kind = "scalar" -> Scalar(d.scalar)
                    [] d.kind = "named"  -> Named(d.name)
                    [] d.kind = "map"    -> MapOf(inner[d.key[1]], inner[d.elem[1]])
                    [] d.kind = "slice"  -> SliceOf(inner[d.elem[1]])
                    [] d.kind = "struct" ->
                          Struct(d.name, [i \in 1..Len(d.fields) |-> inner[d.fields[i]]])
                    [] d.kind = "opaque" -> Opaque(d.name, d.qualified)]
    IN  at[Nesting][stored]

RuntimeAll(ds) == [i \in DOMAIN ds |-> RuntimeTypeRef(ds[i])]

ReadableSchema(p) ==
    /\ \A n \in DOMAIN p.structs : Readable(p.structs[n])
    /\ \A g \in ToSet(p.globals) : Readable(g.type)
    /\ \A f \in ToSet(p.functions) : \A d \in ToSet(f.params) \cup ToSet(f.results) :
          Readable(d)

(* runtimeContractSchemaFromPersisted *)
RuntimeSchema(p) ==
    [structs   |-> [n \in DOMAIN p.structs |-> RuntimeTypeRef(p.structs[n])],
     globals   |-> [i \in DOMAIN p.globals |->
                      [p.globals[i] EXCEPT !.type = RuntimeTypeRef(@)]],
     functions |-> [i \in DOMAIN p.functions |->
                      [p.functions[i] EXCEPT !.params = RuntimeAll(@),
                                             !.results = RuntimeAll(@)]]]

(* RuntimeSchemaFromPersisted, of metadata of this build and source, takes *)
(* the schema.                                                             *)
Taken(s, p) == ReadableSchema(p) /\ Finalized(s, RuntimeSchema(p))

---------------------------------------------------------------------------
(* Whatever an admitted contract declares, cycles of structs no state has  *)
(* and parameters of odd types in functions nobody calls included, the     *)
(* schema stored with its design is taken when it is read, and is the one  *)
(* an analysis returns: a node that reads it and a node that analyses      *)
(* execute an operation alike.                                             *)
SchemaSurvivesStorage ==
    verdict = "admitted" =>
        LET p == Persisted(Schema)
        IN  Taken(source, p) /\ RuntimeSchema(p) = Schema
=============================================================================
