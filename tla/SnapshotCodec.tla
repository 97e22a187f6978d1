---------------------------- MODULE SnapshotCodec ----------------------------
(***************************************************************************)
(* The state of a typed contract between operations: captured from the     *)
(* globals of the package when an operation ends, restored into a fresh    *)
(* package when the next one or a query starts.                            *)
(*                                                                         *)
(* A string is a number, its place in the order of byte strings; Invalid   *)
(* are those that are not UTF-8, which json.Marshal writes as Replacement. *)
(* Numbers and booleans (0 and 1) go through decimals and words that read  *)
(* back as the same value, so their data stands for itself; struct fields  *)
(* are known by their place.  The size in bytes is left out: both ends     *)
(* measure the same bytes.                                                 *)
(*                                                                         *)
(* What is done with a value is stated for one value, given what is done   *)
(* with those in it (operators named ...Over), and goes level by level.    *)
(***************************************************************************)
EXTENDS GnoTypes

CONSTANTS
    Schemas,       \* contracts: [structs, globals], globals a sequence of types
    Strings, Invalid, Replacement,
    Numbers,       \* values of int, int64 and uint64
    Null,          \* null of JSON
    MaxLive,       \* bound of the model: entries or items a body puts in one value
    Depth,         \* bound of the model: values in each other
    MaxMapEntries, MaxSliceItems, MaxSnapshotNodes

ASSUME CodecAssumption ==
    /\ Strings \subseteq Nat
    /\ Invalid \subseteq Strings
    /\ Replacement \in Strings \ Invalid
    /\ {MaxLive, Depth, MaxMapEntries, MaxSliceItems, MaxSnapshotNodes} \subseteq Nat
    /\ \A s \in Schemas :
          /\ s.globals \in Seq(Types)
          /\ IsFiniteSet(DOMAIN s.structs)
          /\ \A n \in DOMAIN s.structs :
                s.structs[n] \in Types /\ s.structs[n].kind = "struct"

VARIABLES
    schema,    \* the contract
    snapshot,  \* its captured globals, <<>> before the first operation
    live,      \* the globals of the package of a running operation, or <<>>
    meant,     \* history: the globals snapshot was captured from
    outcome,   \* how the last step ended
    query      \* the last step, if it was a query

codecVars == <<schema, snapshot, live, meant, outcome, query>>

---------------------------------------------------------------------------
(* Values.  The entries of a map are pairs in the order of insertion.      *)

ScalarValue(of, x)     == [kind |-> "scalar", of |-> of, data |-> x]
StructValue(fs)        == [kind |-> "struct", fields |-> fs]
MapValue(isnil, es)    == [kind |-> "map", isnil |-> isnil, entries |-> es]
SliceValue(isnil, vs)  == [kind |-> "slice", isnil |-> isnil, items |-> vs]

NilMap   == MapValue(TRUE, <<>>)
NilSlice == SliceValue(TRUE, <<>>)

Data(scalar) ==
    CASE scalar = "string" -> Strings
      [] scalar = "bool"   -> {0, 1}
      [] OTHER             -> Numbers

ValuesTo[n \in 0..Depth] ==
    IF n = 0 THEN {}
    ELSE LET inner == ValuesTo[n - 1] IN
         [kind : {"scalar"}, of : Scalars, data : Strings \cup Numbers \cup {0, 1}]
           \cup [kind : {"struct"}, fields : Seq(inner)]
           \cup [kind : {"map"}, isnil : BOOLEAN, entries : Seq(Strings \X inner)]
           \cup [kind : {"slice"}, isnil : BOOLEAN, items : Seq(inner)]

(* Over(v, inner) of a value, inner being this function one level down. *)
ByLevel(Over(_, _), value) ==
    LET at[n \in 0..Depth] ==
          IF n = 0 THEN <<>> ELSE [v \in ValuesTo[n] |-> Over(v, at[n - 1])]
    IN  at[Depth][value]

Each(f, vs) == [i \in 1..Len(vs) |-> f[vs[i]]]

EachEntry(f, es) == [i \in 1..Len(es) |-> <<es[i][1], f[es[i][2]]>>]

Products(sets) ==
    LET upto[n \in 0..Len(sets)] ==
          IF n = 0 THEN {<<>>}
          ELSE {Append(s, x) : s \in upto[n - 1], x \in sets[n]}
    IN  upto[Len(sets)]

Upto(S) == UNION {[1..n -> S] : n \in 0..MaxLive}

KeyOrders == {ks \in Upto(Strings) : IsInjective(ks)}

MapOver(ks, vs) == MapValue(FALSE, [i \in 1..Len(ks) |-> <<ks[i], vs[i]>>])

ValuesOver(structs, t, inner) ==
    LET r == ResolveType(structs, t)
    IN  CASE r.kind = "scalar" -> {ScalarValue(r.scalar, x) : x \in Data(r.scalar)}
          [] r.kind = "struct" ->
                {StructValue(fs) : fs \in Products(Each(inner, r.fields))}
          [] r.kind = "map" ->
                {NilMap} \cup UNION
                  {{MapOver(ks, vs) : vs \in [1..Len(ks) -> inner[r.elem]]} :
                     ks \in KeyOrders}
          [] r.kind = "slice" ->
                {NilSlice} \cup {SliceValue(FALSE, vs) : vs \in Upto(inner[r.elem])}
          [] OTHER -> {}

(* What the code of a contract can leave in a variable of a type. *)
Values(structs, type) ==
    LET at[n \in 0..Depth] ==
          [t \in Types |-> IF n = 0 THEN {} ELSE ValuesOver(structs, t, at[n - 1])]
    IN  at[Depth][type]

---------------------------------------------------------------------------
(* What the codec supports, checked on the way at every value.             *)

(* isSupportedSnapshotMapElemType, isSupportedSnapshotSliceElemType *)
ElemSnapshotSupported(structs, t) ==
    IsScalar(structs, t) \/ NamedStructSupported(structs, t)

(* Mutation: a struct has no maps. *)
FieldSnapshotSupportedFlat(structs, t) ==
    \/ ElemSnapshotSupported(structs, t)
    \/ t.kind = "slice" /\ ElemSnapshotSupported(structs, t.elem)

(* validateStructFieldSnapshotType *)
FieldSnapshotSupported(structs, t) ==
    \/ ElemSnapshotSupported(structs, t)
    \/ /\ t.kind = "map"
       /\ ResolveType(structs, t.key) = Scalar("string")
       /\ ElemSnapshotSupported(structs, t.elem)
    \/ t.kind = "slice" /\ ElemSnapshotSupported(structs, t.elem)

ConvertibleOver(structs, t, v, inner) ==
    LET r == ResolveType(structs, t)
    IN  /\ r.kind = v.kind
        /\ CASE r.kind = "scalar" -> r.scalar \in Scalars
             [] r.kind = "struct" ->
                   /\ t.kind = "named"
                   /\ Len(v.fields) = Len(r.fields)
                   /\ \A i \in 1..Len(r.fields) :
                        /\ FieldSnapshotSupported(structs, r.fields[i])
                        /\ <<r.fields[i], v.fields[i]>> \in inner
             [] r.kind = "map" ->
                   /\ ResolveType(structs, r.key) = Scalar("string")
                   /\ ElemSnapshotSupported(structs, r.elem)
                   /\ \A e \in ToSet(v.entries) : <<r.elem, e[2]>> \in inner
             [] r.kind = "slice" ->
                   /\ ElemSnapshotSupported(structs, r.elem)
                   /\ \A x \in ToSet(v.items) : <<r.elem, x>> \in inner
             [] OTHER -> FALSE

(* ExtractSnapshotValue and BuildExpr return no error; they check alike. *)
Convertible(structs, t, v) ==
    LET at[n \in 0..Depth] ==
          IF n = 0 THEN {}
          ELSE {p \in Types \X ValuesTo[n] :
                  ConvertibleOver(structs, p[1], p[2], at[n - 1])}
    IN  <<t, v>> \in at[Depth]

ConvertibleAll(s, vs) ==
    \A i \in 1..Len(vs) : Convertible(s.structs, s.globals[i], vs[i])

---------------------------------------------------------------------------
(* Capture.                                                                *)

(* Mutation: the entries stay in the order of insertion. *)
SortedAsInserted(es) == es

(* The place of the k-th entry by its key. *)
Place(es, k) ==
    Cardinality({j \in 1..Len(es) : \/ es[j][1] < es[k][1]
                                    \/ es[j][1] = es[k][1] /\ j <= k})

Sorted(es) == [i \in 1..Len(es) |-> es[CHOOSE k \in 1..Len(es) : Place(es, k) = i]]

(* Mutation: a nil map is an empty one. *)
ExtractMapOfNil(v, inner) == MapValue(FALSE, Sorted(EachEntry(inner, v.entries)))

(* extractMapSnapshotValue *)
ExtractMap(v, inner) ==
    IF v.isnil THEN NilMap ELSE MapValue(FALSE, Sorted(EachEntry(inner, v.entries)))

ExtractOver(v, inner) ==
    CASE v.kind = "scalar" -> v
      [] v.kind = "struct" -> StructValue(Each(inner, v.fields))
      [] v.kind = "map"    -> ExtractMap(v, inner)
      [] v.kind = "slice"  -> SliceValue(v.isnil, Each(inner, v.items))

(* ExtractSnapshotValue *)
Extract(v) == ByLevel(ExtractOver, v)

Replaced(s) == IF s \in Invalid THEN Replacement ELSE s

MarshalOver(v, inner) ==
    CASE v.kind = "scalar" ->
            IF v.of = "string" THEN ScalarValue(v.of, Replaced(v.data)) ELSE v
      [] v.kind = "struct" -> StructValue(Each(inner, v.fields))
      [] v.kind = "map"    ->
            MapValue(v.isnil, [i \in 1..Len(v.entries) |->
                                 <<Replaced(v.entries[i][1]), inner[v.entries[i][2]]>>])
      [] v.kind = "slice"  -> SliceValue(v.isnil, Each(inner, v.items))

(* json.Marshal; json.Unmarshal reads back what it wrote. *)
Marshal(v) == ByLevel(MarshalOver, v)

AddStats(a, b) == [n \in DOMAIN a |-> a[n] + b[n]]

SumStats(stats) == FoldLeft(AddStats, [nodes |-> 0, entries |-> 0, items |-> 0], stats)

StatsOver(v, inner) ==
    LET Own(entries, items) == [nodes |-> 1, entries |-> entries, items |-> items]
    IN  CASE v.kind = "scalar" -> Own(0, 0)
          [] v.kind = "struct" -> AddStats(Own(0, 0), SumStats(Each(inner, v.fields)))
          [] v.kind = "map"    ->
                AddStats(Own(Len(v.entries), 0),
                         SumStats([i \in 1..Len(v.entries) |-> inner[v.entries[i][2]]]))
          [] v.kind = "slice"  ->
                AddStats(Own(0, Len(v.items)), SumStats(Each(inner, v.items)))

(* accumulateSnapshotValueStats *)
Stats(v) == ByLevel(StatsOver, v)

StatsOf(vs) == SumStats([i \in 1..Len(vs) |-> Stats(vs[i])])

(* ValidateSnapshotLimits *)
WithinLimits(doc) ==
    LET st == StatsOf(doc)
    IN  /\ st.entries <= MaxMapEntries
        /\ st.items <= MaxSliceItems
        /\ st.nodes <= MaxSnapshotNodes

(* Mutation: the last global is left out. *)
CapturedButLast(vs) == [i \in 1..Len(vs) - 1 |-> Marshal(Extract(vs[i]))]

(* CaptureSnapshot *)
Captured(vs) == [i \in 1..Len(vs) |-> Marshal(Extract(vs[i]))]

---------------------------------------------------------------------------
(* Restoring.                                                              *)

(* A key that comes again gets the later value. *)
Assign(es, e) ==
    IF \E i \in 1..Len(es) : es[i][1] = e[1]
    THEN [i \in 1..Len(es) |-> IF es[i][1] = e[1] THEN e ELSE es[i]]
    ELSE Append(es, e)

(* A composite literal of a map, when a key may come twice. *)
Assigned(es) ==
    LET upto[n \in 0..Len(es)] ==
          IF n = 0 THEN <<>> ELSE Assign(upto[n - 1], es[n])
    IN  upto[Len(es)]

BuildOver(v, inner) ==
    CASE v.kind = "scalar" -> v
      [] v.kind = "struct" -> StructValue(Each(inner, v.fields))
      [] v.kind = "map"    ->
            MapValue(v.isnil, Assigned(EachEntry(inner, Sorted(v.entries))))
      [] v.kind = "slice"  -> SliceValue(v.isnil, Each(inner, v.items))

(* BuildExpr, and the value of the expression. *)
Build(v) == ByLevel(BuildOver, v)

Built(doc) == [i \in 1..Len(doc) |-> Build(doc[i])]

KeysDiffer(doc) == StatsOf(Built(doc)).entries = StatsOf(doc).entries

(* RestoreSnapshot; whether the machine takes a literal with the same key  *)
(* twice is not for this code to say.                                      *)
Restorable(doc, lenient) ==
    /\ WithinLimits(doc)
    /\ ConvertibleAll(schema, doc)
    /\ lenient \/ KeysDiffer(doc)

---------------------------------------------------------------------------
NoQuery == [status |-> "none"]

(* Only contracts whose globals are admitted come to be registered. *)
CodecInit ==
    /\ schema \in {s \in Schemas : \A i \in 1..Len(s.globals) :
                                     PersistentTypeSupported(s.structs, s.globals[i])}
    /\ snapshot = <<>> /\ live = <<>> /\ meant = <<>>
    /\ outcome = "done"
    /\ query = NoQuery

(* What the globals of the contract can be. *)
Globals ==
    Products([i \in 1..Len(schema.globals) |->
                Values(schema.structs, schema.globals[i])])

(* Registration: the globals have their initial values. *)
Register ==
    /\ snapshot = <<>> /\ live = <<>>
    /\ live' \in Globals
    /\ outcome' = "running"
    /\ query' = NoQuery
    /\ UNCHANGED <<schema, snapshot, meant>>

Restore ==
    /\ snapshot # <<>> /\ live = <<>>
    /\ \E lenient \in BOOLEAN :
          IF Restorable(snapshot, lenient)
          THEN live' = Built(snapshot) /\ outcome' = "running"
          ELSE live' = <<>> /\ outcome' = "unrestorable"
    /\ query' = NoQuery
    /\ UNCHANGED <<schema, snapshot, meant>>

(* What was called returns; it may have left any values. *)
Return ==
    /\ outcome = "running"
    /\ live' \in Globals
    /\ outcome' = "returned"
    /\ UNCHANGED <<schema, snapshot, meant, query>>

Capture ==
    /\ outcome = "returned"
    /\ IF ~ConvertibleAll(schema, live)
       THEN outcome' = "unsupported" /\ UNCHANGED <<snapshot, meant>>
       ELSE IF WithinLimits(Captured(live))
       THEN snapshot' = Captured(live) /\ meant' = live /\ outcome' = "done"
       ELSE outcome' = "over limit" /\ UNCHANGED <<snapshot, meant>>
    /\ live' = <<>>
    /\ UNCHANGED <<schema, query>>

(* The function returns an error or the operation is given up. *)
Drop ==
    /\ outcome = "running"
    /\ live' = <<>>
    /\ outcome' = "dropped"
    /\ UNCHANGED <<schema, snapshot, meant, query>>

JSONOver(v, inner) ==
    CASE v.kind = "scalar" -> v.data
      [] v.kind = "struct" -> Each(inner, v.fields)
      [] v.kind = "map"    ->
            IF v.isnil THEN Null
            ELSE [k \in {e[1] : e \in ToSet(v.entries)} |->
                    inner[(CHOOSE e \in ToSet(v.entries) : e[1] = k)[2]]]
      [] v.kind = "slice"  -> IF v.isnil THEN Null ELSE Each(inner, v.items)

(* QueryValueToJSONCompatible: a map becomes one of Go, from keys to       *)
(* values, and nil becomes null.                                           *)
JSONCompatible(v) == ByLevel(JSONOver, v)

(* QueryContract: the function reads global i, then leaves v in global j;  *)
(* what it left is compared as it would be captured.                       *)
(* A query leaves nothing behind: one between two operations stands for    *)
(* any number of them.                                                     *)
Query(i, j) ==
    /\ snapshot # <<>> /\ live = <<>> /\ query = NoQuery
    /\ Restorable(snapshot, TRUE)
    /\ LET before == Built(snapshot)
           was    == Captured(before)
       IN  \E v \in Values(schema.structs, schema.globals[j]) :
             LET is == Captured([before EXCEPT ![j] = v])
             IN  query' = [status |-> IF ~WithinLimits(is) THEN "over limit"
                                      ELSE IF is # was THEN "mutated" ELSE "answered",
                           of     |-> i,
                           answer |-> JSONCompatible(Extract(before[i])),
                           wrote  |-> j,
                           value  |-> v]
    /\ outcome' = "done"
    /\ UNCHANGED <<schema, snapshot, live, meant>>

CodecNext ==
    \/ Register \/ Restore \/ Return \/ Capture \/ Drop
    \/ \E i, j \in 1..Len(schema.globals) : Query(i, j)

CodecSpec == CodecInit /\ [][CodecNext]_codecVars

---------------------------------------------------------------------------
TypeOver(structs, t, v, inner) ==
    LET r == ResolveType(structs, t)
    IN  /\ v.kind = r.kind
        /\ CASE r.kind = "scalar" -> v.of = r.scalar /\ v.data \in Data(r.scalar)
             [] r.kind = "struct" ->
                   /\ Len(v.fields) = Len(r.fields)
                   /\ \A i \in 1..Len(r.fields) : <<r.fields[i], v.fields[i]>> \in inner
             [] r.kind = "map" ->
                   \A e \in ToSet(v.entries) : <<r.elem, e[2]>> \in inner
             [] r.kind = "slice" -> \A x \in ToSet(v.items) : <<r.elem, x>> \in inner
             [] OTHER -> FALSE

HasType(structs, t, v) ==
    LET at[n \in 0..Depth] ==
          IF n = 0 THEN {}
          ELSE {p \in Types \X ValuesTo[n] : TypeOver(structs, p[1], p[2], at[n - 1])}
    IN  <<t, v>> \in at[Depth]

(* Globals in memory and in a snapshot have the types of the contract. *)
CodecTypeOK ==
    /\ schema \in Schemas
    /\ \A vs \in {snapshot, live, meant} : vs # <<>> =>
          /\ Len(vs) = Len(schema.globals)
          /\ \A i \in 1..Len(vs) : HasType(schema.structs, schema.globals[i], vs[i])
    /\ outcome \in {"done", "running", "returned", "dropped", "over limit",
                    "unsupported", "unrestorable"}

(* Analyser and codec decide on their own which types they support, and    *)
(* the limits are applied at both ends: the state of an admitted contract  *)
(* is never refused for its types, and what was captured can be restored.  *)
AdmittedIsKept == outcome \notin {"unsupported", "unrestorable"}

SameOver(a, b, inner) ==
    /\ a.kind = b.kind
    /\ CASE a.kind = "scalar" -> a = b
         [] a.kind = "struct" ->
               /\ Len(a.fields) = Len(b.fields)
               /\ \A i \in 1..Len(a.fields) : <<a.fields[i], b.fields[i]>> \in inner
         [] a.kind = "map" ->
               /\ a.isnil = b.isnil
               /\ Len(a.entries) = Len(b.entries)
               /\ \A e \in ToSet(a.entries) : \E d \in ToSet(b.entries) :
                     e[1] = d[1] /\ <<e[2], d[2]>> \in inner
         [] a.kind = "slice" ->
               /\ a.isnil = b.isnil
               /\ Len(a.items) = Len(b.items)
               /\ \A i \in 1..Len(a.items) : <<a.items[i], b.items[i]>> \in inner

(* Equality as a contract can tell it without the order of a map.          *)
SameValue(a, b) ==
    LET at[n \in 0..Depth] ==
          IF n = 0 THEN {}
          ELSE {p \in ValuesTo[n] \X ValuesTo[n] : SameOver(p[1], p[2], at[n - 1])}
    IN  <<a, b>> \in at[Depth]

(* An operation starts from the globals the last successful one left, with *)
(* nil still apart from empty, however deep and in whatever order the keys *)
(* of a map were inserted.                                                 *)
RestoreIsFaithful ==
    [][live = <<>> /\ snapshot # <<>> /\ live' # <<>> =>
          \A i \in 1..Len(meant) : SameValue(live'[i], meant[i])]_codecVars

(* Query-API.md: a query answers with the state the last operation left    *)
(* and is refused exactly when it leaves another one, which the comparison *)
(* of snapshots has to tell from a map that was rebuilt in another order.  *)
QueriesTellTheState ==
    query.status # "none" =>
        /\ query.status = "answered" =>
              /\ query.answer = JSONCompatible(meant[query.of])
              /\ SameValue(query.value, meant[query.wrote])
        /\ query.status = "mutated" => ~SameValue(query.value, meant[query.wrote])

StringsOver(v, inner) ==
    CASE v.kind = "scalar" -> IF v.of = "string" THEN {v.data} ELSE {}
      [] v.kind = "struct" -> UNION ToSet(Each(inner, v.fields))
      [] v.kind = "map"    -> UNION {{e[1]} \cup inner[e[2]] : e \in ToSet(v.entries)}
      [] v.kind = "slice"  -> UNION ToSet(Each(inner, v.items))

StringsIn(v) == ByLevel(StringsOver, v)

(* Contract-language-support.md:322 lists string among the types of state: *)
(* a string a contract keeps is the string it finds again.                 *)
StringsSurvive ==
    [][live = <<>> /\ snapshot # <<>> /\ live' # <<>> =>
          \A i \in 1..Len(meant) : StringsIn(live'[i]) = StringsIn(meant[i])]_codecVars
=============================================================================
