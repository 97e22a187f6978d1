---------------------------- MODULE SchemaStore ----------------------------
(***************************************************************************)
(* Where the schema of a contract comes from.                              *)
(*                                                                         *)
(* Analysing a source is expensive, so a process keeps what it analysed in *)
(* a cache by the hash of the source, and a registration stores the schema *)
(* with the design.  Registrations, calls and queries of many goroutines   *)
(* share the cache; nodes share the designs, and may run different builds. *)
(* A build is known by the version of the metadata format and the version  *)
(* of the rule set, which fixes what an analysis returns                   *)
(* (schema_ruleset.go: the version is bumped when the meaning changes).    *)
(***************************************************************************)
EXTENDS Naturals, FiniteSets

CONSTANTS
    Node,
    Worker,    \* goroutines of a node that need schemas
    Contract,
    Source,
    Ruleset,   \* rule set versions
    Format,    \* metadata format versions
    Schema,
    Analysis,  \* what AnalyzeContractSchema returns under each rule set
    Refused,   \* ... for a source it refuses
    Absent     \* no schema, no design, no metadata

Build == [format : Format, ruleset : Ruleset]

ASSUME SchemaStoreAssumption ==
    /\ Analysis \in [Ruleset -> [Source -> Schema \cup {Refused}]]
    /\ Refused \notin Schema
    /\ Absent \notin Schema \cup {Refused}
    /\ Absent \notin [format : Format, ruleset : Ruleset, hash : Source,
                      schema : Schema]

ASSUME DesignAssumption ==
    Absent \notin [source : Source,
                   meta : [format : Format, ruleset : Ruleset, hash : Source,
                           schema : Schema] \cup {Absent}]

ASSUME WorkersAreFinite == IsFiniteSet(Worker)

VARIABLES
    build,    \* the build each node runs
    cache,    \* contractSchemaCache of each node
    design,   \* the design of each contract, on the chain
    task,     \* what each goroutine does
    analyses  \* history: how often a process analysed a source it admitted

vars == <<build, cache, design, task, analyses>>

(* PersistedContractSchema *)
Metadata == [format : Format, ruleset : Ruleset, hash : Source, schema : Schema]

Design == [source : Source, meta : Metadata \cup {Absent}]

Goroutine == Node \X Worker

Idle == [stage |-> "idle"]

EmptyCache == [s \in Source |-> Absent]

(* Designs of before metadata was stored decode with none. *)
Init ==
    /\ build \in [Node -> Build]
    /\ cache = [n \in Node |-> EmptyCache]
    /\ design \in [Contract ->
                     {Absent} \cup [source : Source, meta : {Absent}]]
    /\ task = [g \in Goroutine |-> Idle]
    /\ analyses = [n \in Node |-> [s \in Source |-> 0]]

---------------------------------------------------------------------------

Task(stage, c, s, meta, schema) ==
    [stage |-> stage, contract |-> c, source |-> s, meta |-> meta,
     schema |-> schema]

(* A registration validates its source without any metadata. *)
BeginRegistration(g, c, s) ==
    /\ task[g].stage = "idle"
    /\ design[c] = Absent
    /\ task' = [task EXCEPT ![g] = Task("lookup", c, s, Absent, Absent)]
    /\ UNCHANGED <<build, cache, design, analyses>>

(* A call or a query reads the design with what is stored next to it. *)
BeginUse(g, c) ==
    /\ task[g].stage = "idle"
    /\ design[c] # Absent
    /\ task' = [task EXCEPT ![g] =
                  Task("verify", c, design[c].source, design[c].meta, Absent)]
    /\ UNCHANGED <<build, cache, design, analyses>>

(* Mutation: metadata of any rule set is taken. *)
UsableAnyRuleset(b, s, meta) ==
    /\ meta # Absent
    /\ meta.format = b.format
    /\ meta.hash = s

Usable(b, s, meta) ==
    /\ meta # Absent
    /\ meta.format = b.format
    /\ meta.ruleset = b.ruleset
    /\ meta.hash = s

(* Only the format it was written in says how metadata is to be read. *)
Read(b, meta) == IF meta.format = b.format THEN {meta.schema} ELSE Schema

(* RuntimeSchemaFromPersisted: usable metadata goes into the cache, other  *)
(* metadata is ignored.                                                    *)
Verify(g) ==
    LET n == g[1]
        s == task[g].source IN
    /\ task[g].stage = "verify"
    /\ IF Usable(build[n], s, task[g].meta)
       THEN \E schema \in Read(build[n], task[g].meta) :
               /\ cache' = [cache EXCEPT ![n][s] = schema]
               /\ task' = [task EXCEPT ![g].stage = "resolved",
                                       ![g].schema = schema]
       ELSE /\ task' = [task EXCEPT ![g].stage = "lookup"]
            /\ UNCHANGED cache
    /\ UNCHANGED <<build, design, analyses>>

Lookup(g) ==
    LET found == cache[g[1]][task[g].source] IN
    /\ task[g].stage = "lookup"
    /\ task' = IF found # Absent
               THEN [task EXCEPT ![g].stage = "resolved", ![g].schema = found]
               ELSE [task EXCEPT ![g].stage = "analyse"]
    /\ UNCHANGED <<build, cache, design, analyses>>

(* Mutation: a refusal is remembered like a schema.                        *)
AnalyseStoresRefusals(g) ==
    LET n == g[1]
        s == task[g].source IN
    /\ task[g].stage = "analyse"
    /\ task' = [task EXCEPT ![g].stage = "store",
                            ![g].schema = Analysis[build[n].ruleset][s]]
    /\ analyses' = [analyses EXCEPT ![n][s] = @ + 1]
    /\ UNCHANGED <<build, cache, design>>

(* A refusal is returned, and not remembered. *)
Analyse(g) ==
    LET n == g[1]
        s == task[g].source
        result == Analysis[build[n].ruleset][s] IN
    /\ task[g].stage = "analyse"
    /\ task' = [task EXCEPT ![g].stage = IF result = Refused THEN "resolved"
                                                             ELSE "store",
                            ![g].schema = result]
    /\ analyses' = IF result = Refused THEN analyses
                   ELSE [analyses EXCEPT ![n][s] = @ + 1]
    /\ UNCHANGED <<build, cache, design>>

(* Mutation: what was analysed does not reach the cache. *)
StoreForgotten(g) ==
    /\ task[g].stage = "store"
    /\ task' = [task EXCEPT ![g].stage = "resolved"]
    /\ UNCHANGED <<build, cache, design, analyses>>

Store(g) ==
    /\ task[g].stage = "store"
    /\ cache' = [cache EXCEPT ![g[1]][task[g].source] = task[g].schema]
    /\ task' = [task EXCEPT ![g].stage = "resolved"]
    /\ UNCHANGED <<build, design, analyses>>

(* NewPersistedContractSchema *)
NewPersisted(b, s, schema) ==
    [format |-> b.format, ruleset |-> b.ruleset, hash |-> s, schema |-> schema]

(* A registration whose source was admitted is saved with its metadata. *)
Deploy(g) ==
    LET t == task[g] IN
    /\ t.stage = "resolved"
    /\ t.schema # Refused
    /\ design[t.contract] = Absent
    /\ design' = [design EXCEPT ![t.contract] =
                    [source |-> t.source,
                     meta |-> NewPersisted(build[g[1]], t.source, t.schema)]]
    /\ task' = [task EXCEPT ![g] = Idle]
    /\ UNCHANGED <<build, cache, analyses>>

(* A call or a query, a refused registration, or one that fails or is not  *)
(* part of a saved block.                                                  *)
Return(g) ==
    /\ task[g].stage = "resolved"
    /\ task' = [task EXCEPT ![g] = Idle]
    /\ UNCHANGED <<build, cache, design, analyses>>

Restarted(n, b) ==
    /\ build' = [build EXCEPT ![n] = b]
    /\ task' = [g \in Goroutine |-> IF g[1] = n THEN Idle ELSE task[g]]
    /\ analyses' = [analyses EXCEPT ![n] = [s \in Source |-> 0]]
    /\ UNCHANGED design

(* Mutation: what was analysed outlives a change of the rule set.          *)
RestartKeepsCache(n, b) == Restarted(n, b) /\ UNCHANGED cache

(* A node stops at any time and comes back, maybe with another build; the  *)
(* cache ends with the process.                                            *)
Restart(n, b) ==
    /\ Restarted(n, b)
    /\ cache' = [cache EXCEPT ![n] = EmptyCache]

Step(g) ==
    \/ \E c \in Contract, s \in Source : BeginRegistration(g, c, s)
    \/ \E c \in Contract : BeginUse(g, c)
    \/ Verify(g)
    \/ Lookup(g)
    \/ Analyse(g)
    \/ Store(g)
    \/ Deploy(g)
    \/ Return(g)

Next ==
    \/ \E g \in Goroutine : Step(g)
    \/ \E n \in Node, b \in Build : Restart(n, b)

Spec == Init /\ [][Next]_vars

---------------------------------------------------------------------------
TaskType ==
    {Idle} \cup
    [stage    : {"verify", "lookup", "analyse", "store", "resolved"},
     contract : Contract,
     source   : Source,
     meta     : Metadata \cup {Absent},
     schema   : Schema \cup {Refused, Absent}]

(* Every variable stays in its type. *)
TypeOK ==
    /\ build \in [Node -> Build]
    /\ cache \in [Node -> [Source -> Schema \cup {Absent}]]
    /\ design \in [Contract -> Design \cup {Absent}]
    /\ task \in [Goroutine -> TaskType]
    /\ analyses \in [Node -> [Source -> Nat]]

(* Wherever the schema came from (the metadata of a registration that      *)
(* another node with another build made, the cache, an analysis), an       *)
(* operation or a query works with what an analysis by its own node would  *)
(* return at that moment.  Hence nodes with one rule set decide alike,     *)
(* whatever their caches hold.                                             *)
SchemaIsAnalysed ==
    \A g \in Goroutine : task[g].stage = "resolved" =>
        task[g].schema = Analysis[build[g[1]].ruleset][task[g].source]

(* A process does not analyse an admitted source over and over: once for   *)
(* every goroutine that was looking before the first result was stored.    *)
AnalysedOnce ==
    \A n \in Node, s \in Source :
        /\ analyses[n][s] <= Cardinality(Worker)
        /\ analyses[n][s] > 0 =>
              \/ cache[n][s] # Absent
              \/ \E w \in Worker : /\ task[<<n, w>>].stage = "store"
                                   /\ task[<<n, w>>].source = s
=============================================================================
