------------------------- MODULE SchemaStore_proofs -------------------------
(***************************************************************************)
(* Whatever the caches and the designs hold, a schema in use is the one an *)
(* analysis would return: for any number of nodes, goroutines, contracts,  *)
(* sources, builds and restarts.                                           *)
(***************************************************************************)
EXTENDS SchemaStore, FiniteSetTheorems, TLAPS

(* What an analysis by the node of goroutine g returns for its source. *)
Result(g) == Analysis[build[g[1]].ruleset][task[g].source]

(* Metadata tells what the rule set that made it says of its source. *)
MetadataSound(meta) ==
    meta # Absent => meta.schema = Analysis[meta.ruleset][meta.hash]

CacheSound ==
    \A n \in Node, s \in Source :
        cache[n][s] # Absent => cache[n][s] = Analysis[build[n].ruleset][s]

DesignSound ==
    \A c \in Contract : design[c] # Absent => MetadataSound(design[c].meta)

TaskSound ==
    \A g \in Goroutine :
        /\ task[g].stage = "verify" => MetadataSound(task[g].meta)
        /\ task[g].stage = "store" =>
              task[g].schema = Result(g) /\ task[g].schema # Refused
        /\ task[g].stage = "resolved" => task[g].schema = Result(g)

(* Metadata and refusals must be known to be right before they are used,   *)
(* so the types alone are not inductive: what goes into the cache is a     *)
(* schema only because a refusal is never stored.                          *)
IInv == TypeOK /\ CacheSound /\ DesignSound /\ TaskSound

(* A goroutine at work that reaches another stage with another schema. *)
LEMMA Advance ==
    ASSUME NEW t \in TaskType, t.stage # "idle",
           NEW stage \in {"analyse", "store", "resolved"},
           NEW schema \in Schema \cup {Refused},
           NEW u, u = [t EXCEPT !.stage = stage, !.schema = schema]
    PROVE  u \in TaskType
<1> DEFINE Busy ==
             [stage    : {"verify", "lookup", "analyse", "store", "resolved"},
              contract : Contract,
              source   : Source,
              meta     : Metadata \cup {Absent},
              schema   : Schema \cup {Refused, Absent}]
<1>1. t \in Busy
  BY DEF TaskType, Idle
<1>2. stage \in {"verify", "lookup", "analyse", "store", "resolved"}
  OBVIOUS
<1>3. schema \in Schema \cup {Refused, Absent}
  OBVIOUS
<1>4. u \in Busy
  BY <1>1, <1>2, <1>3
<1> QED BY <1>4 DEF TaskType

(* A goroutine that comes by what its build returns has a sound task. *)
LEMMA ResolvedIsSound ==
    ASSUME TypeOK, TaskSound, NEW g \in Goroutine, task[g].stage # "idle",
           NEW schema, schema = Result(g),
           task' = [task EXCEPT ![g].stage = "resolved", ![g].schema = schema],
           UNCHANGED build
    PROVE  TaskSound'
<1>1. task[g] \in TaskType
  BY DEF TypeOK
<1>2. task'[g] = [task[g] EXCEPT !.stage = "resolved", !.schema = schema]
  BY DEF TypeOK
<1>3. task'[g].stage = "resolved" /\ task'[g].schema = schema
      /\ task'[g].source = task[g].source
  <2> DEFINE t == task[g]
             u == task'[g]
  <2>1. u = [t EXCEPT !.stage = "resolved", !.schema = schema]
    BY <1>2
  <2>2. DOMAIN t = {"stage", "contract", "source", "meta", "schema"}
    BY <1>1 DEF TaskType, Idle
  <2> HIDE DEF t, u
  <2>3. u.stage = "resolved" /\ u.schema = schema /\ u.source = t.source
    BY <2>1, <2>2
  <2> QED BY <2>3 DEF t, u
<1>4. \A h \in Goroutine \ {g} : task'[h] = task[h]
  BY DEF TypeOK
<1>5. Result(g)' = Result(g) /\ \A h \in Goroutine \ {g} : Result(h)' = Result(h)
  BY <1>3, <1>4 DEF Result
<1> QED BY <1>3, <1>4, <1>5 DEF TaskSound, MetadataSound

(* What the rule sets return. *)
LEMMA AnalysisType ==
    \A b \in Build, s \in Source :
        Analysis[b.ruleset][s] \in Schema \cup {Refused}
BY SchemaStoreAssumption DEF Build

LEMMA SoundInit == Init => IInv
BY SchemaStoreAssumption
   DEF Init, IInv, TypeOK, CacheSound, DesignSound, TaskSound, MetadataSound,
       EmptyCache, Idle, TaskType, Design, Metadata

(* Goroutines that are not part of a step keep what they have. *)
LEMMA SoundStep ==
    ASSUME IInv, NEW g \in Goroutine, Step(g)
    PROVE  IInv'
<1> USE DEF IInv
<1>0. g[1] \in Node /\ build[g[1]] \in Build
  BY DEF Goroutine, TypeOK
<1>1. ASSUME NEW c \in Contract, NEW s \in Source, BeginRegistration(g, c, s)
      PROVE  IInv'
  <2>1. TypeOK'
    BY <1>1 DEF BeginRegistration, Task, TypeOK, TaskType, Goroutine
  <2>2. CacheSound' /\ DesignSound'
    BY <1>1 DEF BeginRegistration, CacheSound, DesignSound, MetadataSound
  <2>3. TaskSound'
    BY <1>1 DEF BeginRegistration, Task, TypeOK, TaskSound, Result,
                MetadataSound
  <2> QED BY <2>1, <2>2, <2>3
<1>2. ASSUME NEW c \in Contract, BeginUse(g, c)
      PROVE  IInv'
  <2>1. TypeOK'
    BY <1>2 DEF BeginUse, Task, TypeOK, TaskType, Design
  <2>2. CacheSound' /\ DesignSound'
    BY <1>2 DEF BeginUse, CacheSound, DesignSound, MetadataSound
  <2>3. TaskSound'
    BY <1>2 DEF BeginUse, Task, TypeOK, TaskSound, DesignSound, Result,
                MetadataSound
  <2> QED BY <2>1, <2>2, <2>3
<1>3. ASSUME Verify(g)
      PROVE  IInv'
  <2>1. CASE Usable(build[g[1]], task[g].source, task[g].meta)
    <3> DEFINE s == task[g].source
               schema == task[g].meta.schema
    <3>1. task[g] \in TaskType /\ task[g].stage = "verify"
      BY <1>3 DEF Verify, TypeOK
    <3>2. s \in Source /\ task[g].meta \in Metadata
      BY <2>1, <3>1 DEF TaskType, Idle, Usable
    <3>3. schema \in Schema /\ schema = Analysis[build[g[1]].ruleset][s]
      BY <2>1, <3>1, <3>2 DEF TaskSound, MetadataSound, Usable, Metadata
    <3>4. /\ cache' = [cache EXCEPT ![g[1]][s] = schema]
          /\ task' = [task EXCEPT ![g].stage = "resolved",
                                  ![g].schema = schema]
      BY <1>3, <2>1 DEF Verify, Read, Usable
    <3>5. UNCHANGED <<build, design, analyses>>
      BY <1>3 DEF Verify
    <3>6. task'[g] = [task[g] EXCEPT !.stage = "resolved", !.schema = schema]
      BY <3>4 DEF TypeOK
    <3>7. task'[g] \in TaskType
      <4> HIDE DEF schema
      <4> QED BY <3>1, <3>3, <3>6, Advance, ZenonT(20)
    <3>8. TypeOK'
      BY <1>0, <3>2, <3>3, <3>4, <3>5, <3>7 DEF TypeOK
    <3>9. CacheSound'
      BY <1>0, <3>2, <3>3, <3>4, <3>5 DEF CacheSound, TypeOK
    <3>10. TaskSound'
      BY <3>1, <3>3, <3>4, <3>5, ResolvedIsSound DEF Result
    <3>11. DesignSound'
      BY <3>5 DEF DesignSound, MetadataSound
    <3> QED BY <3>8, <3>9, <3>10, <3>11
  <2>2. CASE ~Usable(build[g[1]], task[g].source, task[g].meta)
    <3>1. /\ task' = [task EXCEPT ![g].stage = "lookup"]
          /\ UNCHANGED <<cache, build, design, analyses>>
      BY <1>3, <2>2 DEF Verify
    <3>2. task[g].stage = "verify" /\ task[g] \in TaskType
      BY <1>3 DEF Verify, TypeOK
    <3>3. task'[g] = [task[g] EXCEPT !.stage = "lookup"]
      BY <3>1 DEF TypeOK
    <3>4. task'[g] \in TaskType
      BY <3>2, <3>3 DEF TaskType, Idle
    <3>5. TypeOK'
      BY <3>1, <3>4 DEF TypeOK
    <3>6. TaskSound'
      BY <3>1, <3>2, <3>3
         DEF TaskSound, TypeOK, TaskType, Idle, Result, MetadataSound
    <3> QED BY <3>1, <3>5, <3>6 DEF CacheSound, DesignSound, MetadataSound
  <2> QED BY <2>1, <2>2
<1>4. ASSUME Lookup(g)
      PROVE  IInv'
  <2> DEFINE found == cache[g[1]][task[g].source]
  <2>1. task[g].stage = "lookup" /\ task[g] \in TaskType
    BY <1>4 DEF Lookup, TypeOK
  <2>2. UNCHANGED <<build, cache, design, analyses>>
    BY <1>4 DEF Lookup
  <2>3. CASE found # Absent
    <3>1. task' = [task EXCEPT ![g].stage = "resolved", ![g].schema = found]
      BY <1>4, <2>3 DEF Lookup
    <3>2. task[g].source \in Source
      BY <2>1 DEF TaskType, Idle
    <3>3. found \in Schema /\ found = Result(g)
      BY <1>0, <2>3, <3>2 DEF TypeOK, CacheSound, Result
    <3>4. task'[g] = [task[g] EXCEPT !.stage = "resolved", !.schema = found]
      BY <3>1 DEF TypeOK
    <3>5. task'[g] \in TaskType
      <4> HIDE DEF found
      <4> QED BY <2>1, <3>3, <3>4, Advance, ZenonT(20)
    <3>6. TypeOK'
      BY <2>2, <3>1, <3>5 DEF TypeOK
    <3>7. TaskSound'
      BY <2>1, <2>2, <3>1, <3>3, ResolvedIsSound
    <3> QED BY <2>2, <3>6, <3>7 DEF CacheSound, DesignSound, MetadataSound
  <2>4. CASE found = Absent
    <3>1. task' = [task EXCEPT ![g].stage = "analyse"]
      BY <1>4, <2>4 DEF Lookup
    <3>2. task'[g] = [task[g] EXCEPT !.stage = "analyse"]
      BY <3>1 DEF TypeOK
    <3>3. task'[g] \in TaskType
      BY <2>1, <3>2 DEF TaskType, Idle
    <3>4. TypeOK'
      BY <2>2, <3>1, <3>3 DEF TypeOK
    <3>5. TaskSound'
      BY <2>1, <2>2, <3>1, <3>2
         DEF TaskSound, TypeOK, TaskType, Idle, Result, MetadataSound
    <3> QED BY <2>2, <3>4, <3>5 DEF CacheSound, DesignSound, MetadataSound
  <2> QED BY <2>3, <2>4
<1>5. ASSUME Analyse(g)
      PROVE  IInv'
  <2> DEFINE result == Result(g)
             stage == IF result = Refused THEN "resolved" ELSE "store"
  <2>1. task[g].stage = "analyse" /\ task[g] \in TaskType
    BY <1>5 DEF Analyse, TypeOK
  <2>2. task[g].source \in Source
    BY <2>1 DEF TaskType, Idle
  <2>3. result \in Schema \cup {Refused}
    BY <1>0, <2>2, AnalysisType DEF Result
  <2>4. /\ task' = [task EXCEPT ![g].stage = stage, ![g].schema = result]
        /\ UNCHANGED <<build, cache, design>>
    BY <1>5 DEF Analyse, Result
  <2>5. analyses' \in [Node -> [Source -> Nat]]
    <3>1. CASE result = Refused
      BY <1>5, <3>1 DEF Analyse, Result, TypeOK
    <3>2. CASE result # Refused
      <4>1. analyses' = [analyses EXCEPT ![g[1]][task[g].source] = @ + 1]
        BY <1>5, <3>2 DEF Analyse, Result
      <4> QED BY <1>0, <2>2, <4>1 DEF TypeOK
    <3> QED BY <3>1, <3>2
  <2>6. task'[g] = [task[g] EXCEPT !.stage = stage, !.schema = result]
    BY <2>4 DEF TypeOK
  <2>7. task'[g] \in TaskType
    <3>1. stage \in {"analyse", "store", "resolved"}
      OBVIOUS
    <3> HIDE DEF stage, result
    <3> QED BY <2>1, <2>3, <2>6, <3>1, Advance, ZenonT(20)
  <2>8. TypeOK'
    BY <2>4, <2>5, <2>7 DEF TypeOK
  <2>9. TaskSound'
    <3>1. /\ task'[g].stage = stage
          /\ task'[g].schema = result
          /\ task'[g].source = task[g].source
      BY <2>1, <2>6 DEF TaskType, Idle
    <3>2. \A h \in Goroutine \ {g} : task'[h] = task[h]
      BY <2>4 DEF TypeOK
    <3>3. build' = build
      BY <2>4
    <3> QED BY <2>1, <3>1, <3>2, <3>3 DEF TaskSound, Result, MetadataSound
  <2> QED BY <2>4, <2>8, <2>9 DEF CacheSound, DesignSound, MetadataSound
<1>6. ASSUME Store(g)
      PROVE  IInv'
  <2>1. task[g].stage = "store" /\ task[g] \in TaskType
    BY <1>6 DEF Store, TypeOK
  <2>2. task[g].source \in Source
    BY <2>1 DEF TaskType, Idle
  <2>3. task[g].schema = Result(g) /\ task[g].schema \in Schema
    BY <1>0, <2>1, <2>2, AnalysisType DEF TaskSound, Result
  <2>4. /\ cache' = [cache EXCEPT ![g[1]][task[g].source] = task[g].schema]
        /\ task' = [task EXCEPT ![g].stage = "resolved"]
        /\ UNCHANGED <<build, design, analyses>>
    BY <1>6 DEF Store
  <2>5. task'[g] = [task[g] EXCEPT !.stage = "resolved"]
    BY <2>4 DEF TypeOK
  <2>6. task'[g] \in TaskType
    BY <2>1, <2>5 DEF TaskType, Idle
  <2>7. TypeOK'
    BY <1>0, <2>2, <2>3, <2>4, <2>6 DEF TypeOK
  <2>8. CacheSound'
    BY <1>0, <2>2, <2>3, <2>4 DEF CacheSound, TypeOK, Result
  <2>9. TaskSound'
    BY <2>1, <2>3, <2>4, <2>5
       DEF TaskSound, TypeOK, TaskType, Idle, Result, MetadataSound
  <2> QED BY <2>4, <2>7, <2>8, <2>9 DEF DesignSound, MetadataSound
<1>7. ASSUME Deploy(g)
      PROVE  IInv'
  <2> DEFINE t == task[g]
             b == build[g[1]]
             meta == NewPersisted(b, t.source, t.schema)
  <2>1. t.stage = "resolved" /\ t \in TaskType /\ t.schema # Refused
    BY <1>7 DEF Deploy, TypeOK
  <2>2. t.source \in Source /\ t.contract \in Contract
    BY <2>1 DEF TaskType, Idle
  <2>3. t.schema = Analysis[b.ruleset][t.source] /\ t.schema \in Schema
    BY <1>0, <2>1, <2>2, AnalysisType DEF TaskSound, Result
  <2>4. meta \in Metadata /\ MetadataSound(meta)
    BY <1>0, <2>2, <2>3 DEF NewPersisted, Metadata, MetadataSound, Build
  <2>5. /\ design' = [design EXCEPT ![t.contract] =
                        [source |-> t.source, meta |-> meta]]
        /\ task' = [task EXCEPT ![g] = Idle]
        /\ UNCHANGED <<build, cache, analyses>>
    BY <1>7 DEF Deploy
  <2>6. TypeOK'
    BY <2>2, <2>4, <2>5 DEF TypeOK, Design, TaskType
  <2>7. DesignSound'
    BY <2>2, <2>4, <2>5 DEF DesignSound, TypeOK, MetadataSound
  <2>8. TaskSound'
    BY <2>5 DEF TaskSound, TypeOK, Idle, Result, MetadataSound
  <2> QED BY <2>5, <2>6, <2>7, <2>8 DEF CacheSound
<1>8. ASSUME Return(g)
      PROVE  IInv'
  <2>1. TypeOK'
    BY <1>8 DEF Return, TypeOK, TaskType
  <2>2. TaskSound'
    BY <1>8 DEF Return, TaskSound, TypeOK, Idle, Result, MetadataSound
  <2> QED BY <1>8, <2>1, <2>2
             DEF Return, CacheSound, DesignSound, MetadataSound
<1> QED BY <1>1, <1>2, <1>3, <1>4, <1>5, <1>6, <1>7, <1>8 DEF Step

(* A restart drops all that was made with the old build but the designs,   *)
(* whose metadata carries the versions it was made with.                   *)
LEMMA SoundRestart ==
    ASSUME IInv, NEW n \in Node, NEW b \in Build, Restart(n, b)
    PROVE  IInv'
<1> USE DEF IInv, Restart, Restarted
<1>1. TypeOK'
  BY DEF TypeOK, TaskType, EmptyCache
<1>2. CacheSound'
  BY DEF TypeOK, CacheSound, EmptyCache
<1>3. DesignSound'
  BY DEF DesignSound, MetadataSound
<1>4. TaskSound'
  BY DEF TaskSound, TypeOK, Idle, Result, MetadataSound, Goroutine
<1> QED BY <1>1, <1>2, <1>3, <1>4

LEMMA SoundNext == IInv /\ [Next]_vars => IInv'
<1> SUFFICES ASSUME IInv, [Next]_vars PROVE IInv'
  OBVIOUS
<1>1. CASE UNCHANGED vars
  BY <1>1 DEF vars, IInv, TypeOK, CacheSound, DesignSound, TaskSound, Result,
              MetadataSound
<1>2. CASE Next
  BY <1>2, SoundStep, SoundRestart DEF Next
<1> QED BY <1>1, <1>2

LEMMA Invariance == Spec => []IInv
BY SoundInit, SoundNext, PTL DEF Spec

(* The variables stay in their types; in particular no refusal is cached   *)
(* or stored with a design.                                                *)
THEOREM TypeCorrect == Spec => []TypeOK
BY Invariance, PTL DEF IInv

(* A schema that an operation or a query works with is the one its node    *)
(* would obtain by analysing the source, wherever it was found.            *)
THEOREM AnalysedSchemas == Spec => []SchemaIsAnalysed
<1>1. IInv => SchemaIsAnalysed
  BY DEF IInv, TaskSound, SchemaIsAnalysed, Result
<1> QED BY <1>1, Invariance, PTL

---------------------------------------------------------------------------
(* Goroutines of a node that are analysing a source, and that have analysed *)
(* it but not stored the result yet.                                       *)
At(stage, n, s) ==
    {w \in Worker : task[<<n, w>>].stage = stage /\ task[<<n, w>>].source = s}

Analysing(n, s) == At("analyse", n, s)
Storing(n, s)   == At("store", n, s)

(* Who is about to analyse counts: when the cache holds the schema, nobody *)
(* joins them.  Until then all that analysed are still to store.           *)
FewAnalyses ==
    \A n \in Node, s \in Source :
        /\ analyses[n][s] + Cardinality(Analysing(n, s)) <= Cardinality(Worker)
        /\ cache[n][s] = Absent => analyses[n][s] = Cardinality(Storing(n, s))

LEMMA AtFinite ==
    \A stage, n, s :
        /\ IsFiniteSet(At(stage, n, s))
        /\ Cardinality(At(stage, n, s)) \in Nat
        /\ Cardinality(At(stage, n, s)) <= Cardinality(Worker)
<1> SUFFICES ASSUME NEW stage, NEW n, NEW s
             PROVE  /\ IsFiniteSet(At(stage, n, s))
                    /\ Cardinality(At(stage, n, s)) \in Nat
                    /\ Cardinality(At(stage, n, s)) <= Cardinality(Worker)
  OBVIOUS
<1>1. At(stage, n, s) \in SUBSET Worker
  BY DEF At
<1> QED BY <1>1, WorkersAreFinite, FS_Subset, FS_CardinalityType

(* No goroutine is at two stages. *)
LEMMA TogetherAtMostAll ==
    ASSUME NEW n, NEW s
    PROVE  Cardinality(Analysing(n, s)) + Cardinality(Storing(n, s))
             <= Cardinality(Worker)
<1> DEFINE A == Analysing(n, s)
           B == Storing(n, s)
<1>1. IsFiniteSet(A) /\ IsFiniteSet(B)
  BY AtFinite DEF Analysing, Storing
<1>2. A \cap B = {} /\ A \cup B \in SUBSET Worker
  BY DEF Analysing, Storing, At
<1> HIDE DEF A, B
<1>3. Cardinality(A \cup B) = Cardinality(A) + Cardinality(B) - Cardinality(A \cap B)
  BY <1>1, FS_Union
<1>4. Cardinality(A \cap B) = 0
  BY <1>2, FS_EmptySet
<1>5. Cardinality(A \cup B) <= Cardinality(Worker)
  BY <1>2, WorkersAreFinite, FS_Subset
<1>6. Cardinality(A) \in Nat /\ Cardinality(B) \in Nat
  BY <1>1, FS_CardinalityType
<1>7. Cardinality(A) + Cardinality(B) <= Cardinality(Worker)
  BY <1>3, <1>4, <1>5, <1>6
<1> QED BY <1>7 DEF A, B

(* A goroutine that neither begins nor ends an analysis or a store. *)
LEMMA OthersKeep ==
    ASSUME IInv, NEW g \in Goroutine, NEW t, task' = [task EXCEPT ![g] = t],
           NEW stage, task[g].stage # stage, t.stage # stage
    PROVE  \A n \in Node, s \in Source : At(stage, n, s)' = At(stage, n, s)
<1>1. \A n \in Node, w \in Worker :
          task'[<<n, w>>] = IF <<n, w>> = g THEN t ELSE task[<<n, w>>]
  BY DEF IInv, TypeOK, Goroutine
<1> QED BY <1>1 DEF At

Becomes(g, t) == task' = [task EXCEPT ![g] = t]

(* What a step of one goroutine does to the tasks of a node. *)
LEMMA Moves ==
    ASSUME IInv, NEW g \in Goroutine, NEW t, Becomes(g, t)
    PROVE  /\ g[1] \in Node /\ g[2] \in Worker
           /\ task[<<g[1], g[2]>>] = task[g]
           /\ \A n \in Node, w \in Worker :
                  task'[<<n, w>>] = IF n = g[1] /\ w = g[2] THEN t
                                    ELSE task[<<n, w>>]
<1>1. g[1] \in Node /\ g[2] \in Worker /\ g = <<g[1], g[2]>>
  BY DEF Goroutine
<1>2. \A n \in Node, w \in Worker :
          task'[<<n, w>>] = IF <<n, w>> = g THEN t ELSE task[<<n, w>>]
  BY DEF Becomes, IInv, TypeOK, Goroutine
<1>3. \A n \in Node, w \in Worker : <<n, w>> = g <=> n = g[1] /\ w = g[2]
  BY <1>1
<1> QED BY <1>1, <1>2, <1>3

LEMMA FewInit == Init => FewAnalyses
<1> SUFFICES ASSUME Init, NEW n \in Node, NEW s \in Source
             PROVE  /\ analyses[n][s] + Cardinality(Analysing(n, s))
                         <= Cardinality(Worker)
                    /\ analyses[n][s] = Cardinality(Storing(n, s))
  BY DEF FewAnalyses
<1>1. Analysing(n, s) = {} /\ Storing(n, s) = {} /\ analyses[n][s] = 0
  BY DEF Init, Analysing, Storing, At, Goroutine, Idle
<1>2. Cardinality(Worker) \in Nat
  BY WorkersAreFinite, FS_CardinalityType
<1> QED BY <1>1, <1>2, FS_EmptySet

(* Nothing is counted and nothing leaves the cache. *)
LEMMA FewKept ==
    ASSUME FewAnalyses, UNCHANGED analyses,
           \A n \in Node, s \in Source :
               /\ Analysing(n, s)' = Analysing(n, s)
               /\ cache'[n][s] = Absent =>
                     cache[n][s] = Absent /\ Storing(n, s)' = Storing(n, s)
    PROVE  FewAnalyses'
BY DEF FewAnalyses

LEMMA FewStep ==
    ASSUME IInv, FewAnalyses, NEW g \in Goroutine, Step(g)
    PROVE  FewAnalyses'
<1> PICK n0, s0 : n0 = g[1] /\ s0 = task[g].source
  OBVIOUS
<1>0. /\ n0 \in Node /\ build[n0] \in Build
      /\ task[g] \in TaskType
      /\ task[g].stage # "idle" => s0 \in Source
  BY DEF Goroutine, IInv, TypeOK, TaskType, Idle
<1>1. ASSUME NEW t, task' = [task EXCEPT ![g] = t],
             task[g].stage \notin {"analyse", "store"},
             t.stage \notin {"analyse", "store"}, UNCHANGED analyses,
             \A n \in Node, s \in Source :
                 cache'[n][s] = Absent => cache[n][s] = Absent
      PROVE  FewAnalyses'
  <2>1. \A n \in Node, s \in Source : /\ Analysing(n, s)' = Analysing(n, s)
                                      /\ Storing(n, s)' = Storing(n, s)
    BY <1>1, OthersKeep DEF Analysing, Storing, At
  <2> QED BY <1>1, <2>1, FewKept
<1>2. ASSUME NEW c \in Contract, NEW s \in Source, BeginRegistration(g, c, s)
      PROVE  FewAnalyses'
  BY <1>1, <1>2 DEF BeginRegistration, Task
<1>3. ASSUME NEW c \in Contract, BeginUse(g, c)
      PROVE  FewAnalyses'
  BY <1>1, <1>3 DEF BeginUse, Task
<1>4. CASE Verify(g)
  <2>1. task[g].stage = "verify" /\ UNCHANGED analyses
    BY <1>4 DEF Verify
  <2>2. CASE Usable(build[n0], s0, task[g].meta)
    <3>1. task[g].meta \in Metadata
      BY <1>0, <2>1, <2>2 DEF TaskType, Idle, Usable
    <3>2. PICK schema \in Read(build[n0], task[g].meta) :
              /\ cache' = [cache EXCEPT ![n0][s0] = schema]
              /\ task' = [task EXCEPT ![g].stage = "resolved", ![g].schema = schema]
      BY <1>4, <2>2 DEF Verify
    <3>3. schema # Absent
      BY <3>1, <3>2, SchemaStoreAssumption DEF Read, Metadata
    <3>4. task' = [task EXCEPT ![g] =
                      [task[g] EXCEPT !.stage = "resolved", !.schema = schema]]
      BY <3>2 DEF IInv, TypeOK
    <3>5. [task[g] EXCEPT !.stage = "resolved", !.schema = schema].stage = "resolved"
      BY <1>0, <2>1 DEF TaskType, Idle
    <3>6. \A n \in Node, s \in Source :
              cache'[n][s] = Absent => cache[n][s] = Absent
      BY <3>2, <3>3 DEF IInv, TypeOK
    <3> QED BY <1>1, <2>1, <3>4, <3>5, <3>6
  <2>3. CASE ~Usable(build[n0], s0, task[g].meta)
    <3>1. task' = [task EXCEPT ![g] = [task[g] EXCEPT !.stage = "lookup"]]
          /\ UNCHANGED cache
      BY <1>4, <2>3 DEF Verify, IInv, TypeOK
    <3>2. [task[g] EXCEPT !.stage = "lookup"].stage = "lookup"
      BY <1>0, <2>1 DEF TaskType, Idle
    <3> QED BY <1>1, <2>1, <3>1, <3>2
  <2> QED BY <2>2, <2>3
<1>5. CASE Lookup(g)
  <2>1. task[g].stage = "lookup" /\ UNCHANGED <<cache, analyses>>
    BY <1>5 DEF Lookup
  <2>2. CASE cache[n0][s0] # Absent
    <3> DEFINE t == [task[g] EXCEPT !.stage = "resolved", !.schema = cache[n0][s0]]
    <3>1. task' = [task EXCEPT ![g] = t]
      BY <1>5, <2>2 DEF Lookup, IInv, TypeOK
    <3>2. t.stage = "resolved"
      BY <1>0, <2>1 DEF TaskType, Idle
    <3> QED BY <1>1, <2>1, <3>1, <3>2
  <2>3. CASE cache[n0][s0] = Absent
    <3>0. PICK t : t = [task[g] EXCEPT !.stage = "analyse"]
      OBVIOUS
    <3>1. task' = [task EXCEPT ![g] = t]
      BY <1>5, <2>3, <3>0 DEF Lookup, IInv, TypeOK
    <3>2. t.stage = "analyse" /\ t.source = s0
      BY <1>0, <3>0, <2>1 DEF TaskType, Idle
    <3>3. \A n \in Node, s \in Source :
              /\ Storing(n, s)' = Storing(n, s)
              /\ (n # n0 \/ s # s0) => Analysing(n, s)' = Analysing(n, s)
      BY <2>1, <3>1, <3>2, OthersKeep, Moves DEF Analysing, Storing, At
    <3>4. analyses[n0][s0] = Cardinality(Storing(n0, s0))
      BY <1>0, <2>1, <2>3 DEF FewAnalyses
    <3>5. Cardinality(Analysing(n0, s0)') + Cardinality(Storing(n0, s0)')
             <= Cardinality(Worker)
      <4>1. Cardinality(Analysing(n0, s0)) + Cardinality(Storing(n0, s0))
               <= Cardinality(Worker)
        BY TogetherAtMostAll
      <4>2. Analysing(n0, s0)' \cap Storing(n0, s0)' = {}
            /\ Analysing(n0, s0)' \cup Storing(n0, s0)' \in SUBSET Worker
        <5>1. g[2] \in Worker /\ Analysing(n0, s0)' = Analysing(n0, s0) \cup {g[2]}
          <6>1. /\ g[2] \in Worker /\ task'[<<n0, g[2]>>] = t
                /\ \A w \in Worker : w # g[2] =>
                      task'[<<n0, w>>] = task[<<n0, w>>]
            <7>1. Becomes(g, t)
              BY <3>1 DEF Becomes
            <7> QED BY <1>0, <7>1, Moves
          <6>2. \A w : w \in Analysing(n0, s0)'
                         <=> w \in Analysing(n0, s0) \cup {g[2]}
            BY <3>2, <6>1 DEF Analysing, At
          <6> QED BY <6>1, <6>2
        <5>2. g[2] \notin Storing(n0, s0)
          BY <2>1 DEF Storing, At, Goroutine
        <5>3. Analysing(n0, s0) \cap Storing(n0, s0) = {}
              /\ Analysing(n0, s0) \cup Storing(n0, s0) \in SUBSET Worker
          BY DEF Analysing, Storing, At
        <5> QED BY <1>0, <2>1, <3>3, <5>1, <5>2, <5>3
      <4>3. IsFiniteSet(Analysing(n0, s0)') /\ IsFiniteSet(Storing(n0, s0)')
        BY <4>2, WorkersAreFinite, FS_Subset
      <4> DEFINE A == Analysing(n0, s0)'
                 B == Storing(n0, s0)'
      <4> HIDE DEF A, B
      <4>4. Cardinality(A \cup B) = Cardinality(A) + Cardinality(B) - Cardinality(A \cap B)
        BY <4>3, FS_Union DEF A, B
      <4>5. Cardinality(A \cap B) = 0 /\ Cardinality(A \cup B) <= Cardinality(Worker)
        BY <4>2, WorkersAreFinite, FS_EmptySet, FS_Subset DEF A, B
      <4>6. Cardinality(A) \in Nat /\ Cardinality(B) \in Nat
        BY <4>3, FS_CardinalityType DEF A, B
      <4>7. Cardinality(A) + Cardinality(B) <= Cardinality(Worker)
        BY <4>4, <4>5, <4>6
      <4> QED BY <4>7 DEF A, B
    <3>6. ASSUME NEW n \in Node, NEW s \in Source
          PROVE  /\ analyses'[n][s] + Cardinality(Analysing(n, s)')
                       <= Cardinality(Worker)
                 /\ cache'[n][s] = Absent =>
                       analyses'[n][s] = Cardinality(Storing(n, s)')
      <4>1. CASE n = n0 /\ s = s0
        <5>1. Cardinality(Storing(n0, s0)') = analyses[n0][s0]
              /\ Cardinality(Analysing(n0, s0)') + analyses[n0][s0] <= Cardinality(Worker)
          BY <1>0, <2>1, <3>3, <3>4, <3>5
        <5>2. analyses[n0][s0] \in Nat
          BY <1>0, <2>1 DEF IInv, TypeOK
        <5>3. Cardinality(Analysing(n0, s0)') \in Nat
          <6>1. Analysing(n0, s0)' \in SUBSET Worker
            BY DEF Analysing, At
          <6> QED BY <6>1, WorkersAreFinite, FS_Subset, FS_CardinalityType
        <5>4. analyses[n0][s0] + Cardinality(Analysing(n0, s0)')
                 = Cardinality(Analysing(n0, s0)') + analyses[n0][s0]
          BY <5>2, <5>3
        <5> QED BY <2>1, <4>1, <5>1, <5>4
      <4>2. CASE n # n0 \/ s # s0
        BY <2>1, <3>3, <4>2 DEF FewAnalyses
      <4> QED BY <4>1, <4>2
    <3> QED BY <3>6 DEF FewAnalyses
  <2> QED BY <2>2, <2>3
<1>6. CASE Analyse(g)
  <2>0. PICK result, to, t :
           /\ result = Analysis[build[n0].ruleset][s0]
           /\ to = IF result = Refused THEN "resolved" ELSE "store"
           /\ t = [task[g] EXCEPT !.stage = to, !.schema = result]
    OBVIOUS
  <2>1. task[g].stage = "analyse" /\ UNCHANGED cache
    BY <1>6 DEF Analyse
  <2>2. task' = [task EXCEPT ![g] = t]
    BY <1>6, <2>0 DEF Analyse, IInv, TypeOK
  <2>3. t.stage = to /\ t.source = s0 /\ to # "analyse"
    BY <1>0, <2>0, <2>1 DEF TaskType, Idle
  <2>4. analyses' = IF result = Refused THEN analyses
                    ELSE [analyses EXCEPT ![n0][s0] = @ + 1]
    BY <1>6, <2>0 DEF Analyse
  <2>5. /\ Analysing(n0, s0)' = Analysing(n0, s0) \ {g[2]}
        /\ g[2] \in Analysing(n0, s0)
        /\ \A n \in Node, s \in Source :
              n # n0 \/ s # s0 => Analysing(n, s)' = Analysing(n, s)
    <3>1. /\ g[2] \in Worker /\ task'[<<n0, g[2]>>] = t
          /\ task[<<n0, g[2]>>] = task[g]
          /\ \A n \in Node, w \in Worker : n # n0 \/ w # g[2] =>
                task'[<<n, w>>] = task[<<n, w>>]
      <4>1. Becomes(g, t)
        BY <2>2 DEF Becomes
      <4> QED BY <1>0, <4>1, Moves
    <3>2. \A w : w \in Analysing(n0, s0)' <=> w \in Analysing(n0, s0) \ {g[2]}
      BY <1>0, <2>3, <3>1 DEF Analysing, At
    <3>3. g[2] \in Analysing(n0, s0)
      BY <2>1, <3>1 DEF Analysing, At
    <3>4. \A n \in Node, s \in Source : n # n0 \/ s # s0 =>
              \A w : w \in Analysing(n, s)' <=> w \in Analysing(n, s)
      BY <2>1, <2>3, <3>1 DEF Analysing, At
    <3> QED BY <3>2, <3>3, <3>4
  <2>6. /\ Cardinality(Analysing(n0, s0)') = Cardinality(Analysing(n0, s0)) - 1
        /\ Cardinality(Analysing(n0, s0)) \in Nat
    BY <2>5, AtFinite, FS_RemoveElement DEF Analysing
  <2>7. analyses \in [Node -> [Source -> Nat]] /\ s0 \in Source
        /\ Cardinality(Worker) \in Nat
    BY <1>0, <2>1, WorkersAreFinite, FS_CardinalityType DEF IInv, TypeOK
  <2>8. CASE result = Refused
    <3>1. \A n \in Node, s \in Source : Storing(n, s)' = Storing(n, s)
      BY <2>0, <2>1, <2>2, <2>3, <2>8, OthersKeep DEF Storing, At
    <3>2. analyses' = analyses
      BY <2>0, <2>4, <2>8
    <3>3. ASSUME NEW n \in Node, NEW s \in Source
          PROVE  /\ analyses[n][s] + Cardinality(Analysing(n, s)')
                       <= Cardinality(Worker)
                 /\ cache[n][s] = Absent =>
                       analyses[n][s] = Cardinality(Storing(n, s)')
      <4>1. /\ analyses[n][s] + Cardinality(Analysing(n, s)) <= Cardinality(Worker)
            /\ analyses[n][s] \in Nat
        BY <2>7 DEF FewAnalyses
      <4>2. cache[n][s] = Absent => analyses[n][s] = Cardinality(Storing(n, s)')
        BY <3>1 DEF FewAnalyses
      <4>3. CASE n = n0 /\ s = s0
        BY <2>6, <2>7, <4>1, <4>2, <4>3
      <4>4. CASE n # n0 \/ s # s0
        BY <2>5, <4>1, <4>2, <4>4
      <4> QED BY <4>3, <4>4
    <3> QED BY <2>1, <3>2, <3>3 DEF FewAnalyses
  <2>9. CASE result # Refused
    <3>1. /\ Storing(n0, s0)' = Storing(n0, s0) \cup {g[2]}
          /\ g[2] \notin Storing(n0, s0)
          /\ \A n \in Node, s \in Source :
                n # n0 \/ s # s0 => Storing(n, s)' = Storing(n, s)
      <4>1. /\ g[2] \in Worker /\ task'[<<n0, g[2]>>] = t
            /\ task[<<n0, g[2]>>] = task[g]
            /\ \A n \in Node, w \in Worker : n # n0 \/ w # g[2] =>
                  task'[<<n, w>>] = task[<<n, w>>]
        <5>1. Becomes(g, t)
          BY <2>2 DEF Becomes
        <5> QED BY <1>0, <5>1, Moves
      <4>2. t.stage = "store" /\ t.source = s0
        BY <2>0, <2>3, <2>9
      <4>3. \A w : w \in Storing(n0, s0)' <=> w \in Storing(n0, s0) \cup {g[2]}
        BY <1>0, <4>1, <4>2 DEF Storing, At
      <4>4. g[2] \notin Storing(n0, s0)
        BY <2>1, <4>1 DEF Storing, At
      <4>5. \A n \in Node, s \in Source : n # n0 \/ s # s0 =>
                \A w : w \in Storing(n, s)' <=> w \in Storing(n, s)
        BY <2>1, <4>1, <4>2 DEF Storing, At
      <4> QED BY <4>3, <4>4, <4>5
    <3>2. /\ Cardinality(Storing(n0, s0)') = Cardinality(Storing(n0, s0)) + 1
          /\ Cardinality(Storing(n0, s0)) \in Nat
      BY <3>1, AtFinite, FS_AddElement DEF Storing
    <3>3. \A n \in Node, s \in Source :
              analyses'[n][s] = IF n = n0 /\ s = s0 THEN analyses[n][s] + 1
                                ELSE analyses[n][s]
      BY <2>4, <2>7, <2>9
    <3>4. ASSUME NEW n \in Node, NEW s \in Source
          PROVE  /\ analyses'[n][s] + Cardinality(Analysing(n, s)')
                       <= Cardinality(Worker)
                 /\ cache[n][s] = Absent =>
                       analyses'[n][s] = Cardinality(Storing(n, s)')
      <4>1. /\ analyses[n][s] + Cardinality(Analysing(n, s)) <= Cardinality(Worker)
            /\ analyses[n][s] \in Nat
            /\ cache[n][s] = Absent => analyses[n][s] = Cardinality(Storing(n, s))
        BY <2>7 DEF FewAnalyses
      <4>2. CASE n = n0 /\ s = s0
        <5>1. analyses'[n0][s0] = analyses[n0][s0] + 1
          BY <1>0, <2>7, <3>3
        <5>2. analyses'[n0][s0] + Cardinality(Analysing(n0, s0)')
                 <= Cardinality(Worker)
          BY <2>6, <2>7, <4>1, <4>2, <5>1
        <5>3. cache[n0][s0] = Absent =>
                 analyses'[n0][s0] = Cardinality(Storing(n0, s0)')
          BY <3>2, <4>1, <4>2, <5>1
        <5> QED BY <4>2, <5>2, <5>3
      <4>3. CASE n # n0 \/ s # s0
        BY <2>5, <3>1, <3>3, <4>1, <4>3
      <4> QED BY <4>2, <4>3
    <3> QED BY <2>1, <3>4 DEF FewAnalyses
  <2> QED BY <2>8, <2>9
<1>7. CASE Store(g)
  <2>0. PICK t : t = [task[g] EXCEPT !.stage = "resolved"]
    OBVIOUS
  <2>1. task[g].stage = "store" /\ UNCHANGED analyses
        /\ cache' = [cache EXCEPT ![n0][s0] = task[g].schema]
    BY <1>7 DEF Store
  <2>2. task' = [task EXCEPT ![g] = t]
    BY <1>7, <2>0 DEF Store, IInv, TypeOK
  <2>3. t.stage = "resolved" /\ t.source = s0
    BY <1>0, <2>0, <2>1 DEF TaskType, Idle
  <2>4. task[g].schema # Absent
    BY <1>0, <2>1, AnalysisType, SchemaStoreAssumption DEF IInv, TaskSound, Result
  <2>5. \A n \in Node, s \in Source : Analysing(n, s)' = Analysing(n, s)
    BY <2>1, <2>2, <2>3, OthersKeep DEF Analysing, At
  <2>6. \A n \in Node, s \in Source :
            n # n0 \/ s # s0 => Storing(n, s)' = Storing(n, s)
    BY <2>1, <2>2, <2>3, Moves DEF Storing, At
  <2>7. \A n \in Node, s \in Source :
            cache'[n][s] = IF n = n0 /\ s = s0 THEN task[g].schema ELSE cache[n][s]
    BY <2>1 DEF IInv, TypeOK
  <2> QED BY <2>1, <2>4, <2>5, <2>6, <2>7, FewKept
<1>8. CASE Deploy(g)
  BY <1>1, <1>8 DEF Deploy, Idle
<1>9. CASE Return(g)
  BY <1>1, <1>9 DEF Return, Idle
<1> QED BY <1>2, <1>3, <1>4, <1>5, <1>6, <1>7, <1>8, <1>9 DEF Step

(* The counts end with the process. *)
LEMMA FewRestart ==
    ASSUME IInv, FewAnalyses, NEW n0 \in Node, NEW b \in Build, Restart(n0, b)
    PROVE  FewAnalyses'
<1> SUFFICES ASSUME NEW n \in Node, NEW s \in Source
             PROVE  /\ analyses'[n][s] + Cardinality(Analysing(n, s)')
                         <= Cardinality(Worker)
                    /\ cache'[n][s] = Absent =>
                         analyses'[n][s] = Cardinality(Storing(n, s)')
  BY DEF FewAnalyses
<1>1. CASE n = n0
  <2>1. analyses'[n][s] = 0
    BY <1>1 DEF Restart, Restarted, IInv, TypeOK
  <2>2. Analysing(n, s)' = {} /\ Storing(n, s)' = {}
    BY <1>1 DEF Restart, Restarted, Analysing, Storing, At, Goroutine, Idle
  <2>3. Cardinality(Worker) \in Nat
    BY WorkersAreFinite, FS_CardinalityType
  <2> QED BY <2>1, <2>2, <2>3, FS_EmptySet
<1>2. CASE n # n0
  <2>1. analyses'[n] = analyses[n] /\ cache'[n] = cache[n]
    BY <1>2 DEF Restart, Restarted, IInv, TypeOK
  <2>2. \A w \in Worker : task'[<<n, w>>] = task[<<n, w>>]
    BY <1>2 DEF Restart, Restarted, Goroutine
  <2>3. Analysing(n, s)' = Analysing(n, s) /\ Storing(n, s)' = Storing(n, s)
    BY <2>2 DEF Analysing, Storing, At
  <2> QED BY <2>1, <2>3 DEF FewAnalyses
<1> QED BY <1>1, <1>2

LEMMA FewNext == IInv /\ FewAnalyses /\ [Next]_vars => FewAnalyses'
<1> SUFFICES ASSUME IInv, FewAnalyses, [Next]_vars PROVE FewAnalyses'
  OBVIOUS
<1>1. CASE UNCHANGED vars
  BY <1>1 DEF vars, FewAnalyses, Analysing, Storing, At
<1>2. CASE Next
  BY <1>2, FewStep, FewRestart DEF Next
<1> QED BY <1>1, <1>2

(* However many goroutines need the schema of a source, they analyse it at *)
(* most once each before it is in the cache, and never after: what was     *)
(* analysed is in the cache or about to be.                                *)
THEOREM AnalysedOncePerProcess == Spec => []AnalysedOnce
<1>1. IInv /\ FewAnalyses => AnalysedOnce
  <2> SUFFICES ASSUME IInv, FewAnalyses, NEW n \in Node, NEW s \in Source
               PROVE  /\ analyses[n][s] <= Cardinality(Worker)
                      /\ analyses[n][s] > 0 /\ cache[n][s] = Absent =>
                            \E w \in Worker : /\ task[<<n, w>>].stage = "store"
                                             /\ task[<<n, w>>].source = s
    BY DEF AnalysedOnce
  <2>1. analyses[n][s] \in Nat /\ Cardinality(Worker) \in Nat
    BY WorkersAreFinite, FS_CardinalityType DEF IInv, TypeOK
  <2>2. analyses[n][s] <= Cardinality(Worker)
    <3>1. Cardinality(Analysing(n, s)) \in Nat
      BY AtFinite DEF Analysing
    <3> QED BY <2>1, <3>1 DEF FewAnalyses
  <2>3. ASSUME analyses[n][s] > 0, cache[n][s] = Absent
        PROVE  Storing(n, s) # {}
    <3>1. Cardinality(Storing(n, s)) > 0
      BY <2>1, <2>3 DEF FewAnalyses
    <3> QED BY <3>1, FS_EmptySet
  <2> QED BY <2>2, <2>3 DEF Storing, At
<1> QED BY <1>1, FewInit, FewNext, Invariance, PTL DEF Spec
=============================================================================
