---------------------- MODULE ContractProcessing_proofs ----------------------
(***************************************************************************)
(* Proofs about ContractProcessing, for any contracts, operations,         *)
(* programs and limits: types, the coherence of the four states of a       *)
(* contract, the size of its snapshot and the finality of a registration;  *)
(* and the history of a contract, which is that of the ledger.             *)
(***************************************************************************)
EXTENDS ContractProcessing, SequenceTheorems, TLAPS

---------------------------------------------------------------------------
(* Lemmas about the operators.                                             *)

(* What an operation's fact is made of. *)
LEMMA FactFields ==
    ASSUME NEW o \in Op
    PROVE  /\ Fact[o].kind \in OpKind
           /\ Fact[o].sender \in Account
           /\ Fact[o].contract \in Contract
           /\ Fact[o].source \in Source
           /\ Fact[o].items \in Seq(Item)
  BY FactsAssumption DEF FactType

(* What the runtime knows of a source. *)
LEMMA ProgramFields ==
    ASSUME NEW src \in Source
    PROVE  /\ Program[src].loadGas \in Nat
           /\ \A f \in Functions(src) : Program[src].functions[f].gas \in Nat
  BY FactsAssumption DEF FunctionSchema

(* None is none of the values a state holds. *)
LEMMA NoneIsNoValue ==
    ASSUME NEW k \in Kind
    PROVE  None \notin Value(k)
  BY ProcessingAssumption DEF Kind, Value

(* An operation writes the snapshot first, a call writes nothing else, and *)
(* the first registration of a contract writes all four kinds.             *)
LEMMA MergeKindsShape ==
    ASSUME NEW o \in Op
    PROVE  /\ Len(MergeKinds(Fact[o])) \in Nat \ {0}
           /\ \A j \in 1..Len(MergeKinds(Fact[o])) :
                 MergeKinds(Fact[o])[j] \in Kind
           /\ Fact[o].kind = "call" =>
                 \A j \in 1..Len(MergeKinds(Fact[o])) :
                    MergeKinds(Fact[o])[j] = "snapshot"
           /\ Fact[o].kind = "register" /\ chain[Fact[o].contract]["runtime"] = None =>
                 \A k \in Kind : \E j \in 1..Len(MergeKinds(Fact[o])) :
                    MergeKinds(Fact[o])[j] = k
  <1>1. CASE Fact[o].kind = "call"
    BY <1>1 DEF MergeKinds, Kind
  <1>2. CASE Fact[o].kind # "call" /\ chain[Fact[o].contract]["runtime"] = None
    BY <1>2 DEF MergeKinds, Kind
  <1>3. CASE Fact[o].kind # "call" /\ chain[Fact[o].contract]["runtime"] # None
    BY <1>3 DEF MergeKinds, Kind
  <1> QED
    BY <1>1, <1>2, <1>3

(* A merge value has the type of the key it is written to. *)
LEMMA MergeValueType ==
    ASSUME TypeOK, NEW o \in Op, NEW k \in Kind
    PROVE  MergeValue(o, k) \in Value(k)
  BY FactFields DEF TypeOK, Kind, MergeValue, Value

(* The type of a state read out of a family. *)
LEMMA GetState ==
    ASSUME NEW s, IsStates(s), NEW c \in Contract, NEW k \in Kind,
           s[c][k] # None
    PROVE  s[c][k] \in Value(k)
  BY DEF IsStates

(* The empty family of states. *)
LEMMA NothingType ==
    /\ IsStates(Nothing)
    /\ \A c \in Contract, k \in Kind : Nothing[c][k] = None
  BY DEF Nothing, IsStates

(* An executing operation runs a source, on well-typed globals. *)
LEMMA SourceOfType ==
    ASSUME TypeOK, GatesHold, NEW o \in Op, Executing(o)
    PROVE  SourceOf(Fact[o]) \in Source
  <1>1. CASE Fact[o].kind = "register"
    BY <1>1, FactFields DEF SourceOf
  <1>2. CASE Fact[o].kind # "register"
    <2>1. chain[Fact[o].contract]["design"] # None
      BY <1>2 DEF GatesHold
    <2>2. chain[Fact[o].contract]["design"] \in Value("design")
      BY <2>1, FactFields, GetState DEF TypeOK, Kind
    <2> QED
      BY <1>2, <2>2 DEF SourceOf, Value
  <1> QED
    BY <1>1, <1>2

LEMMA StoredGlobalsType ==
    ASSUME TypeOK, NEW c \in Contract
    PROVE  StoredGlobals(c) \in Globals
  <1>1. CASE chain[c]["snapshot"] = None
    BY <1>1 DEF StoredGlobals, Globals
  <1>2. CASE chain[c]["snapshot"] # None
    <2>1. chain[c]["snapshot"] \in Value("snapshot")
      BY <1>2, GetState DEF TypeOK, Kind
    <2> QED
      BY <1>2, <2>1 DEF StoredGlobals, Value
  <1> QED
    BY <1>1, <1>2
---------------------------------------------------------------------------
(* The actions preserve the inductive invariant.                           *)

(* The initial state satisfies the invariant. *)
LEMMA InitInductive == Init => Inductive
  <1> SUFFICES ASSUME Init
               PROVE  Inductive
    OBVIOUS
  <1> USE DEF Init, Idle
  <1>1. IsStates(chain) /\ \A c \in Contract :
           /\ chain[c]["design"] = None
           /\ chain[c]["runtime"] = None
           /\ chain[c]["snapshot"] = None
           /\ chain[c]["account"] # "active"
    BY ProcessingAssumption DEF IsStates, Kind, Value
  <1>2. TypeOK
    BY <1>1, NothingType DEF TypeOK, PC, OpKind, Globals
  <1>3. InProposal /\ GatesHold /\ SizesChecked
    BY NothingType DEF InProposal, GatesHold, SizesChecked, Fits, Executing, Kind
  <1>4. Landed
    BY NothingType DEF Landed, Kind
  <1>5. Coherent /\ Restorable
    BY <1>1 DEF Coherent, Restorable
  <1> QED
    BY <1>2, <1>3, <1>4, <1>5 DEF Inductive

(* What an operation will merge is settled while no block is saved. *)
LEMMA MergeKindsStay ==
    ASSUME UNCHANGED chain, NEW o \in Op
    PROVE  MergeKinds(Fact[o])' = MergeKinds(Fact[o])
  BY DEF MergeKinds

(* A step that merges nothing and takes no operation into or out of the    *)
(* merging phase keeps Landed.                                             *)
LEMMA LandedStays ==
    ASSUME Landed, UNCHANGED <<chain, pending, merged>>,
           \A p \in Op : \/ pc'[p] = pc[p]
                        \/ /\ pc[p] \notin {"merging", "done"}
                           /\ pc'[p] \notin {"merging", "done"}
    PROVE  Landed'
  <1>1. \A p \in Op : MergeKinds(Fact[p])' = MergeKinds(Fact[p])
    BY MergeKindsStay
  <1>2. \A p \in Op : (pc[p] \in {"merging", "done"}) <=> (pc'[p] \in {"merging", "done"})
    OBVIOUS
  <1>3. \A p \in Op :
          /\ pc'[p] = "merging" => pc[p] = "merging"
          /\ pc'[p] = "done" => pc[p] = "done"
    OBVIOUS
  <1> QED
    BY <1>1, <1>2, <1>3 DEF Landed

(* Stuttering changes nothing the invariant speaks of. *)
LEMMA StutterInductive ==
    ASSUME Inductive, UNCHANGED vars
    PROVE  Inductive'
  <1> USE DEF vars, blockVars, opVars
  <1>1. TypeOK' /\ InProposal' /\ GatesHold' /\ SizesChecked'
    BY DEF Inductive, TypeOK, InProposal, GatesHold, SizesChecked, Fits,
           Executing, NoProposal, IsStates
  <1>2. Landed'
    BY LandedStays DEF Inductive
  <1>3. Coherent' /\ Restorable'
    BY DEF Inductive, Coherent, Restorable
  <1> QED
    BY <1>1, <1>2, <1>3 DEF Inductive

(* A new proposal starts with no operation executing and nothing pending. *)
LEMMA ProposeInductive ==
    ASSUME Inductive, NEW ops \in SUBSET (Op \ included), NEW t \in Time,
           Propose(ops, t)
    PROVE  Inductive'
  <1> USE DEF Propose, blockVars
  <1>1. \A o \in Op : pc[o] = "idle"
    BY DEF Inductive, InProposal
  <1>2. \A c \in Contract, k \in Kind : pending[c][k] = None
    BY <1>1 DEF Inductive, Landed
  <1>3. \A o \in Op : pc'[o] \in {"idle", "proposed"} /\ merged'[o] = 0
    BY <1>1 DEF Inductive, Landed, TypeOK
  <1>4. TypeOK'
    BY DEF Inductive, TypeOK, PC, IsStates
  <1>5. InProposal' /\ GatesHold'
    BY <1>3, ProcessingAssumption DEF InProposal, GatesHold, Executing, NoProposal
  <1>6. Landed'
    BY <1>2, <1>3 DEF Landed, Kind
  <1>7. SizesChecked'
    BY <1>2, <1>3 DEF SizesChecked, Fits, Kind
  <1>8. Coherent' /\ Restorable'
    BY DEF Inductive, Coherent, Restorable
  <1> QED
    BY <1>4, <1>5, <1>6, <1>7, <1>8 DEF Inductive

(* An operation that passes its gate is bound to a processor and finds the *)
(* state its gate asked for.                                               *)
LEMMA PreProcessInductive ==
    ASSUME Inductive, NEW o \in Op, PreProcess(o)
    PROVE  Inductive'
  <1> USE DEF PreProcess, blockVars
  <1>1. \A p \in Op : p # o => pc'[p] = pc[p]
    BY DEF Inductive, TypeOK
  <1>2. pc'[o] \in {"queued", "rejected"} /\ merged[o] = 0
    BY DEF Inductive, TypeOK, Landed
  <1>3. ~NoProposal /\ proposal \in [ops : SUBSET Op, time : Time]
    BY DEF Inductive, TypeOK, InProposal, NoProposal
  <1>4. bound' \in [OpKind -> [time : Time, height : Nat] \cup {None}]
    BY <1>3, FactFields DEF Inductive, TypeOK, NewProcessor
  <1>5. \A k \in OpKind : bound[k] # None => bound'[k] # None
    BY <1>3, ProcessingAssumption DEF Inductive, TypeOK, NewProcessor
  <1>6. bound'[Fact[o].kind] # None
    BY <1>3, FactFields, ProcessingAssumption DEF Inductive, TypeOK, NewProcessor
  <1>7. TypeOK'
    BY <1>4 DEF Inductive, TypeOK, PC, IsStates
  <1>8. InProposal'
    BY <1>1, <1>2, <1>3, <1>5, <1>6, FactFields
    DEF Inductive, InProposal, Executing, NoProposal
  <1>9. GatesHold'
    <2>1. pc'[o] = "queued" => Gate(Fact[o])
      BY DEF Inductive, TypeOK
    <2> QED
      BY <1>1, <1>2, <2>1 DEF Inductive, GatesHold, Executing, Gate,
                              RegisterGate, CallGate
  <1>10. Landed'
    BY <1>1, <1>2, LandedStays DEF Inductive
  <1>11. SizesChecked'
    BY <1>1, <1>2 DEF Inductive, SizesChecked, Fits
  <1>12. Coherent' /\ Restorable'
    BY DEF Inductive, Coherent, Restorable
  <1> QED
    BY <1>7, <1>8, <1>9, <1>10, <1>11, <1>12 DEF Inductive

(* A step of one operation that leaves the block, the proposal and what is *)
(* merged alone, and only moves the operation to a phase before merging.   *)
LEMMA QuietStep ==
    ASSUME Inductive, NEW o \in Op, TypeOK',
           UNCHANGED <<chain, proposal, bound, pending, merged>>,
           \A p \in Op : p # o => pc'[p] = pc[p] /\ globals'[p] = globals[p],
           pc[o] \in {"queued", "running"},
           pc'[o] \in {"running", "failed"}
    PROVE  Inductive'
  <1>1. InProposal'
    BY DEF Inductive, InProposal, Executing, NoProposal
  <1>2. GatesHold'
    BY DEF Inductive, GatesHold, Executing
  <1>3. Landed'
    BY LandedStays DEF Inductive
  <1>4. SizesChecked'
    BY DEF Inductive, SizesChecked, Fits
  <1>5. Coherent' /\ Restorable'
    BY DEF Inductive, Coherent, Restorable
  <1> QED
    BY <1>1, <1>2, <1>3, <1>4, <1>5 DEF Inductive

(* Starting the machine, or failing to, restores typed globals. *)
LEMMA StartInductive ==
    ASSUME Inductive, NEW o \in Op, StartMachine(o) \/ FailStart(o)
    PROVE  Inductive'
  <1> USE DEF blockVars
  <1>1. CASE StartMachine(o)
    <2> USE <1>1 DEF StartMachine
    <2>1. Executing(o)
      BY DEF Executing
    <2>2. StoredGlobals(Fact[o].contract) \in Globals
      BY StoredGlobalsType, FactFields DEF Inductive
    <2>3. Len(StoredGlobals(Fact[o].contract)) \in Nat
      BY <2>2 DEF Globals
    <2>4. Program[SourceOf(Fact[o])].loadGas \in Nat
      BY <2>1, SourceOfType, ProgramFields DEF Inductive
    <2>5. StartupGas(Fact[o]) \in Nat
      BY <2>3, <2>4, ProcessingAssumption DEF StartupGas
    <2>6. TypeOK'
      BY <2>2, <2>5 DEF Inductive, TypeOK, PC, IsStates
    <2> QED
      BY <2>6, QuietStep DEF Inductive, TypeOK
  <1>2. CASE FailStart(o)
    <2> USE <1>2 DEF FailStart
    <2>1. TypeOK'
      BY DEF Inductive, TypeOK, PC, IsStates
    <2> QED
      BY <2>1, QuietStep DEF Inductive, TypeOK
  <1> QED
    BY <1>1, <1>2

(* An invocation appends a typed entry, made in the bound context. *)
LEMMA InvokeInductive ==
    ASSUME Inductive, NEW o \in Op, Invoke(o) \/ FailInvoke(o)
    PROVE  Inductive'
  <1> USE DEF blockVars
  <1>1. CASE Invoke(o)
    <2> USE <1>1 DEF Invoke
    <2> DEFINE it == Fact[o].items[next[o]]
               fn == Program[SourceOf(Fact[o])].functions[it.fn]
    <2>1. Executing(o) /\ next[o] \in Nat \ {0} /\ SourceOf(Fact[o]) \in Source
      BY SourceOfType DEF Inductive, TypeOK, Executing
    <2>2. it \in Item
      BY SMTT(30), <2>1, FactFields
    <2>3. it.fn \in FnName
      BY <2>2 DEF Item
    <2>4. fn.gas \in Nat
      <3>1. it.fn \in Functions(SourceOf(Fact[o]))
        BY DEF Succeeds
      <3> QED
        BY <2>1, <3>1, ProgramFields
    <2>5. bound[Fact[o].kind] \in [time : Time, height : Nat]
      BY <2>1, FactFields DEF Inductive, TypeOK, InProposal
    <2>6. InvocationOf(o, it) \in Entry
      BY <2>1, <2>3, <2>5 DEF InvocationOf, Entry
    <2>7. globals' \in [Op -> Globals]
      <3>1. globals' = [globals EXCEPT ![o] = Append(@, InvocationOf(o, it))]
        OBVIOUS
      <3> HIDE DEF it
      <3> QED
        BY <2>6, <3>1 DEF Inductive, TypeOK, Globals
    <2>8. gas' \in [Op -> Nat]
      <3>1. gas' = [gas EXCEPT ![o] = @ + fn.gas]
        OBVIOUS
      <3>2. gas \in [Op -> Nat]
        BY DEF Inductive, TypeOK
      <3> HIDE DEF fn, Invoke
      <3> QED
        BY <2>4, <3>1, <3>2
    <2>9. next' \in [Op -> Nat \ {0}]
      BY DEF Inductive, TypeOK
    <2>10. UNCHANGED <<blockVars, proposal, bound, pc, merged, pending>>
      OBVIOUS
    <2> HIDE DEF Invoke, it, fn
    <2>11. TypeOK'
      BY <2>7, <2>8, <2>9, <2>10 DEF Inductive, TypeOK, IsStates
    <2> QED
      BY <2>11, QuietStep DEF Inductive, TypeOK, Invoke
  <1>2. CASE FailInvoke(o)
    <2> USE <1>2 DEF FailInvoke
    <2>1. TypeOK'
      BY DEF Inductive, TypeOK, PC, IsStates
    <2> QED
      BY <2>1, QuietStep DEF Inductive, TypeOK
  <1> QED
    BY <1>1, <1>2

(* A captured snapshot fits, and merging starts from its first value. *)
LEMMA CaptureInductive ==
    ASSUME Inductive, NEW o \in Op, Capture(o)
    PROVE  Inductive'
  <1> USE DEF Capture, blockVars
  <1>1. \A p \in Op : p # o => pc'[p] = pc[p]
    BY DEF Inductive, TypeOK
  <1>2. /\ pc'[o] \in {"merging", "failed"}
        /\ pc'[o] = "merging" => Len(globals[o]) <= SnapshotLimit
    BY DEF Inductive, TypeOK
  <1>3. merged[o] = 0
    BY DEF Inductive, Landed
  <1>4. TypeOK'
    BY DEF Inductive, TypeOK, PC, IsStates
  <1>5. InProposal' /\ GatesHold'
    BY <1>1 DEF Inductive, InProposal, GatesHold, Executing, NoProposal
  <1>6. Landed'
    <2>1. \A p \in Op : MergeKinds(Fact[p])' = MergeKinds(Fact[p])
      BY MergeKindsStay
    <2>2. merged[o] < Len(MergeKinds(Fact[o]))
      BY <1>3, MergeKindsShape
    <2>3. \A p \in Op : pc[p] \in {"merging", "done"} => pc'[p] \in {"merging", "done"}
      BY <1>1
    <2> QED
      BY <1>1, <1>2, <1>3, <2>1, <2>2, <2>3 DEF Inductive, Landed
  <1>7. SizesChecked'
    BY <1>1, <1>2 DEF Inductive, SizesChecked, Fits
  <1>8. Coherent' /\ Restorable'
    BY DEF Inductive, Coherent, Restorable
  <1> QED
    BY <1>4, <1>5, <1>6, <1>7, <1>8 DEF Inductive

(* Merging one more value extends the prefix of values that have landed.   *)
LEMMA MergeInductive ==
    ASSUME Inductive, NEW o \in Op, MergeNext(o)
    PROVE  Inductive'
  <1> DEFINE c == Fact[o].contract
             k == MergeKinds(Fact[o])[merged[o] + 1]
             v == MergeValue(o, k)
  <1> USE DEF blockVars
  <1>1. /\ pc[o] = "merging"
        /\ pending' = [pending EXCEPT ![c][k] = v]
        /\ merged' = [merged EXCEPT ![o] = @ + 1]
        /\ pc' = [pc EXCEPT ![o] = IF merged[o] + 1 = Len(MergeKinds(Fact[o]))
                                     THEN "done" ELSE "merging"]
        /\ UNCHANGED <<blockVars, proposal, bound, globals, gas, next>>
    BY DEF MergeNext
  <1>2. /\ merged[o] \in Nat
        /\ merged[o] + 1 \in 1..Len(MergeKinds(Fact[o]))
    BY <1>1, MergeKindsShape DEF Inductive, TypeOK, Landed
  <1>3. c \in Contract /\ k \in Kind /\ v \in Value(k) /\ v # None
    BY <1>2, FactFields, MergeKindsShape, MergeValueType, NoneIsNoValue
    DEF Inductive
  <1>4. Fact[o].kind = "call" => k = "snapshot"
    BY <1>2, MergeKindsShape
  <1>5. /\ k = "snapshot" => v = globals[o]
        /\ k = "account" => v = "active"
    BY DEF MergeValue
  <1>6. \A p \in Op : MergeKinds(Fact[p])' = MergeKinds(Fact[p])
    BY <1>1, MergeKindsStay
  <1> HIDE DEF c, v
  <1>7. /\ IsStates(pending')
        /\ pending'[c][k] = v
        /\ \A d \in Contract, j \in Kind :
              <<d, j>> # <<c, k>> => pending'[d][j] = pending[d][j]
    <2>1. IsStates(pending)
      BY DEF Inductive, TypeOK
    <2> HIDE DEF k
    <2> QED
      BY <1>1, <1>3, <2>1 DEF IsStates
  <1>8. /\ \A p \in Op : p # o => pc'[p] = pc[p] /\ merged'[p] = merged[p]
        /\ merged'[o] = merged[o] + 1
        /\ pc'[o] = IF merged[o] + 1 = Len(MergeKinds(Fact[o]))
                       THEN "done" ELSE "merging"
    BY <1>1 DEF Inductive, TypeOK
  <1>9. TypeOK'
    <2>1. pc' \in [Op -> PC] /\ merged' \in [Op -> Nat]
      BY <1>1, <1>2 DEF Inductive, TypeOK, PC
    <2> HIDE DEF k
    <2> QED
      BY SMTT(30), <1>1, <1>7, <2>1 DEF Inductive, TypeOK, IsStates
  <1>10. InProposal' /\ GatesHold'
    BY <1>1, <1>8 DEF Inductive, InProposal, GatesHold, Executing, NoProposal
  <1>11. Landed'
    <2>1. ASSUME NEW p \in Op
          PROVE  /\ pc'[p] = "merging" => merged'[p] < Len(MergeKinds(Fact[p]))
                 /\ pc'[p] = "done" => merged'[p] = Len(MergeKinds(Fact[p]))
                 /\ pc'[p] \notin {"merging", "done"} => merged'[p] = 0
      BY <1>2, <1>8, MergeKindsShape DEF Inductive, Landed
    <2>2. ASSUME NEW p \in Op, NEW j \in 1..merged'[p]
          PROVE  pending'[Fact[p].contract][MergeKinds(Fact[p])[j]] # None
      <3> DEFINE d == Fact[p].contract
                 i == MergeKinds(Fact[p])[j]
      <3>1. merged'[p] <= Len(MergeKinds(Fact[p]))
        <4>1. pc'[p] \in {"merging", "done"} \/ pc'[p] \notin {"merging", "done"}
          OBVIOUS
        <4>2. Len(MergeKinds(Fact[p])) \in Nat /\ merged'[p] \in Nat
          BY <1>9, MergeKindsShape DEF TypeOK
        <4> QED
          BY <2>1, <4>1, <4>2
      <3>2. merged'[p] \in Nat
        BY <1>9 DEF TypeOK
      <3>3. d \in Contract /\ i \in Kind
        BY <3>1, <3>2, FactFields, MergeKindsShape
      <3>4. CASE <<d, i>> = <<c, k>>
        BY <1>3, <1>7, <3>4
      <3>5. CASE <<d, i>> # <<c, k>>
        <4>1. j \in 1..merged[p]
          BY <1>2, <1>8, <3>2, <3>5 DEF c
        <4>2. pending[d][i] # None
          BY <4>1 DEF Inductive, Landed
        <4> QED
          BY <1>7, <3>3, <3>5, <4>2
      <3> QED
        BY <3>4, <3>5
    <2>3. ASSUME NEW d \in Contract, NEW i \in Kind, pending'[d][i] # None
          PROVE  \E p \in Op : /\ pc'[p] \in {"merging", "done"}
                               /\ Fact[p].contract = d
                               /\ Fact[p].kind = "call" => i = "snapshot"
      <3>1. CASE <<d, i>> = <<c, k>>
        BY <1>4, <1>8, <3>1 DEF c
      <3>2. CASE <<d, i>> # <<c, k>>
        <4>1. pending[d][i] # None
          BY <1>7, <2>3, <3>2
        <4>2. PICK p \in Op : /\ pc[p] \in {"merging", "done"}
                              /\ Fact[p].contract = d
                              /\ Fact[p].kind = "call" => i = "snapshot"
          BY <4>1 DEF Inductive, Landed
        <4> QED
          BY <1>8, <4>2
      <3> QED
        BY <3>1, <3>2
    <2>4. ASSUME NEW d \in Contract
          PROVE  pending'[d]["account"] \in {None, "active"}
      BY <1>5, <1>7 DEF Inductive, Landed, Kind
    <2> QED
      BY <1>6, <2>1, <2>2, <2>3, <2>4 DEF Landed
  <1>12. SizesChecked'
    <2>1. \A p \in Op : pc'[p] \in {"merging", "done"} => pc[p] \in {"merging", "done"}
      BY <1>1, <1>8
    <2>2. Fits(globals[o])
      BY <1>1 DEF Inductive, SizesChecked
    <2>3. \A d \in Contract : Fits(pending'[d]["snapshot"])
      BY <1>5, <1>7, <2>2 DEF Inductive, SizesChecked, Kind
    <2> QED
      BY <1>1, <2>1, <2>3 DEF Inductive, SizesChecked, Fits
  <1>13. Coherent' /\ Restorable'
    BY <1>1 DEF Inductive, Coherent, Restorable
  <1> QED
    BY <1>9, <1>10, <1>11, <1>12, <1>13 DEF Inductive

(* The end of a proposal leaves nothing executing and nothing pending.     *)
LEMMA ResetInductive ==
    ASSUME Inductive, Reset
    PROVE  /\ InProposal' /\ GatesHold' /\ Landed' /\ SizesChecked'
           /\ proposal' = None
           /\ bound' \in [OpKind -> [time : Time, height : Nat] \cup {None}]
           /\ pc' \in [Op -> PC]
           /\ globals' \in [Op -> Globals]
           /\ gas' \in [Op -> Nat]
           /\ next' \in [Op -> Nat \ {0}]
           /\ merged' \in [Op -> Nat]
           /\ IsStates(pending')
  <1> USE DEF Reset
  <1>1. \A o \in Op : pc'[o] = "idle" /\ merged'[o] = 0
    OBVIOUS
  <1>2. \A c \in Contract, k \in Kind : pending'[c][k] = None
    BY NothingType
  <1>3. InProposal' /\ GatesHold'
    BY <1>1 DEF InProposal, GatesHold, Executing
  <1>4. Landed'
    BY <1>1, <1>2 DEF Landed, Kind
  <1>5. SizesChecked'
    BY <1>1, <1>2 DEF SizesChecked, Fits, Kind
  <1>6. IsStates(pending')
    BY NothingType DEF IsStates
  <1> QED
    BY <1>3, <1>4, <1>5, <1>6 DEF CloseProcessors, PC, Globals

(* Giving a proposal up keeps the committed states. *)
LEMMA GiveUpInductive ==
    ASSUME Inductive, GiveUp
    PROVE  Inductive'
  <1> USE DEF GiveUp, blockVars
  <1>1. TypeOK'
    BY ResetInductive DEF Inductive, TypeOK, IsStates
  <1>2. Coherent' /\ Restorable'
    BY DEF Inductive, Coherent, Restorable
  <1> QED
    BY <1>1, <1>2, ResetInductive DEF Inductive

(* When a block is saved, a contract is in one of three cases: nothing is  *)
(* pending for it; a registration is among its operations, and then it had *)
(* no state before and every kind is pending; or only calls wrote it, and  *)
(* then only its snapshot is pending and its design exists.                *)
LEMMA SaveCases ==
    ASSUME Inductive, Save, NEW c \in Contract
    PROVE  \/ \A k \in Kind : pending[c][k] = None
           \/ /\ chain[c]["design"] = None
              /\ \A k \in Kind : pending[c][k] # None
              /\ pending[c]["account"] = "active"
           \/ /\ chain[c]["design"] # None
              /\ \A k \in Kind \ {"snapshot"} : pending[c][k] = None
              /\ pending[c]["snapshot"] # None
  <1>1. \A o \in Op : pc[o] \notin {"merging"}
    BY DEF Save, Finished, Inductive, InProposal
  <1>2. CASE \E r \in Op : /\ pc[r] = "done" /\ Fact[r].contract = c
                           /\ Fact[r].kind = "register"
    <2>1. PICK r \in Op : /\ pc[r] = "done" /\ Fact[r].contract = c
                          /\ Fact[r].kind = "register"
      BY <1>2
    <2>2. chain[c]["account"] = "inactive"
      BY <2>1 DEF Inductive, GatesHold, Executing
    <2>3. chain[c]["design"] = None /\ chain[c]["runtime"] = None
      BY <2>2 DEF Inductive, Coherent
    <2>4. \A j \in 1..Len(MergeKinds(Fact[r])) :
             pending[c][MergeKinds(Fact[r])[j]] # None
      BY <2>1 DEF Inductive, Landed
    <2>5. \A k \in Kind : pending[c][k] # None
      BY <2>1, <2>3, <2>4, MergeKindsShape
    <2>6. pending[c]["account"] = "active"
      BY <2>5 DEF Inductive, Landed, Kind
    <2> QED
      BY <2>3, <2>5, <2>6
  <1>3. CASE ~ \E r \in Op : /\ pc[r] = "done" /\ Fact[r].contract = c
                             /\ Fact[r].kind = "register"
    <2>1. \A k \in Kind \ {"snapshot"} : pending[c][k] = None
      BY <1>1, <1>3, FactFields DEF Inductive, Landed, OpKind
    <2>2. CASE pending[c]["snapshot"] = None
      BY <2>1, <2>2
    <2>3. CASE pending[c]["snapshot"] # None
      <3>1. PICK p \in Op : pc[p] = "done" /\ Fact[p].contract = c
        BY <1>1, <2>3 DEF Inductive, Landed, Kind
      <3>2. Fact[p].kind = "call"
        BY <1>3, <3>1, FactFields DEF OpKind
      <3>3. chain[c]["design"] # None
        BY <3>1, <3>2 DEF Inductive, GatesHold, Executing
      <3> QED
        BY <2>1, <2>3, <3>3
    <2> QED
      BY <2>2, <2>3
  <1> QED
    BY <1>2, <1>3

(* A saved value is the pending one or, where none is pending, the old one. *)
LEMMA SavedValue ==
    ASSUME Save, NEW c \in Contract, NEW k \in Kind
    PROVE  chain'[c][k] = IF pending[c][k] = None THEN chain[c][k]
                                                 ELSE pending[c][k]
  BY DEF Save

(* Saving a block keeps the invariant. *)
LEMMA SaveInductive ==
    ASSUME Inductive, Save
    PROVE  Inductive'
  <1>1. Reset
    BY DEF Save
  <1>2. TypeOK'
    <2>1. IsStates(chain')
      BY SavedValue DEF Inductive, TypeOK, IsStates, Save
    <2>2. proposal \in [ops : SUBSET Op, time : Time]
      BY DEF Inductive, TypeOK, Save, NoProposal
    <2>3. /\ height' \in Nat
          /\ blockTime' \in Seq(Time)
          /\ included' \subseteq Op
          /\ accepted' \subseteq Op
          /\ raced' \subseteq Contract
      BY <2>2 DEF Inductive, TypeOK, Save, Done
    <2> QED
      BY <1>1, <2>1, <2>3, ResetInductive DEF TypeOK
  <1>3. Coherent'
    <2> SUFFICES ASSUME NEW c \in Contract
                 PROVE  /\ (chain'[c]["design"] # None) <=> (chain'[c]["account"] = "active")
                        /\ (chain'[c]["runtime"] # None) <=> (chain'[c]["account"] = "active")
                        /\ (chain'[c]["snapshot"] # None) <=> (chain'[c]["account"] = "active")
      BY DEF Coherent
    <2> QED
      BY SaveCases, SavedValue DEF Inductive, Coherent, Kind
  <1>4. Restorable'
    BY SavedValue DEF Inductive, Restorable, SizesChecked, Fits, Kind
  <1> QED
    BY <1>1, <1>2, <1>3, <1>4, ResetInductive DEF Inductive

(* Every step keeps the invariant. *)
LEMMA NextInductive == Inductive /\ [Next]_vars => Inductive'
  <1> SUFFICES ASSUME Inductive, [Next]_vars
               PROVE  Inductive'
    OBVIOUS
  <1>1. ASSUME NEW ops \in SUBSET (Op \ included), NEW t \in Time, Propose(ops, t)
        PROVE  Inductive'
    BY <1>1, ProposeInductive
  <1>2. ASSUME NEW o \in Op, PreProcess(o)
        PROVE  Inductive'
    BY <1>2, PreProcessInductive
  <1>3. ASSUME NEW o \in Op, Process(o)
        PROVE  Inductive'
    BY <1>3, StartInductive, InvokeInductive, CaptureInductive DEF Process
  <1>4. ASSUME NEW o \in Op, MergeNext(o)
        PROVE  Inductive'
    BY <1>4, MergeInductive
  <1>5. CASE Save
    BY <1>5, SaveInductive
  <1>6. CASE GiveUp
    BY <1>6, GiveUpInductive
  <1>7. CASE UNCHANGED vars
    BY <1>7, StutterInductive
  <1> QED
    BY <1>1, <1>2, <1>3, <1>4, <1>5, <1>6, <1>7 DEF Next

---------------------------------------------------------------------------
(* The theorems.                                                           *)

(* The invariant holds of every reachable state. *)
THEOREM InductiveAlways == Spec => []Inductive
  <1>1. Init => Inductive
    BY InitInductive
  <1>2. Inductive /\ [Next]_vars => Inductive'
    BY NextInductive
  <1> QED
    BY <1>1, <1>2, PTL DEF Spec

(* Type correctness: states, machines and processors keep their types. *)
THEOREM TypeCorrect == Spec => []TypeOK
  <1>1. Inductive => TypeOK
    BY DEF Inductive
  <1> QED
    BY <1>1, InductiveAlways, PTL

(* However operations of a block race, the design, runtime, snapshot and   *)
(* account states of a contract appear together.                           *)
THEOREM CoherentAlways == Spec => []Coherent
  <1>1. Inductive => Coherent
    BY DEF Inductive
  <1> QED
    BY <1>1, InductiveAlways, PTL

(* No committed snapshot is larger than what a machine restores. *)
THEOREM RestorableAlways == Spec => []Restorable
  <1>1. Inductive => Restorable
    BY DEF Inductive
  <1> QED
    BY <1>1, InductiveAlways, PTL

(* No step changes the design, the runtime or the account of a registered  *)
(* contract.                                                               *)
THEOREM RegistrationFinal == Spec => RegistrationIsFinal
  <1> DEFINE Final == \A c \in Contract : chain[c]["design"] # None =>
                        /\ chain'[c]["design"] = chain[c]["design"]
                        /\ chain'[c]["runtime"] = chain[c]["runtime"]
                        /\ chain'[c]["account"] = chain[c]["account"]
  <1>1. Inductive /\ [Next]_vars => [Final]_chain
    <2> SUFFICES ASSUME Inductive, [Next]_vars, chain' # chain
                 PROVE  Final
      OBVIOUS
    <2>1. Save
      BY DEF Next, vars, blockVars, Propose, PreProcess, Process, StartMachine,
             FailStart, Invoke, FailInvoke, Capture, MergeNext, GiveUp
    <2> QED
      BY <2>1, SaveCases, SavedValue DEF Kind
  <1> QED
    BY <1>1, InductiveAlways, PTL DEF Spec, RegistrationIsFinal

---------------------------------------------------------------------------
(* The history of a contract: every committed snapshot is what whole       *)
(* operations left, made when their block was, and the processing of       *)
(* proposals implements the ledger.  What is kept on top of Inductive:     *)

(* Every saved block has its timestamp, what was accepted is in a block,   *)
(* nothing is proposed again, and processors are bound to the proposal.    *)
Settled ==
    /\ Len(blockTime) = height
    /\ accepted \subseteq included
    /\ ~NoProposal => proposal.ops \cap included = {}
    /\ \A k \in OpKind : bound[k] # None =>
          /\ ~NoProposal
          /\ bound[k] = [time |-> proposal.time, height |-> height + 1]

(* The entry the i-th item of an operation leaves in this proposal. *)
Own(o, i) ==
    [op |-> o, item |-> i, fn |-> Fact[o].items[i].fn,
     time |-> proposal.time, height |-> height + 1]

Base(o) == StoredGlobals(Fact[o].contract)

(* A machine holds the globals it restored and the items invoked so far. *)
Worked(o) ==
    /\ next[o] <= Len(Fact[o].items) + 1
    /\ Len(globals[o]) = Len(Base(o)) + next[o] - 1
    /\ \A i \in 1..Len(Base(o)) : globals[o][i] = Base(o)[i]
    /\ \A i \in 1 .. next[o] - 1 : globals[o][Len(Base(o)) + i] = Own(o, i)

Merging(o) == pc[o] \in {"merging", "done"}

Started(o) == pc[o] = "running" \/ Merging(o)

Work ==
    \A o \in Op :
        /\ pc[o] \in {"idle", "proposed", "queued"} => next[o] = 1
        /\ Started(o) => Worked(o)
        /\ Merging(o) => next[o] = Len(Fact[o].items) + 1

(* What the gates asked of the operations that passed them. *)
Gated ==
    \A o \in Op :
        /\ Executing(o) =>
              /\ Len(Fact[o].items) # 0
              /\ Fact[o].kind = "register" =>
                    Fact[o].sender \in Auth[Fact[o].contract]
        /\ Started(o) /\ Fact[o].kind = "register" =>
              Program[Fact[o].source].admissible

(* o has merged the value that is pending for kind k of contract c. *)
Wrote(o, c, k) ==
    /\ Merging(o)
    /\ Fact[o].contract = c
    /\ Fact[o].kind = "call" => k = "snapshot"
    /\ pending[c][k] = MergeValue(o, k)

FromOne ==
    \A c \in Contract, k \in Kind : pending[c][k] # None =>
        \E o \in Op : Wrote(o, c, k)

Steps == Settled /\ Work /\ Gated /\ FromOne

(* A contract exists when an operation opened it. *)
Opened ==
    /\ \A c \in Contract : chain[c]["snapshot"] # None =>
          Len(chain[c]["snapshot"]) # 0
    /\ \A o \in accepted : chain[Fact[o].contract]["snapshot"] # None

Book ==
    /\ Opened
    /\ AllOrNothing
    /\ InclusionTime
    /\ Authorised
    /\ OneRegistration
    /\ NoLostUpdate

HistoryInv == Inductive /\ Steps /\ Book

---------------------------------------------------------------------------
(* The steps of a proposal.                                                *)

LEMMA StepsInit == Init => Steps
<1> SUFFICES ASSUME Init PROVE Steps
  OBVIOUS
<1> USE DEF Init, Idle
<1>1. Settled
  BY DEF Settled, NoProposal, OpKind
<1>2. Work /\ Gated
  BY DEF Work, Gated, Started, Merging, Executing
<1>3. FromOne
  BY NothingType DEF FromOne
<1> QED BY <1>1, <1>2, <1>3 DEF Steps

LEMMA ProposeSteps ==
    ASSUME Inductive, Steps, NEW ops \in SUBSET (Op \ included), NEW t \in Time,
           Propose(ops, t)
    PROVE  Steps'
<1> USE DEF Propose, blockVars
<1>1. \A o \in Op : pc[o] = "idle"
  BY DEF Inductive, InProposal
<1>2. \A c \in Contract, k \in Kind : pending[c][k] = None
  BY <1>1 DEF Inductive, Landed
<1>3. \A o \in Op : pc'[o] \in {"idle", "proposed"}
  OBVIOUS
<1>4. Settled'
  BY ProcessingAssumption DEF Steps, Settled, NoProposal
<1>5. Work' /\ Gated'
  BY <1>1, <1>3 DEF Steps, Work, Gated, Started, Merging, Executing
<1>6. FromOne'
  BY <1>2 DEF FromOne
<1> QED BY <1>4, <1>5, <1>6 DEF Steps

(* A step of one operation of the proposal, which merges nothing. *)
LEMMA OneWorks ==
    ASSUME Inductive, Steps, NEW o \in Op,
           UNCHANGED <<blockVars, proposal, pending>>, Settled',
           ~Merging(o),
           \A p \in Op : p # o => /\ pc'[p] = pc[p] /\ globals'[p] = globals[p]
                                  /\ next'[p] = next[p],
           /\ pc'[o] \in {"idle", "proposed", "queued"} => next'[o] = 1
           /\ Started(o)' => Worked(o)'
           /\ Merging(o)' => next'[o] = Len(Fact[o].items) + 1,
           Executing(o)' =>
              /\ Len(Fact[o].items) # 0
              /\ Fact[o].kind = "register" =>
                    Fact[o].sender \in Auth[Fact[o].contract],
           Started(o)' /\ Fact[o].kind = "register" =>
              Program[Fact[o].source].admissible
    PROVE  Steps'
<1>1. \A p \in Op : p # o => (Merging(p)' <=> Merging(p)) /\ (Started(p)' <=> Started(p))
                             /\ (Executing(p)' <=> Executing(p))
  BY DEF Merging, Started, Executing
<1>2. \A p \in Op : p # o => (Worked(p)' <=> Worked(p))
  BY DEF Worked, Base, StoredGlobals, Own, blockVars
<1>3. Work'
  BY <1>1, <1>2 DEF Steps, Work
<1>4. Gated'
  BY <1>1 DEF Steps, Gated
<1>5. FromOne'
  <2> SUFFICES ASSUME NEW c \in Contract, NEW k \in Kind, pending'[c][k] # None
               PROVE  \E p \in Op : Wrote(p, c, k)'
    BY DEF FromOne
  <2>1. PICK p \in Op : Wrote(p, c, k)
    BY DEF Steps, FromOne
  <2>2. p # o
    BY <2>1 DEF Wrote
  <2> QED BY <1>1, <2>1, <2>2 DEF Wrote, MergeValue
<1> QED BY <1>3, <1>4, <1>5 DEF Steps

LEMMA PreProcessSteps ==
    ASSUME Inductive, Steps, NEW o \in Op, PreProcess(o)
    PROVE  Steps'
<1>1. /\ pc[o] = "proposed" /\ pc' = [pc EXCEPT ![o] = IF Gate(Fact[o]) THEN "queued"
                                                                       ELSE "rejected"]
      /\ UNCHANGED <<blockVars, proposal, globals, gas, next, merged, pending>>
  BY DEF PreProcess
<1>2. pc \in [Op -> PC] /\ bound \in [OpKind -> [time : Time, height : Nat] \cup {None}]
  BY DEF Inductive, TypeOK
<1>3. Settled'
  <2>1. ~NoProposal
    BY <1>1 DEF Inductive, InProposal
  <2>2. bound' = [bound EXCEPT ![Fact[o].kind] =
                    [time |-> proposal.time, height |-> height + 1]]
    BY DEF PreProcess, NewProcessor
  <2> QED BY <1>1, <1>2, <2>1, <2>2 DEF Steps, Settled, NoProposal, blockVars
<1>4. /\ pc'[o] = IF Gate(Fact[o]) THEN "queued" ELSE "rejected"
      /\ \A p \in Op : p # o => pc'[p] = pc[p]
  BY <1>1, <1>2
<1>5. next[o] = 1
  BY <1>1 DEF Steps, Work
<1>6. Gate(Fact[o]) => /\ Len(Fact[o].items) # 0
                       /\ Fact[o].kind = "register" =>
                             Fact[o].sender \in Auth[Fact[o].contract]
  BY FactsAssumption DEF Gate, RegisterGate, CallGate, CallFactIsValid
<1>7. ~Started(o)' /\ ~Merging(o)' /\ ~Merging(o)
  BY <1>1, <1>4 DEF Started, Merging
<1>8. Executing(o)' => Gate(Fact[o])
  BY <1>4 DEF Executing
<1> QED BY <1>1, <1>3, <1>4, <1>5, <1>6, <1>7, <1>8, OneWorks

LEMMA StartSteps ==
    ASSUME Inductive, Steps, NEW o \in Op, StartMachine(o)
    PROVE  Steps'
<1>1. /\ pc[o] = "queued" /\ CanStart(Fact[o])
      /\ pc' = [pc EXCEPT ![o] = "running"]
      /\ globals' = [globals EXCEPT ![o] = Base(o)]
      /\ UNCHANGED <<blockVars, proposal, bound, next, merged, pending>>
  BY DEF StartMachine, Base
<1>2. pc \in [Op -> PC] /\ globals \in [Op -> Globals]
  BY DEF Inductive, TypeOK
<1>3. Settled'
  BY <1>1 DEF Steps, Settled, NoProposal, blockVars
<1>4. /\ pc'[o] = "running" /\ globals'[o] = Base(o)
      /\ \A p \in Op : p # o => pc'[p] = pc[p] /\ globals'[p] = globals[p]
  BY <1>1, <1>2
<1>5. next[o] = 1 /\ next' = next
  BY <1>1 DEF Steps, Work
<1>6. Base(o) \in Globals
  BY StoredGlobalsType, FactFields DEF Inductive, Base
<1>7. Worked(o)'
  <2>1. Base(o)' = Base(o)
    BY <1>1 DEF Base, StoredGlobals, blockVars
  <2>2. Len(Base(o)) \in Nat /\ Len(Fact[o].items) \in Nat
    BY <1>6, FactFields DEF Globals
  <2> QED BY <1>4, <1>5, <2>1, <2>2 DEF Worked
<1>8. ~Merging(o) /\ ~Merging(o)' /\ Executing(o)
  BY <1>1, <1>4 DEF Merging, Executing
<1>9. Fact[o].kind = "register" => Program[Fact[o].source].admissible
  BY <1>1 DEF CanStart
<1>10. /\ Len(Fact[o].items) # 0
       /\ Fact[o].kind = "register" => Fact[o].sender \in Auth[Fact[o].contract]
  BY <1>8 DEF Steps, Gated
<1> QED BY <1>1, <1>3, <1>4, <1>5, <1>7, <1>8, <1>9, <1>10, OneWorks

LEMMA InvokeSteps ==
    ASSUME Inductive, Steps, NEW o \in Op, Invoke(o)
    PROVE  Steps'
<1> DEFINE it == Fact[o].items[next[o]]
<1>1. /\ pc[o] = "running" /\ next[o] <= Len(Fact[o].items)
      /\ globals' = [globals EXCEPT ![o] = Append(@, InvocationOf(o, it))]
      /\ next' = [next EXCEPT ![o] = @ + 1]
      /\ UNCHANGED <<blockVars, proposal, bound, pc, merged, pending>>
  BY DEF Invoke
<1>2. next \in [Op -> Nat \ {0}] /\ globals \in [Op -> Globals]
  BY DEF Inductive, TypeOK
<1>3. Settled'
  BY <1>1 DEF Steps, Settled, NoProposal, blockVars
<1>4. InvocationOf(o, it) = Own(o, next[o])
  <2>1. bound[Fact[o].kind] # None /\ Fact[o].kind \in OpKind
    BY <1>1, FactFields DEF Inductive, InProposal, Executing
  <2>2. bound[Fact[o].kind] = [time |-> proposal.time, height |-> height + 1]
    BY <2>1 DEF Steps, Settled
  <2> QED BY <2>2 DEF InvocationOf, Own
<1> HIDE DEF it
<1>5. /\ globals'[o] = Append(globals[o], Own(o, next[o])) /\ next'[o] = next[o] + 1
      /\ \A p \in Op : p # o => globals'[p] = globals[p] /\ next'[p] = next[p]
  BY <1>1, <1>2, <1>4
<1>6. Started(o) /\ Worked(o) /\ ~Merging(o) /\ ~Merging(o)' /\ Executing(o)
  BY <1>1 DEF Steps, Work, Started, Merging, Executing
<1>7. Worked(o)'
  <2>1. Base(o)' = Base(o) /\ \A i : Own(o, i)' = Own(o, i)
    BY <1>1 DEF Base, StoredGlobals, Own, blockVars
  <2>2. /\ Len(Base(o)) \in Nat /\ Len(Fact[o].items) \in Nat
        /\ next[o] \in Nat \ {0} /\ globals[o] \in Globals
    BY <1>2, StoredGlobalsType, FactFields DEF Inductive, Base, Globals
  <2>3. /\ Len(globals'[o]) = Len(globals[o]) + 1
        /\ \A i \in 1..Len(globals[o]) : globals'[o][i] = globals[o][i]
        /\ globals'[o][Len(globals[o]) + 1] = Own(o, next[o])
    BY <1>5, <2>2, AppendProperties DEF Globals
  <2>4. Len(globals[o]) = Len(Base(o)) + next[o] - 1
    BY <1>6 DEF Worked
  <2>5. \A i \in 1..Len(Base(o)) : globals'[o][i] = Base(o)[i]
    <3> SUFFICES ASSUME NEW i \in 1..Len(Base(o)) PROVE globals'[o][i] = Base(o)[i]
      OBVIOUS
    <3>1. i \in 1..Len(globals[o])
      BY <2>2, <2>4
    <3> QED BY <1>6, <2>3, <3>1 DEF Worked
  <2>6. \A i \in 1 .. next'[o] - 1 : globals'[o][Len(Base(o)) + i] = Own(o, i)
    <3>0. next'[o] - 1 = next[o]
      BY <1>5, <2>2
    <3> SUFFICES ASSUME NEW i \in 1..next[o]
                 PROVE  globals'[o][Len(Base(o)) + i] = Own(o, i)
      BY <3>0
    <3>1. CASE i = next[o]
      BY <2>2, <2>3, <2>4, <3>1
    <3>2. CASE i # next[o]
      <4>1. i \in 1 .. next[o] - 1 /\ Len(Base(o)) + i \in 1..Len(globals[o])
        BY <2>2, <2>4, <3>2
      <4> QED BY <1>6, <2>3, <4>1 DEF Worked
    <3> QED BY <3>1, <3>2
  <2>7. next'[o] <= Len(Fact[o].items) + 1 /\ Len(globals'[o]) = Len(Base(o)) + next'[o] - 1
    BY <1>1, <1>5, <2>2, <2>3, <2>4
  <2> QED BY <2>1, <2>5, <2>6, <2>7 DEF Worked
<1>8. /\ Len(Fact[o].items) # 0
      /\ Fact[o].kind = "register" => /\ Fact[o].sender \in Auth[Fact[o].contract]
                                      /\ Program[Fact[o].source].admissible
  BY <1>6 DEF Steps, Gated
<1> QED BY <1>1, <1>3, <1>5, <1>6, <1>7, <1>8, OneWorks

LEMMA FailSteps ==
    ASSUME Inductive, Steps, NEW o \in Op, FailStart(o) \/ FailInvoke(o)
    PROVE  Steps'
<1>1. /\ pc[o] \in {"queued", "running"} /\ pc' = [pc EXCEPT ![o] = "failed"]
      /\ UNCHANGED <<blockVars, proposal, bound, globals, gas, next, merged, pending>>
  BY DEF FailStart, FailInvoke
<1>2. pc'[o] = "failed" /\ \A p \in Op : p # o => pc'[p] = pc[p]
  BY <1>1 DEF Inductive, TypeOK
<1>3. Settled'
  BY <1>1 DEF Steps, Settled, NoProposal, blockVars
<1>4. ~Merging(o) /\ ~Merging(o)' /\ ~Started(o)' /\ ~Executing(o)'
  BY <1>1, <1>2 DEF Merging, Started, Executing
<1> QED BY <1>1, <1>2, <1>3, <1>4, OneWorks

LEMMA CaptureSteps ==
    ASSUME Inductive, Steps, NEW o \in Op, Capture(o)
    PROVE  Steps'
<1>1. /\ pc[o] = "running" /\ next[o] > Len(Fact[o].items)
      /\ pc' = [pc EXCEPT ![o] = IF Len(globals[o]) <= SnapshotLimit
                                   THEN "merging" ELSE "failed"]
      /\ UNCHANGED <<blockVars, proposal, bound, globals, gas, next, merged, pending>>
  BY DEF Capture
<1>2. /\ pc'[o] \in {"merging", "failed"} /\ \A p \in Op : p # o => pc'[p] = pc[p]
  BY <1>1 DEF Inductive, TypeOK
<1>3. Settled'
  BY <1>1 DEF Steps, Settled, NoProposal, blockVars
<1>4. Started(o) /\ Worked(o) /\ Executing(o) /\ ~Merging(o)
  BY <1>1 DEF Steps, Work, Started, Merging, Executing
<1>5. next[o] = Len(Fact[o].items) + 1
  <2>1. next[o] \in Nat /\ Len(Fact[o].items) \in Nat
    BY FactFields DEF Inductive, TypeOK
  <2> QED BY <1>1, <1>4, <2>1 DEF Worked
<1>6. Worked(o)'
  BY <1>1, <1>4 DEF Worked, Base, StoredGlobals, Own, blockVars
<1>7. /\ Len(Fact[o].items) # 0
      /\ Fact[o].kind = "register" => /\ Fact[o].sender \in Auth[Fact[o].contract]
                                      /\ Program[Fact[o].source].admissible
  BY <1>4 DEF Steps, Gated
<1> QED BY <1>1, <1>2, <1>3, <1>4, <1>5, <1>6, <1>7, OneWorks

LEMMA MergeSteps ==
    ASSUME Inductive, Steps, NEW o \in Op, MergeNext(o)
    PROVE  Steps'
<1> DEFINE c == Fact[o].contract
           k == MergeKinds(Fact[o])[merged[o] + 1]
<1>1. /\ pc[o] = "merging"
      /\ pending' = [pending EXCEPT ![c][k] = MergeValue(o, k)]
      /\ pc' = [pc EXCEPT ![o] = IF merged[o] + 1 = Len(MergeKinds(Fact[o]))
                                   THEN "done" ELSE "merging"]
      /\ UNCHANGED <<blockVars, proposal, bound, globals, gas, next>>
  BY DEF MergeNext
<1>2. merged[o] + 1 \in 1..Len(MergeKinds(Fact[o]))
  BY <1>1, MergeKindsShape DEF Inductive, TypeOK, Landed
<1>3. c \in Contract /\ k \in Kind /\ (Fact[o].kind = "call" => k = "snapshot")
  BY <1>2, FactFields, MergeKindsShape
<1> HIDE DEF c, k
<1>4. /\ pending'[c][k] = MergeValue(o, k)
      /\ \A d \in Contract, j \in Kind :
            <<d, j>> # <<c, k>> => pending'[d][j] = pending[d][j]
  BY <1>1, <1>3 DEF Inductive, TypeOK, IsStates
<1>5. pc'[o] \in {"merging", "done"} /\ \A p \in Op : p # o => pc'[p] = pc[p]
  BY <1>1 DEF Inductive, TypeOK
<1>6. Settled'
  BY <1>1 DEF Steps, Settled, NoProposal, blockVars
<1>7. \A p \in Op : /\ Merging(p)' <=> Merging(p)
                    /\ Started(p)' <=> Started(p)
                    /\ Executing(p)' <=> Executing(p)
                    /\ Worked(p)' <=> Worked(p)
                    /\ pc'[p] \in {"idle", "proposed", "queued"} <=>
                          pc[p] \in {"idle", "proposed", "queued"}
  BY <1>1, <1>5 DEF Merging, Started, Executing, Worked, Base, StoredGlobals, Own,
                    blockVars
<1>8. Work' /\ Gated'
  BY <1>1, <1>7 DEF Steps, Work, Gated
<1>9. FromOne'
  <2> SUFFICES ASSUME NEW d \in Contract, NEW j \in Kind, pending'[d][j] # None
               PROVE  \E p \in Op : Wrote(p, d, j)'
    BY DEF FromOne
  <2>1. \A p \in Op : MergeValue(p, j)' = MergeValue(p, j)
    BY <1>1 DEF MergeValue
  <2>2. CASE <<d, j>> = <<c, k>>
    <3>1. Merging(o)'
      BY <1>5 DEF Merging
    <3> QED BY <1>3, <1>4, <2>1, <2>2, <3>1 DEF Wrote, c
  <2>3. CASE <<d, j>> # <<c, k>>
    <3>1. PICK p \in Op : Wrote(p, d, j)
      BY <1>4, <2>3 DEF Steps, FromOne
    <3> QED BY <1>4, <1>7, <2>1, <2>3, <3>1 DEF Wrote
  <2> QED BY <2>2, <2>3
<1> QED BY <1>6, <1>8, <1>9 DEF Steps

(* A proposal that has ended leaves nothing behind. *)
LEMMA ResetSteps ==
    ASSUME Reset
    PROVE  Work' /\ Gated' /\ FromOne'
<1> USE DEF Reset
<1>1. Work' /\ Gated'
  BY DEF Work, Gated, Started, Merging, Executing
<1>2. FromOne'
  BY NothingType DEF FromOne
<1> QED BY <1>1, <1>2

LEMMA GiveUpSteps ==
    ASSUME Inductive, Steps, GiveUp
    PROVE  Steps'
<1>1. Settled'
  BY DEF GiveUp, Reset, CloseProcessors, Steps, Settled, NoProposal, blockVars
<1> QED BY <1>1, ResetSteps DEF GiveUp, Steps

LEMMA SaveSteps ==
    ASSUME Inductive, Steps, Save
    PROVE  Steps'
<1>1. Done \subseteq proposal.ops
  BY DEF Done, Inductive, InProposal
<1>2. Len(blockTime') = height'
  BY DEF Save, Inductive, TypeOK, Steps, Settled
<1>3. Settled'
  BY <1>1, <1>2 DEF Save, Reset, CloseProcessors, Steps, Settled, NoProposal
<1> QED BY <1>3, ResetSteps DEF Save, Steps

LEMMA StepsNext ==
    ASSUME Inductive, Steps, [Next]_vars
    PROVE  Steps'
<1>1. CASE UNCHANGED vars
  <2> USE <1>1 DEF vars, blockVars, opVars
  <2>1. Settled'
    BY DEF Steps, Settled, NoProposal
  <2>2. \A o \in Op : Worked(o)' <=> Worked(o)
    BY DEF Worked, Base, StoredGlobals, Own
  <2>3. Work' /\ Gated'
    BY <2>2 DEF Steps, Work, Gated, Started, Merging, Executing
  <2>4. \A o \in Op, c \in Contract, k \in Kind : Wrote(o, c, k)' <=> Wrote(o, c, k)
    BY DEF Wrote, Merging, MergeValue
  <2>5. FromOne'
    BY <2>4 DEF Steps, FromOne
  <2> QED BY <2>1, <2>3, <2>5 DEF Steps
<1>2. ASSUME NEW o \in Op, Process(o) PROVE Steps'
  BY <1>2, StartSteps, InvokeSteps, FailSteps, CaptureSteps DEF Process
<1> QED BY <1>1, <1>2, ProposeSteps, PreProcessSteps, MergeSteps, SaveSteps, GiveUpSteps
        DEF Next

---------------------------------------------------------------------------
(* What a saved block does to a contract.                                  *)

LEMMA AllDone ==
    ASSUME Inductive, Save, NEW o \in Op, Merging(o)
    PROVE  o \in Done /\ pc[o] = "done" /\ o \in proposal.ops
BY DEF Save, Finished, Done, Merging, Inductive, InProposal

(* The globals a block commits for a contract are those one operation of   *)
(* it left: the globals committed before and the entries of all its items. *)
LEMMA Committed ==
    ASSUME Inductive, Steps, Save, NEW o \in Op, Merging(o)
    PROVE  /\ Base(o) \in Globals /\ globals[o] \in Globals
           /\ Len(Base(o)) \in Nat
           /\ Len(Fact[o].items) \in Nat \ {0}
           /\ Len(globals[o]) = Len(Base(o)) + Len(Fact[o].items)
           /\ \A i \in 1..Len(Base(o)) : globals[o][i] = Base(o)[i]
           /\ \A i \in 1..Len(Fact[o].items) :
                 globals[o][Len(Base(o)) + i] = Own(o, i)
           /\ o \in accepted' /\ o \notin accepted
<1>1. o \in Done /\ o \in proposal.ops
  BY AllDone
<1>2. o \in accepted' /\ o \notin accepted
  BY <1>1 DEF Save, NoProposal, Steps, Settled
<1>3. /\ Base(o) \in Globals /\ globals[o] \in Globals /\ Len(Base(o)) \in Nat
      /\ Len(Fact[o].items) \in Nat
  BY StoredGlobalsType, FactFields DEF Inductive, TypeOK, Base, Globals
<1>4. Len(Fact[o].items) # 0
  BY <1>1 DEF Done, Steps, Gated, Executing
<1>5. Worked(o) /\ next[o] = Len(Fact[o].items) + 1
  BY DEF Steps, Work, Started
<1>6. next[o] - 1 = Len(Fact[o].items)
  BY <1>3, <1>5
<1> QED BY <1>2, <1>3, <1>4, <1>5, <1>6 DEF Worked

(* The globals an operation starts from are those of its contract, none    *)
(* for a registration.                                                     *)
LEMMA BaseOf ==
    ASSUME Inductive, NEW o \in Op, Executing(o)
    PROVE  /\ Fact[o].contract \in Contract
           /\ Fact[o].kind \in OpKind
           /\ Fact[o].kind = "register" =>
                 /\ chain[Fact[o].contract]["snapshot"] = None
                 /\ chain[Fact[o].contract]["design"] = None
                 /\ Base(o) = <<>>
           /\ Fact[o].kind = "call" =>
                 /\ chain[Fact[o].contract]["snapshot"] # None
                 /\ chain[Fact[o].contract]["design"] # None
                 /\ Base(o) = chain[Fact[o].contract]["snapshot"]
BY FactFields DEF Inductive, GatesHold, Coherent, Base, StoredGlobals, OpKind

(* A contract's committed globals stay, or become those of one operation.  *)
LEMMA NewGlobals ==
    ASSUME Inductive, Steps, Save, NEW c \in Contract
    PROVE  \/ /\ chain'[c]["snapshot"] = chain[c]["snapshot"]
              /\ pending[c]["snapshot"] = None
              /\ chain'[c] = chain[c]
           \/ /\ pending[c]["snapshot"] # None
              /\ \E o \in Op : /\ Wrote(o, c, "snapshot")
                               /\ chain'[c]["snapshot"] = globals[o]
<1>1. "snapshot" \in Kind
  BY DEF Kind
<1>2. CASE pending[c]["snapshot"] = None
  <2>1. \A k \in Kind : pending[c][k] = None
    BY <1>1, <1>2, SaveCases
  <2>2. chain[c] = [k \in Kind |-> chain[c][k]]
    BY DEF Inductive, TypeOK, IsStates
  <2> QED BY <1>2, <2>1, <2>2, SavedValue, <1>1 DEF Save
<1>3. CASE pending[c]["snapshot"] # None
  <2>1. PICK o \in Op : Wrote(o, c, "snapshot")
    BY <1>1, <1>3 DEF Steps, FromOne
  <2>2. chain'[c]["snapshot"] = globals[o]
    BY <1>1, <1>3, <2>1, SavedValue DEF Wrote, MergeValue
  <2> QED BY <1>3, <2>1, <2>2
<1> QED BY <1>2, <1>3

(* Each entry of what an operation left is an old one or one of its own. *)
LEMMA Entries ==
    ASSUME Inductive, Steps, Save, NEW o \in Op, Merging(o),
           NEW i \in 1..Len(globals[o])
    PROVE  \/ /\ i \in 1..Len(Base(o))
              /\ chain[Fact[o].contract]["snapshot"] # None
              /\ Base(o) = chain[Fact[o].contract]["snapshot"]
              /\ globals[o][i] = Base(o)[i]
           \/ \E j \in 1..Len(Fact[o].items) :
                 i = Len(Base(o)) + j /\ globals[o][i] = Own(o, j)
<1>1. /\ Len(Base(o)) \in Nat /\ Len(Fact[o].items) \in Nat
      /\ Len(globals[o]) = Len(Base(o)) + Len(Fact[o].items)
      /\ \A n \in 1..Len(Base(o)) : globals[o][n] = Base(o)[n]
      /\ \A n \in 1..Len(Fact[o].items) : globals[o][Len(Base(o)) + n] = Own(o, n)
  BY Committed
<1>2. CASE i \in 1..Len(Base(o))
  <2>1. Base(o) # <<>>
    BY <1>2
  <2>2. Executing(o)
    BY DEF Executing, Merging
  <2> QED BY <1>1, <1>2, <2>1, <2>2, BaseOf DEF OpKind
<1>3. CASE i \notin 1..Len(Base(o))
  <2>1. i - Len(Base(o)) \in 1..Len(Fact[o].items)
        /\ i = Len(Base(o)) + (i - Len(Base(o)))
    BY <1>1, <1>3
  <2> QED BY <1>1, <2>1
<1> QED BY <1>2, <1>3

---------------------------------------------------------------------------
(* Saving a block keeps the books.                                         *)

LEMMA SaveOpened ==
    ASSUME Inductive, Steps, Opened, Save
    PROVE  Opened'
<1>1. ASSUME NEW c \in Contract, chain'[c]["snapshot"] # None
      PROVE  Len(chain'[c]["snapshot"]) # 0
  <2>1. CASE chain'[c]["snapshot"] = chain[c]["snapshot"]
    BY <1>1, <2>1 DEF Opened
  <2>2. ASSUME NEW o \in Op, Wrote(o, c, "snapshot"), chain'[c]["snapshot"] = globals[o]
        PROVE  Len(chain'[c]["snapshot"]) # 0
    <3>1. /\ Len(Base(o)) \in Nat /\ Len(Fact[o].items) \in Nat \ {0}
          /\ Len(globals[o]) = Len(Base(o)) + Len(Fact[o].items)
      BY <2>2, Committed DEF Wrote
    <3> QED BY <2>2, <3>1
  <2> QED BY <2>1, <2>2, NewGlobals
<1>2. ASSUME NEW o \in accepted'
      PROVE  chain'[Fact[o].contract]["snapshot"] # None
  <2>1. o \in Op /\ Fact[o].contract \in Contract /\ "snapshot" \in Kind
    BY FactFields DEF Inductive, TypeOK, Save, Done, Kind
  <2>2. CASE o \in accepted
    BY <2>1, <2>2, SavedValue DEF Opened
  <2>3. CASE o \notin accepted
    <3>1. pc[o] = "done"
      BY <2>3 DEF Save, Done
    <3>2. merged[o] = Len(MergeKinds(Fact[o])) /\ Len(MergeKinds(Fact[o])) \in Nat \ {0}
      BY <2>1, <3>1, MergeKindsShape DEF Inductive, Landed
    <3>3. MergeKinds(Fact[o])[1] = "snapshot"
      BY DEF MergeKinds
    <3>4. 1 \in 1..merged[o]
      BY <3>2
    <3>5. pending[Fact[o].contract]["snapshot"] # None
      BY <2>1, <3>3, <3>4 DEF Inductive, Landed
    <3> QED BY <2>1, <3>5, SavedValue
  <2> QED BY <2>2, <2>3
<1> QED BY <1>1, <1>2 DEF Opened

(* The entries of the contract so far were made by accepted operations. *)
LEMMA OldOperations ==
    ASSUME Inductive, Steps, Book, Save, NEW o \in Op, Merging(o),
           NEW i \in 1..Len(Base(o)),
           chain[Fact[o].contract]["snapshot"] # None,
           Base(o) = chain[Fact[o].contract]["snapshot"]
    PROVE  Base(o)[i].op \in accepted /\ Base(o)[i].op # o
BY Committed, FactFields DEF Book, InclusionTime

(* AllOrNothing of the i-th entry of the globals of a contract. *)
Whole(c, g, i) ==
    /\ Fact[g[i].op].contract = c
    /\ g[i].item > 1 =>
          i > 1 /\ g[i-1].op = g[i].op /\ g[i-1].item = g[i].item - 1
    /\ g[i].item < Len(Fact[g[i].op].items) =>
          /\ i < Len(g)
          /\ g[i+1].op = g[i].op
          /\ g[i+1].item = g[i].item + 1
    /\ \A j \in 1..Len(g) : g[j].op = g[i].op /\ g[j].item = g[i].item => i = j

LEMMA AllOrNothingIsWhole ==
    AllOrNothing <=> \A c \in Contract : chain[c]["snapshot"] # None =>
                        \A i \in 1..Len(chain[c]["snapshot"]) :
                           Whole(c, chain[c]["snapshot"], i)
BY DEF AllOrNothing, Whole

LEMMA AllOrNothingIsWholeNext ==
    AllOrNothing' <=> \A c \in Contract : chain'[c]["snapshot"] # None =>
                         \A i \in 1..Len(chain'[c]["snapshot"]) :
                            Whole(c, chain'[c]["snapshot"], i)
BY DEF AllOrNothing, Whole

LEMMA WholeOperation ==
    ASSUME Inductive, Steps, Book, Save, NEW o \in Op, Merging(o),
           NEW i \in 1..Len(globals[o])
    PROVE  Whole(Fact[o].contract, globals[o], i)
<1> DEFINE c == Fact[o].contract
           g == globals[o]
           b == Base(o)
           m == Len(Fact[o].items)
<1> SUFFICES Whole(c, g, i)
  OBVIOUS
<1>1. /\ Len(b) \in Nat /\ m \in Nat /\ Len(g) = Len(b) + m
      /\ \A n \in 1..Len(b) : g[n] = b[n]
      /\ \A n \in 1..m : g[Len(b) + n] = Own(o, n)
  BY Committed
<1>2. \A n \in 1..m : Own(o, n).op = o /\ Own(o, n).item = n
  BY DEF Own
<1>3. CASE i \in 1..Len(b) /\ chain[c]["snapshot"] # None /\ b = chain[c]["snapshot"]
  <2>1. Whole(c, b, i)
    BY <1>3, FactFields, AllOrNothingIsWhole DEF Book
  <2>2. b[i].op # o
    BY <1>3, OldOperations
  <2>3. g[i] = b[i] /\ (i > 1 => g[i-1] = b[i-1]) /\ (i < Len(b) => g[i+1] = b[i+1])
    BY <1>1, <1>3
  <2>4. ASSUME NEW j \in 1..Len(g), g[j].op = g[i].op, g[j].item = g[i].item
        PROVE  i = j
    <3>1. j \in 1..Len(b)
      BY <1>2, <2>2, <2>3, <2>4, Entries
    <3> QED BY <1>1, <2>1, <2>3, <2>4, <3>1 DEF Whole
  <2>5. i < Len(b) => i < Len(g)
    BY <1>1
  <2> HIDE DEF g, b, c
  <2> QED BY <2>1, <2>3, <2>4, <2>5 DEF Whole
<1>4. ASSUME NEW n \in 1..m, i = Len(b) + n, g[i] = Own(o, n)
      PROVE  Whole(c, g, i)
  <2>1. g[i].op = o /\ g[i].item = n
    BY <1>2, <1>4
  <2>2. n > 1 => i > 1 /\ g[i-1].op = o /\ g[i-1].item = n - 1
    <3> SUFFICES ASSUME n > 1 PROVE i > 1 /\ g[i-1].op = o /\ g[i-1].item = n - 1
      OBVIOUS
    <3>1. n - 1 \in 1..m /\ i - 1 = Len(b) + (n - 1) /\ i > 1
      BY <1>1, <1>4
    <3> QED BY <1>1, <1>2, <3>1
  <2>3. n < m => i < Len(g) /\ g[i+1].op = o /\ g[i+1].item = n + 1
    <3> SUFFICES ASSUME n < m PROVE i < Len(g) /\ g[i+1].op = o /\ g[i+1].item = n + 1
      OBVIOUS
    <3>1. n + 1 \in 1..m /\ i + 1 = Len(b) + (n + 1) /\ i < Len(g)
      BY <1>1, <1>4
    <3> QED BY <1>1, <1>2, <3>1
  <2>4. ASSUME NEW j \in 1..Len(g), g[j].op = o, g[j].item = n
        PROVE  i = j
    <3>1. CASE /\ j \in 1..Len(b) /\ chain[c]["snapshot"] # None
               /\ b = chain[c]["snapshot"] /\ g[j] = b[j]
      BY <2>4, <3>1, OldOperations
    <3>2. CASE \E l \in 1..m : j = Len(b) + l /\ g[j] = Own(o, l)
      BY <1>1, <1>2, <1>4, <2>4, <3>2
    <3> QED BY <3>1, <3>2, Entries
  <2> HIDE DEF g, b
  <2> QED BY <2>1, <2>2, <2>3, <2>4 DEF Whole
<1>5. \/ i \in 1..Len(b) /\ chain[c]["snapshot"] # None /\ b = chain[c]["snapshot"]
      \/ \E n \in 1..m : i = Len(b) + n /\ g[i] = Own(o, n)
  BY Entries
<1> HIDE DEF g, b, c, m
<1> QED BY <1>3, <1>4, <1>5

LEMMA SaveAllOrNothing ==
    ASSUME Inductive, Steps, Book, Save
    PROVE  AllOrNothing'
<1>1. ASSUME NEW c \in Contract, chain'[c]["snapshot"] # None,
             NEW i \in 1..Len(chain'[c]["snapshot"])
      PROVE  Whole(c, chain'[c]["snapshot"], i)
  <2>1. CASE chain'[c]["snapshot"] = chain[c]["snapshot"]
    BY <1>1, <2>1, AllOrNothingIsWhole DEF Book
  <2>2. ASSUME NEW o \in Op, Wrote(o, c, "snapshot"), chain'[c]["snapshot"] = globals[o]
        PROVE  Whole(c, chain'[c]["snapshot"], i)
    BY <1>1, <2>2, WholeOperation DEF Wrote
  <2> QED BY <2>1, <2>2, NewGlobals
<1> QED BY <1>1, AllOrNothingIsWholeNext

(* The block an operation is in is the one it saw. *)
LEMMA SaveInclusionTime ==
    ASSUME Inductive, Steps, Book, Save
    PROVE  InclusionTime'
<1> DEFINE Timed(e) == /\ e.op \in accepted'
                       /\ e.height \in 1..height'
                       /\ e.time = blockTime'[e.height]
<1>1. /\ height \in Nat /\ height' = height + 1 /\ accepted \subseteq accepted'
      /\ blockTime' = Append(blockTime, proposal.time)
      /\ blockTime \in Seq(Time) /\ Len(blockTime) = height
      /\ proposal.time \in Time
  BY DEF Save, NoProposal, Inductive, TypeOK, Steps, Settled
<1>2. /\ \A h \in 1..height : blockTime'[h] = blockTime[h]
      /\ blockTime'[height'] = proposal.time
  BY <1>1, AppendProperties
<1>3. ASSUME NEW c \in Contract, chain[c]["snapshot"] # None,
             NEW i \in 1..Len(chain[c]["snapshot"])
      PROVE  /\ Timed(chain[c]["snapshot"][i])
             /\ chain[c]["snapshot"][i].height \in 1..height
  BY <1>1, <1>2, <1>3 DEF Book, InclusionTime
<1>4. ASSUME NEW o \in Op, Merging(o), NEW j \in 1..Len(Fact[o].items)
      PROVE  Timed(Own(o, j)) /\ Own(o, j).height = height'
  BY <1>1, <1>2, <1>4, Committed DEF Own
<1>5. ASSUME NEW c \in Contract, chain'[c]["snapshot"] # None
      PROVE  /\ \A i \in 1..Len(chain'[c]["snapshot"]) : Timed(chain'[c]["snapshot"][i])
             /\ \A i, j \in 1..Len(chain'[c]["snapshot"]) : i < j =>
                   chain'[c]["snapshot"][i].height <= chain'[c]["snapshot"][j].height
  <2>1. CASE chain'[c]["snapshot"] = chain[c]["snapshot"]
    BY <1>3, <1>5, <2>1 DEF Book, InclusionTime
  <2>2. ASSUME NEW o \in Op, Wrote(o, c, "snapshot"), chain'[c]["snapshot"] = globals[o]
        PROVE  /\ \A i \in 1..Len(globals[o]) : Timed(globals[o][i])
               /\ \A i, j \in 1..Len(globals[o]) : i < j =>
                     globals[o][i].height <= globals[o][j].height
    <3>1. Merging(o) /\ Fact[o].contract = c
      BY <2>2 DEF Wrote
    <3>2. ASSUME NEW i \in 1..Len(globals[o])
          PROVE  \/ /\ chain[c]["snapshot"] # None
                    /\ i \in 1..Len(chain[c]["snapshot"])
                    /\ globals[o][i] = chain[c]["snapshot"][i]
                    /\ i \in 1..Len(Base(o))
                 \/ /\ Timed(globals[o][i]) /\ globals[o][i].height = height'
                    /\ i > Len(Base(o))
      <4>1. Len(Base(o)) \in Nat
        BY <3>1, Committed
      <4> HIDE DEF Timed
      <4> QED BY <1>4, <3>1, <4>1, Entries
    <3>3. ASSUME NEW i \in 1..Len(globals[o]) PROVE Timed(globals[o][i])
      <4> HIDE DEF Timed
      <4> QED BY <1>3, <3>2
    <3>4. ASSUME NEW i \in 1..Len(globals[o]), NEW j \in 1..Len(globals[o]), i < j
          PROVE  globals[o][i].height <= globals[o][j].height
      <4>1. CASE j \in 1..Len(Base(o)) /\ chain[c]["snapshot"] # None
                 /\ globals[o][j] = chain[c]["snapshot"][j]
                 /\ j \in 1..Len(chain[c]["snapshot"])
        <5>1. /\ i \in 1..Len(chain[c]["snapshot"])
              /\ globals[o][i] = chain[c]["snapshot"][i]
          <6>1. Len(Base(o)) \in Nat
            BY <3>1, Committed
          <6>2. ~(i > Len(Base(o)))
            BY <3>4, <4>1, <6>1
          <6> QED BY <3>2, <6>2
        <5> QED BY <3>4, <4>1, <5>1 DEF Book, InclusionTime
      <4>2. CASE globals[o][j].height = height'
        <5>1. globals[o][i].height \in 1..height'
          BY <3>3
        <5> QED BY <1>1, <4>2, <5>1
      <4> QED BY <3>2, <4>1, <4>2
    <3> QED BY <3>3, <3>4
  <2> QED BY <2>1, <2>2, NewGlobals
<1> QED BY <1>5 DEF InclusionTime

(* A registration is pending for its contract and no other operation is. *)
LEMMA Registered ==
    ASSUME Inductive, Steps, Book, Save, NEW c \in Contract,
           pending[c]["snapshot"] # None, chain[c]["design"] = None,
           NEW o \in Op, Wrote(o, c, "snapshot")
    PROVE  /\ Fact[o].kind = "register"
           /\ globals[o][1].op = o
           /\ 1 \in 1..Len(globals[o])
<1>1. Merging(o) /\ Executing(o) /\ Fact[o].contract = c
  BY DEF Wrote, Merging, Executing
<1>2. Fact[o].kind = "register" /\ Base(o) = <<>>
  BY <1>1, BaseOf DEF OpKind
<1>3. Len(Base(o)) = 0
  BY <1>2
<1>4. globals[o][1] = Own(o, 1) /\ 1 \in 1..Len(globals[o])
  BY <1>1, <1>3, Committed
<1> QED BY <1>2, <1>4 DEF Own

(* A call keeps the first entry, the registration. *)
LEMMA Called ==
    ASSUME Inductive, Steps, Book, Save, NEW c \in Contract,
           pending[c]["snapshot"] # None, chain[c]["design"] # None,
           NEW o \in Op, Wrote(o, c, "snapshot")
    PROVE  /\ chain[c]["snapshot"] # None
           /\ globals[o][1] = chain[c]["snapshot"][1]
           /\ chain'[c]["design"] = chain[c]["design"]
           /\ chain'[c]["runtime"] = chain[c]["runtime"]
<1>1. Merging(o) /\ Executing(o) /\ Fact[o].contract = c
  BY DEF Wrote, Merging, Executing
<1>2. Base(o) = chain[c]["snapshot"] /\ chain[c]["snapshot"] # None
  BY <1>1, BaseOf DEF OpKind
<1>3. 1 \in 1..Len(Base(o))
  BY <1>1, <1>2, Committed DEF Book, Opened
<1>4. \A k \in Kind \ {"snapshot"} : pending[c][k] = None
  BY SaveCases DEF Kind
<1> QED BY <1>1, <1>2, <1>3, <1>4, Committed, SavedValue DEF Kind

LEMMA SaveAuthorised ==
    ASSUME Inductive, Steps, Book, Save
    PROVE  Authorised'
<1> SUFFICES ASSUME NEW c \in Contract, chain'[c]["design"] # None
             PROVE  /\ Fact[chain'[c]["snapshot"][1].op].sender \in Auth[c]
                    /\ Fact[chain'[c]["snapshot"][1].op].kind = "register"
                    /\ Program[chain'[c]["design"]].admissible
  BY DEF Authorised
<1>1. CASE chain'[c] = chain[c]
  BY <1>1 DEF Book, Authorised
<1>2. ASSUME NEW o \in Op, Wrote(o, c, "snapshot"), chain'[c]["snapshot"] = globals[o],
             pending[c]["snapshot"] # None
      PROVE  /\ Fact[globals[o][1].op].sender \in Auth[c]
             /\ Fact[globals[o][1].op].kind = "register"
             /\ Program[chain'[c]["design"]].admissible
  <2>1. CASE chain[c]["design"] # None
    BY <1>2, <2>1, Called DEF Book, Authorised
  <2>2. CASE chain[c]["design"] = None
    <3>1. Fact[o].kind = "register" /\ globals[o][1].op = o
      BY <1>2, <2>2, Registered
    <3>2. Fact[o].sender \in Auth[c]
      BY <1>2, <3>1 DEF Wrote, Merging, Executing, Steps, Gated
    <3>3. pending[c]["design"] # None /\ chain'[c]["design"] = pending[c]["design"]
      BY <2>2, SavedValue DEF Kind
    <3>4. PICK p \in Op : Wrote(p, c, "design")
      BY <3>3 DEF Steps, FromOne, Kind
    <3>5. pending[c]["design"] = Fact[p].source /\ Fact[p].kind = "register"
      BY <3>4, FactFields DEF Wrote, MergeValue, OpKind
    <3>6. Program[Fact[p].source].admissible
      BY <3>4, <3>5 DEF Wrote, Started, Steps, Gated
    <3> QED BY <3>1, <3>2, <3>3, <3>5, <3>6
  <2> QED BY <2>1, <2>2
<1> QED BY <1>1, <1>2, NewGlobals

(* Unless operations raced, one operation wrote all that is pending. *)
LEMMA Alone ==
    ASSUME Inductive, Steps, Save, NEW c \in Contract, c \notin raced',
           NEW o \in Op, Merging(o), Fact[o].contract = c,
           NEW p \in Op, Merging(p), Fact[p].contract = c
    PROVE  o = p
BY AllDone DEF Save

LEMMA SaveOneRegistration ==
    ASSUME Inductive, Steps, Book, Save
    PROVE  OneRegistration'
<1> SUFFICES ASSUME NEW c \in Contract, c \notin raced', chain'[c]["design"] # None
             PROVE  /\ chain'[c]["runtime"] = <<c, chain'[c]["design"]>>
                    /\ Fact[chain'[c]["snapshot"][1].op].source = chain'[c]["design"]
  BY DEF OneRegistration
<1>1. c \notin raced
  BY DEF Save
<1>2. CASE chain'[c] = chain[c]
  BY <1>1, <1>2 DEF Book, OneRegistration
<1>3. ASSUME NEW o \in Op, Wrote(o, c, "snapshot"), chain'[c]["snapshot"] = globals[o],
             pending[c]["snapshot"] # None
      PROVE  /\ chain'[c]["runtime"] = <<c, chain'[c]["design"]>>
             /\ Fact[globals[o][1].op].source = chain'[c]["design"]
  <2>1. CASE chain[c]["design"] # None
    BY <1>1, <1>3, <2>1, Called DEF Book, OneRegistration
  <2>2. CASE chain[c]["design"] = None
    <3>1. globals[o][1].op = o
      BY <1>3, <2>2, Registered
    <3>2. /\ pending[c]["design"] # None /\ chain'[c]["design"] = pending[c]["design"]
          /\ pending[c]["runtime"] # None /\ chain'[c]["runtime"] = pending[c]["runtime"]
      BY <2>2, SavedValue, SaveCases DEF Kind
    <3>3. Wrote(o, c, "design") /\ Wrote(o, c, "runtime")
      BY <1>3, <3>2, Alone DEF Steps, FromOne, Kind, Wrote
    <3>4. Fact[o].contract = c
      BY <3>3 DEF Wrote
    <3> QED BY <3>1, <3>2, <3>3, <3>4 DEF Wrote, MergeValue
  <2> QED BY <2>1, <2>2
<1> QED BY <1>2, <1>3, NewGlobals

LEMMA SaveNoLostUpdate ==
    ASSUME Inductive, Steps, Book, Save
    PROVE  NoLostUpdate'
<1> SUFFICES ASSUME NEW c \in Contract, c \notin raced', NEW o \in accepted',
                    Fact[o].contract = c
             PROVE  \E i \in 1..Len(chain'[c]["snapshot"]) :
                       chain'[c]["snapshot"][i].op = o
  BY DEF NoLostUpdate
<1>1. o \in Op /\ "snapshot" \in Kind
  BY DEF Inductive, TypeOK, Save, Done, Kind
<1>2. CASE o \in accepted
  <2>1. chain[c]["snapshot"] # None
    BY <1>2 DEF Book, Opened
  <2>2. PICK i \in 1..Len(chain[c]["snapshot"]) : chain[c]["snapshot"][i].op = o
    BY <1>2 DEF Book, NoLostUpdate, Save
  <2>3. CASE chain'[c]["snapshot"] = chain[c]["snapshot"]
    BY <2>2, <2>3
  <2>4. ASSUME NEW p \in Op, Wrote(p, c, "snapshot"), chain'[c]["snapshot"] = globals[p]
        PROVE  \E j \in 1..Len(globals[p]) : globals[p][j].op = o
    <3>1. Merging(p) /\ Executing(p) /\ Fact[p].contract = c
      BY <2>4 DEF Wrote, Merging, Executing
    <3>2. Base(p) = chain[c]["snapshot"]
      BY <2>1, <3>1, BaseOf DEF OpKind
    <3>3. globals[p][i] = Base(p)[i] /\ i \in 1..Len(globals[p])
      <4>1. /\ Len(Base(p)) \in Nat /\ Len(Fact[p].items) \in Nat
            /\ Len(globals[p]) = Len(Base(p)) + Len(Fact[p].items)
            /\ \A n \in 1..Len(Base(p)) : globals[p][n] = Base(p)[n]
        BY <3>1, Committed
      <4>2. i \in 1..Len(Base(p))
        BY <3>2
      <4> QED BY <4>1, <4>2
    <3> QED BY <2>2, <3>2, <3>3
  <2> QED BY <2>3, <2>4, NewGlobals
<1>3. CASE o \notin accepted
  <2>1. pc[o] = "done" /\ Merging(o)
    BY <1>3 DEF Save, Done, Merging
  <2>2. merged[o] = Len(MergeKinds(Fact[o])) /\ Len(MergeKinds(Fact[o])) \in Nat \ {0}
    BY <1>1, <2>1, MergeKindsShape DEF Inductive, Landed
  <2>3. MergeKinds(Fact[o])[1] = "snapshot" /\ 1 \in 1..merged[o]
    BY <2>2 DEF MergeKinds
  <2>4. pending[c]["snapshot"] # None
    BY <1>1, <2>3 DEF Inductive, Landed
  <2>5. PICK p \in Op : Wrote(p, c, "snapshot") /\ chain'[c]["snapshot"] = globals[p]
    BY <2>4, NewGlobals
  <2>6. p = o
    BY <1>1, <2>1, <2>5, Alone DEF Wrote
  <2>7. /\ Len(Base(o)) \in Nat /\ Len(Fact[o].items) \in Nat \ {0}
        /\ Len(globals[o]) = Len(Base(o)) + Len(Fact[o].items)
        /\ \A n \in 1..Len(Fact[o].items) : globals[o][Len(Base(o)) + n] = Own(o, n)
    BY <1>1, <2>1, Committed
  <2>8. Len(Base(o)) + 1 \in 1..Len(globals[o])
        /\ globals[o][Len(Base(o)) + 1] = Own(o, 1)
    BY <2>7
  <2> QED BY <2>5, <2>6, <2>8 DEF Own
<1> QED BY <1>2, <1>3

(* The books are kept by saving blocks, and nothing else touches them. *)
LEMMA BookStays ==
    ASSUME Book, UNCHANGED blockVars
    PROVE  Book'
<1>1. Opened' /\ OneRegistration' /\ NoLostUpdate' /\ Authorised'
  BY DEF Book, Opened, OneRegistration, NoLostUpdate, Authorised, blockVars
<1>2. AllOrNothing'
  BY AllOrNothingIsWhole, AllOrNothingIsWholeNext DEF Book, blockVars
<1>3. InclusionTime'
  BY DEF Book, InclusionTime, blockVars
<1> QED BY <1>1, <1>2, <1>3 DEF Book

LEMMA BookNext ==
    ASSUME Inductive, Steps, Book, [Next]_vars
    PROVE  Book'
<1>1. CASE Save
  BY <1>1, SaveOpened, SaveAllOrNothing, SaveInclusionTime, SaveAuthorised,
     SaveOneRegistration, SaveNoLostUpdate DEF Book
<1>2. CASE ~Save
  <2>1. UNCHANGED blockVars
    BY <1>2 DEF Next, vars, Propose, PreProcess, Process, StartMachine, FailStart,
                Invoke, FailInvoke, Capture, MergeNext, GiveUp
  <2> QED BY <2>1, BookStays
<1> QED BY <1>1, <1>2

LEMMA BookInit == Init => Book
<1> SUFFICES ASSUME Init PROVE Book
  OBVIOUS
<1>1. /\ accepted = {}
      /\ \A c \in Contract : chain[c]["snapshot"] = None /\ chain[c]["design"] = None
  BY DEF Init, Kind
<1> QED BY <1>1 DEF Book, Opened, AllOrNothing, InclusionTime, Authorised,
                    OneRegistration, NoLostUpdate

LEMMA HistoryInvariance == Spec => []HistoryInv
<1>1. Init => HistoryInv
  BY InitInductive, StepsInit, BookInit DEF HistoryInv
<1>2. HistoryInv /\ [Next]_vars => HistoryInv'
  BY NextInductive, StepsNext, BookNext DEF HistoryInv
<1> QED BY <1>1, <1>2, PTL DEF Spec

---------------------------------------------------------------------------
(* The theorems.                                                           *)

(* A batch is in the committed globals with all its items, in order, or    *)
(* not at all, and never twice.                                            *)
THEOREM WholeBatches == Spec => []AllOrNothing
<1>1. HistoryInv => AllOrNothing
  BY DEF HistoryInv, Book
<1> QED BY <1>1, HistoryInvariance, PTL

(* What a contract saw as height and time is that of the block that holds  *)
(* the operation, whatever proposals were given up before it.              *)
THEOREM TimeOfInclusion == Spec => []InclusionTime
<1>1. HistoryInv => InclusionTime
  BY DEF HistoryInv, Book
<1> QED BY <1>1, HistoryInvariance, PTL

(* Code is deployed by those the account authorises, and passed admission. *)
THEOREM DeployedByOwner == Spec => []Authorised
<1>1. HistoryInv => Authorised
  BY DEF HistoryInv, Book
<1> QED BY <1>1, HistoryInvariance, PTL

(* Without a race in one block, the states of a contract are of one        *)
(* registration.                                                           *)
THEOREM StatesOfOneRegistration == Spec => []OneRegistration
<1>1. HistoryInv => OneRegistration
  BY DEF HistoryInv, Book
<1> QED BY <1>1, HistoryInvariance, PTL

(* Without a race in one block, no accepted operation is lost. *)
THEOREM NothingLost == Spec => []NoLostUpdate
<1>1. HistoryInv => NoLostUpdate
  BY DEF HistoryInv, Book
<1> QED BY <1>1, HistoryInvariance, PTL

---------------------------------------------------------------------------
(* The refinement.                                                         *)

(* The operation whose globals a block commits is one the ledger may apply *)
(* to the contract, and the globals are what the ledger then has.          *)
LEMMA AppliedByLedger ==
    ASSUME Inductive, Steps, Book, Save, NEW c \in Contract,
           NEW o \in Op, Wrote(o, c, "snapshot")
    PROVE  /\ Ledger!MayApply(c, o)
           /\ globals[o] = Ledger!Apply(c, o, proposal.time)
<1>1. Merging(o) /\ Executing(o) /\ Fact[o].contract = c /\ Fact[o].kind \in OpKind
  BY FactFields DEF Wrote, Merging, Executing
<1> DEFINE inv == Ledger!Invocations(o, proposal.time)
<1>2. /\ Base(o) \in Globals /\ globals[o] \in Globals
      /\ Len(Base(o)) \in Nat /\ Len(Fact[o].items) \in Nat \ {0}
      /\ Len(globals[o]) = Len(Base(o)) + Len(Fact[o].items)
      /\ \A i \in 1..Len(Base(o)) : globals[o][i] = Base(o)[i]
      /\ \A i \in 1..Len(Fact[o].items) : globals[o][Len(Base(o)) + i] = Own(o, i)
  BY <1>1, Committed
<1>3. /\ inv = [i \in 1..Len(Fact[o].items) |-> Own(o, i)]
  BY DEF Ledger!Invocations, Own
<1>4. \A i \in 1..Len(Fact[o].items) : Own(o, i) \in Entry
  <2> SUFFICES ASSUME NEW i \in 1..Len(Fact[o].items) PROVE Own(o, i) \in Entry
    OBVIOUS
  <2>1. Len(Base(o)) + i \in 1..Len(globals[o])
    BY <1>2
  <2>2. globals[o][Len(Base(o)) + i] \in Entry
    BY <1>2, <2>1 DEF Globals
  <2> QED BY <1>2, <2>2
<1>5. inv \in Globals /\ Len(inv) = Len(Fact[o].items)
  BY <1>2, <1>3, <1>4 DEF Globals
<1>6. \A i \in 1..Len(inv) : inv[i] = Own(o, i)
  BY <1>3, <1>5
<1> HIDE DEF inv
<1>7. globals[o] = Base(o) \o inv
  <2>1. Base(o) \o inv \in Globals /\ Len(Base(o) \o inv) = Len(Base(o)) + Len(inv)
    BY <1>2, <1>5, ConcatProperties DEF Globals
  <2>2. \A i \in 1..Len(globals[o]) : globals[o][i] = (Base(o) \o inv)[i]
    <3> SUFFICES ASSUME NEW i \in 1..Len(globals[o])
                 PROVE  globals[o][i] = (Base(o) \o inv)[i]
      OBVIOUS
    <3>1. CASE i \in 1..Len(Base(o))
      BY <1>2, <1>5, <3>1, ConcatProperties DEF Globals
    <3>2. CASE i \notin 1..Len(Base(o))
      <4>1. i - Len(Base(o)) \in 1..Len(inv) /\ Len(Base(o)) + (i - Len(Base(o))) = i
            /\ i > Len(Base(o)) /\ i <= Len(Base(o)) + Len(inv)
        BY <1>2, <1>5, <3>2
      <4>2. (Base(o) \o inv)[i] = inv[i - Len(Base(o))]
        BY <1>2, <1>5, <4>1, ConcatProperties DEF Globals
      <4> QED BY <1>2, <1>5, <1>6, <4>1, <4>2
    <3> QED BY <3>1, <3>2
  <2> QED BY ZenonT(30), <1>2, <1>5, <2>1, <2>2, SeqEqual DEF Globals
<1>8. CASE Fact[o].kind = "register"
  <2>1. chain[c]["snapshot"] = None /\ Base(o) = <<>>
    BY <1>1, <1>8, BaseOf
  <2>2. globals[o] = inv
    BY <1>5, <1>7, <2>1, ConcatEmptySeq DEF Globals
  <2> QED BY <1>1, <1>8, <2>1, <2>2 DEF Ledger!MayApply, Ledger!Apply, inv
<1>9. CASE Fact[o].kind = "call"
  <2>1. chain[c]["snapshot"] # None /\ Base(o) = chain[c]["snapshot"]
    BY <1>1, <1>9, BaseOf
  <2>2. Ledger!Unused(c, o)
    BY <1>1, <2>1, OldOperations DEF Ledger!Unused
  <2> QED BY <1>1, <1>7, <1>9, <2>1, <2>2 DEF Ledger!MayApply, Ledger!Apply, inv
<1> QED BY <1>1, <1>8, <1>9 DEF OpKind

(* A saved block is a block of the ledger. *)
LEMMA SaveIsBlock ==
    ASSUME Inductive, Steps, Book, Save
    PROVE  Ledger!LedgerNext
<1> DEFINE t == proposal.time
           who(c) == CHOOSE o \in Op : Wrote(o, c, "snapshot")
           winner == [c \in Contract |-> IF pending[c]["snapshot"] = None
                                           THEN None ELSE who(c)]
<1>1. t \in Time /\ height' = height + 1
  BY DEF Save, NoProposal, Inductive, TypeOK
<1>2. ASSUME NEW c \in Contract, pending[c]["snapshot"] # None
      PROVE  /\ who(c) \in Op /\ Wrote(who(c), c, "snapshot")
             /\ chain'[c]["snapshot"] = globals[who(c)]
  <2>1. \E o \in Op : Wrote(o, c, "snapshot")
    BY <1>2 DEF Steps, FromOne, Kind
  <2>2. who(c) \in Op /\ Wrote(who(c), c, "snapshot")
    BY <2>1
  <2>3. chain'[c]["snapshot"] = pending[c]["snapshot"]
    BY <1>2, SavedValue DEF Kind
  <2> QED BY <2>2, <2>3 DEF Wrote, MergeValue
<1> HIDE DEF who
<1>3. winner \in [Contract -> Op \cup {None}]
  BY <1>2
<1>4. ASSUME NEW c \in Contract
      PROVE  /\ winner[c] # None => Ledger!MayApply(c, winner[c])
             /\ chain'[c]["snapshot"] = IF winner[c] = None THEN chain[c]["snapshot"]
                                        ELSE Ledger!Apply(c, winner[c], t)
  <2>1. CASE pending[c]["snapshot"] = None
    BY <2>1, SavedValue DEF Kind
  <2>2. CASE pending[c]["snapshot"] # None
    <3>1. winner[c] = who(c) /\ winner[c] # None
      BY <1>2, <2>2, ProcessingAssumption
    <3>2. /\ Ledger!MayApply(c, who(c))
          /\ globals[who(c)] = Ledger!Apply(c, who(c), t)
      BY <1>2, <2>2, AppliedByLedger
    <3> QED BY <1>2, <2>2, <3>1, <3>2
  <2> QED BY <2>1, <2>2
<1> HIDE DEF winner
<1>5. [c \in Contract |-> chain'[c]["snapshot"]] =
         [c \in Contract |->
            IF winner[c] = None THEN [d \in Contract |-> chain[d]["snapshot"]][c]
                                ELSE Ledger!Apply(c, winner[c], t)]
  BY <1>4
<1>6. PICK s \in Time : s = t
  BY <1>1
<1>7. Ledger!Block(s)
  BY <1>1, <1>3, <1>4, <1>5, <1>6 DEF Ledger!Block
<1> QED BY <1>7 DEF Ledger!LedgerNext

(* The processing of proposals implements the ledger: a saved block is one *)
(* of its steps, every other step changes nothing it speaks of.            *)
THEOREM ProcessingImplementsLedger == Spec => ImplementsLedger
<1>1. Init => Ledger!LedgerInit
  BY DEF Init, Ledger!LedgerInit, Kind
<1>2. ASSUME HistoryInv, [Next]_vars
      PROVE  [Ledger!LedgerNext]_(Ledger!ledgerVars)
  <2>1. CASE Save
    BY <1>2, <2>1, SaveIsBlock DEF HistoryInv
  <2>2. CASE ~Save
    <3>1. UNCHANGED blockVars
      BY <1>2, <2>2 DEF Next, vars, Propose, PreProcess, Process, StartMachine,
         FailStart, Invoke, FailInvoke, Capture, MergeNext, GiveUp
    <3> QED BY <3>1 DEF blockVars, Ledger!ledgerVars
  <2> QED BY <2>1, <2>2
<1> QED BY <1>1, <1>2, HistoryInvariance, PTL
        DEF Spec, ImplementsLedger, Ledger!LedgerSpec
=============================================================================
