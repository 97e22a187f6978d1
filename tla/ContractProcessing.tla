------------------------- MODULE ContractProcessing -------------------------
(***************************************************************************)
(* A node working through proposals of contract operations.                *)
(*                                                                         *)
(* The consensus framework hands the node a proposal, pre-processes its    *)
(* operations, lets workers process the accepted ones concurrently against *)
(* the state of the previous block, merges what they return key by key     *)
(* with the last write winning, and saves the block or gives the proposal  *)
(* up.  The processors and the Gno engine of this repository decide what   *)
(* each of those steps does.                                               *)
(*                                                                         *)
(* The persistent globals of a contract are abstracted by the sequence of  *)
(* successful invocations that produced them: two histories are the same   *)
(* state only when they are the same history, which is the most any        *)
(* program could distinguish.                                              *)
(***************************************************************************)
EXTENDS ContractFacts

CONSTANTS
    Time,         \* proposal timestamps
    Auth,         \* accounts CheckCAAuth lets act for a contract account
    None,
    GasLimit,     \* the write gas limit
    RestoreGas,   \* gas of restoring one entry of the globals
    SnapshotLimit, \* the snapshot size limit, in entries
    MaxProposal   \* bound: operations in one proposal

Kind == {"snapshot", "runtime", "design", "account"}

(* One successful invocation, with the context it observed. *)
Entry == [op : Op, item : Nat, fn : FnName, time : Time, height : Nat]

Globals == Seq(Entry)

ASSUME ProcessingAssumption ==
    /\ Auth \in [Contract -> SUBSET Account]
    /\ GasLimit \in Nat
    /\ RestoreGas \in Nat
    /\ SnapshotLimit \in Nat
    /\ MaxProposal \in Nat
    /\ None \notin Op
    /\ None \notin Source
    /\ None \notin Contract \X Source
    /\ None \notin Globals
    /\ None \notin {"active", "inactive"}
    /\ None \notin [ops : SUBSET Op, time : Time]
    /\ None \notin [time : Time, height : Nat]

VARIABLES
    chain,     \* committed states: chain[c][k] for contract c and kind k
    height,    \* height of the last saved block
    blockTime, \* timestamp of every saved block
    included,  \* operations a saved block holds
    proposal,  \* the proposal being processed, or None
    bound,     \* what the pooled processor of each operation kind is bound to
    pc,        \* where each operation of the proposal stands
    globals,   \* globals of the machine an operation runs on
    gas,       \* consumption of the gas meter the operation's items share
    next,      \* item to invoke next
    merged,    \* how many of the operation's merge values are merged
    pending,   \* merged but unsaved states, None where nothing was merged
    accepted,  \* history: successful operations of saved blocks
    raced      \* history: contracts two operations of one block wrote

blockVars == <<chain, height, blockTime, included, accepted, raced>>
opVars    == <<pc, globals, gas, next, merged>>
vars      == <<blockVars, proposal, bound, opVars, pending>>

---------------------------------------------------------------------------

NoProposal == proposal = None

Nothing == [c \in Contract |-> [k \in Kind |-> None]]

Idle ==
    /\ pc = [o \in Op |-> "idle"]
    /\ globals = [o \in Op |-> <<>>]
    /\ gas = [o \in Op |-> 0]
    /\ next = [o \in Op |-> 1]
    /\ merged = [o \in Op |-> 0]

(* Contract accounts with an owner exist and are inactive; an address      *)
(* nobody is authorised for is not a contract account.                     *)
Init ==
    /\ chain = [c \in Contract |->
                  [k \in Kind |-> IF k = "account" /\ Auth[c] # {}
                                    THEN "inactive" ELSE None]]
    /\ height = 0
    /\ blockTime = <<>>
    /\ included = {}
    /\ proposal = None
    /\ bound = [k \in OpKind |-> None]
    /\ Idle
    /\ pending = Nothing
    /\ accepted = {}
    /\ raced = {}

(* The framework starts a proposal of operations no block holds yet. *)
Propose(ops, t) ==
    /\ NoProposal
    /\ ops # {}
    /\ Cardinality(ops) <= MaxProposal
    /\ proposal' = [ops |-> ops, time |-> t]
    /\ pc' = [o \in Op |-> IF o \in ops THEN "proposed" ELSE "idle"]
    /\ UNCHANGED <<blockVars, bound, globals, gas, next, merged, pending>>

---------------------------------------------------------------------------
(* PreProcess: the gates on the state of the previous block.               *)

(* Mutation: the checks that the account is still inactive are dropped. *)
RegisterGateTwice(f) ==
    /\ RegisterFactIsValid(f)
    /\ chain[f.contract]["account"] # None
    /\ f.sender \in Auth[f.contract]

(* Mutation: anybody may register. *)
RegisterGateAnybody(f) ==
    /\ RegisterFactIsValid(f)
    /\ chain[f.contract]["account"] = "inactive"
    /\ chain[f.contract]["design"] = None

RegisterGate(f) ==
    /\ RegisterFactIsValid(f)
    /\ chain[f.contract]["account"] = "inactive"
    /\ f.sender \in Auth[f.contract]
    /\ chain[f.contract]["design"] = None

CallGate(f) ==
    /\ CallFactIsValid(f)
    /\ chain[f.contract]["design"] # None
    /\ chain[f.contract]["runtime"] # None

Gate(f) == \/ f.kind = "register" /\ RegisterGate(f)
           \/ f.kind = "call" /\ CallGate(f)

(* The proposal's processor of the kind is taken from the pool and bound   *)
(* to the proposal when its first operation arrives.                       *)
NewProcessor(kind) ==
    bound' = [bound EXCEPT ![kind] = [time   |-> proposal.time,
                                      height |-> height + 1]]

PreProcess(o) ==
    /\ pc[o] = "proposed"
    /\ NewProcessor(Fact[o].kind)
    /\ pc' = [pc EXCEPT ![o] = IF Gate(Fact[o]) THEN "queued" ELSE "rejected"]
    /\ UNCHANGED <<blockVars, proposal, globals, gas, next, merged, pending>>

---------------------------------------------------------------------------
(* Process: ExecuteContract, one step per effect on the machine.           *)

(* The source an operation runs: a register brings it, a call loads it     *)
(* from the design.                                                        *)
SourceOf(f) == IF f.kind = "register" THEN f.source
                                      ELSE chain[f.contract]["design"]

(* Mutation: the stored snapshot is not restored. *)
StoredGlobalsForgotten(c) == <<>>

(* Mutation: an operation reads what another one of its block merged. *)
StoredGlobalsDirty(c) ==
    IF pending[c]["snapshot"] # None THEN pending[c]["snapshot"]
    ELSE IF chain[c]["snapshot"] # None THEN chain[c]["snapshot"] ELSE <<>>

StoredGlobals(c) == IF chain[c]["snapshot"] = None THEN <<>>
                                                   ELSE chain[c]["snapshot"]

StartupGas(f) == Program[SourceOf(f)].loadGas
                    + RestoreGas * Len(StoredGlobals(f.contract))

(* A register's source is validated first; only a call needs the runtime   *)
(* and snapshot states to exist.  Loading the package and restoring the    *)
(* snapshot are metered, and a snapshot over the limit is not restored.    *)
CanStart(f) ==
    /\ bound[f.kind] # None
    /\ \/ /\ f.kind = "register"
          /\ Program[f.source].admissible
       \/ /\ f.kind = "call"
          /\ chain[f.contract]["design"] # None
          /\ chain[f.contract]["runtime"] # None
          /\ chain[f.contract]["snapshot"] # None
    /\ StartupGas(f) <= GasLimit
    /\ Len(StoredGlobals(f.contract)) <= SnapshotLimit

StartMachine(o) ==
    /\ pc[o] = "queued"
    /\ CanStart(Fact[o])
    /\ pc' = [pc EXCEPT ![o] = "running"]
    /\ globals' = [globals EXCEPT ![o] = StoredGlobals(Fact[o].contract)]
    /\ gas' = [gas EXCEPT ![o] = StartupGas(Fact[o])]
    /\ UNCHANGED <<blockVars, proposal, bound, next, merged, pending>>

FailStart(o) ==
    /\ pc[o] = "queued"
    /\ ~CanStart(Fact[o])
    /\ pc' = [pc EXCEPT ![o] = "failed"]
    /\ UNCHANGED <<blockVars, proposal, bound, globals, gas, next, merged,
                   pending>>

(* invokeTypedWrite looks the function up by name, builds its arguments    *)
(* and evaluates the call: the machine rejects a first parameter that is   *)
(* not a WriteContext, and any result but a nil error is a failure.        *)
Succeeds(o, it) ==
    LET src == SourceOf(Fact[o])
        fn  == Program[src].functions[it.fn]
    IN  /\ Fact[o].kind = "call" => it.fn # "Initialize"
        /\ it.fn \in Functions(src)
        /\ ArgsBuild(Fact[o].kind, fn, it.data)
        /\ fn.ctx = "write"
        /\ fn.results = "error"
        /\ \/ fn.body = "ok"
           \/ fn.body = "once" /\ \A i \in 1..Len(globals[o]) :
                                     globals[o][i].fn # it.fn
        /\ gas[o] + fn.gas <= GasLimit

InvocationOf(o, it) ==
    [op     |-> o,
     item   |-> next[o],
     fn     |-> it.fn,
     time   |-> bound[Fact[o].kind].time,
     height |-> bound[Fact[o].kind].height]

Invoke(o) ==
    /\ pc[o] = "running"
    /\ next[o] <= Len(Fact[o].items)
    /\ LET it == Fact[o].items[next[o]]
       IN  /\ Succeeds(o, it)
           /\ globals' = [globals EXCEPT ![o] = Append(@, InvocationOf(o, it))]
           /\ gas' = [gas EXCEPT ![o] =
                        @ + Program[SourceOf(Fact[o])].functions[it.fn].gas]
    /\ next' = [next EXCEPT ![o] = @ + 1]
    /\ UNCHANGED <<blockVars, proposal, bound, pc, merged, pending>>

(* Mutation: a failing item is skipped. *)
FailInvokeSkips(o) ==
    /\ pc[o] = "running"
    /\ next[o] <= Len(Fact[o].items)
    /\ ~Succeeds(o, Fact[o].items[next[o]])
    /\ next' = [next EXCEPT ![o] = @ + 1]
    /\ UNCHANGED <<blockVars, proposal, bound, pc, globals, gas, merged,
                   pending>>

(* One failing item fails the operation: nothing it did is returned. *)
FailInvoke(o) ==
    /\ pc[o] = "running"
    /\ next[o] <= Len(Fact[o].items)
    /\ ~Succeeds(o, Fact[o].items[next[o]])
    /\ pc' = [pc EXCEPT ![o] = "failed"]
    /\ UNCHANGED <<blockVars, proposal, bound, globals, gas, next, merged,
                   pending>>

(* Mutation: the capture does not check the limits of the snapshot. *)
CaptureUnchecked(o) ==
    /\ pc[o] = "running"
    /\ next[o] > Len(Fact[o].items)
    /\ pc' = [pc EXCEPT ![o] = "merging"]
    /\ UNCHANGED <<blockVars, proposal, bound, globals, gas, next, merged,
                   pending>>

(* CaptureSnapshot applies the limits RestoreSnapshot will apply. *)
Capture(o) ==
    /\ pc[o] = "running"
    /\ next[o] > Len(Fact[o].items)
    /\ pc' = [pc EXCEPT ![o] = IF Len(globals[o]) <= SnapshotLimit
                                 THEN "merging" ELSE "failed"]
    /\ UNCHANGED <<blockVars, proposal, bound, globals, gas, next, merged,
                   pending>>

---------------------------------------------------------------------------
(* What a successful operation returns, and the framework merging it.      *)

(* Mutation: a registration forgets to activate the account. *)
MergeKindsInactive(f) ==
    IF f.kind = "call" THEN <<"snapshot">>
                       ELSE <<"snapshot", "runtime", "design">>

(* The merge values in the order Process returns them. *)
MergeKinds(f) ==
    IF f.kind = "call" THEN <<"snapshot">>
    ELSE IF chain[f.contract]["runtime"] = None
         THEN <<"snapshot", "runtime", "design", "account">>
         ELSE <<"snapshot", "design", "account">>

(* Mutation: the values of the runtime and the design key are swapped. *)
MergeValueSwapped(o, k) ==
    CASE k = "snapshot" -> globals[o]
      [] k = "runtime"  -> Fact[o].source
      [] k = "design"   -> <<Fact[o].contract, Fact[o].source>>
      [] k = "account"  -> "active"

(* deriveRuntimeState hashes the address and the source into the path. *)
MergeValue(o, k) ==
    CASE k = "snapshot" -> globals[o]
      [] k = "runtime"  -> <<Fact[o].contract, Fact[o].source>>
      [] k = "design"   -> Fact[o].source
      [] k = "account"  -> "active"

MergeNext(o) ==
    /\ pc[o] = "merging"
    /\ LET k == MergeKinds(Fact[o])[merged[o] + 1]
       IN  pending' = [pending EXCEPT ![Fact[o].contract][k] = MergeValue(o, k)]
    /\ merged' = [merged EXCEPT ![o] = @ + 1]
    /\ pc' = [pc EXCEPT ![o] = IF merged[o] + 1 = Len(MergeKinds(Fact[o]))
                                 THEN "done" ELSE "merging"]
    /\ UNCHANGED <<blockVars, proposal, bound, globals, gas, next>>

---------------------------------------------------------------------------
(* The end of a proposal.                                                  *)

(* Close puts the processors back into the pool without their proposal. *)
CloseProcessors == bound' = [k \in OpKind |-> None]

(* Mutation: states merged for a proposal survive its end. *)
ResetKeepsPending ==
    /\ proposal' = None
    /\ CloseProcessors
    /\ pc' = [o \in Op |-> "idle"]
    /\ globals' = [o \in Op |-> <<>>]
    /\ gas' = [o \in Op |-> 0]
    /\ next' = [o \in Op |-> 1]
    /\ merged' = [o \in Op |-> 0]
    /\ UNCHANGED pending

Reset ==
    /\ proposal' = None
    /\ CloseProcessors
    /\ pc' = [o \in Op |-> "idle"]
    /\ globals' = [o \in Op |-> <<>>]
    /\ gas' = [o \in Op |-> 0]
    /\ next' = [o \in Op |-> 1]
    /\ merged' = [o \in Op |-> 0]
    /\ pending' = Nothing

(* Mutation: an operation that failed to execute is waited for. *)
FinishedWithoutFailed == {"done", "rejected"}

Finished == {"done", "rejected", "failed"}

Done == {o \in Op : pc[o] = "done"}

(* The block holds every operation of the proposal, and the states merged. *)
Save ==
    /\ ~NoProposal
    /\ \A o \in proposal.ops : pc[o] \in Finished
    /\ chain' = [c \in Contract |-> [k \in Kind |->
                   IF pending[c][k] = None THEN chain[c][k]
                                           ELSE pending[c][k]]]
    /\ height' = height + 1
    /\ blockTime' = Append(blockTime, proposal.time)
    /\ included' = included \cup proposal.ops
    /\ accepted' = accepted \cup Done
    /\ raced' = raced \cup {c \in Contract : \E o1, o2 \in Done :
                               /\ o1 # o2
                               /\ Fact[o1].contract = c
                               /\ Fact[o2].contract = c}
    /\ Reset

(* A failed round or a restart: whatever was executed is discarded and the *)
(* operations wait for a later proposal.                                   *)
GiveUp ==
    /\ ~NoProposal
    /\ Reset
    /\ UNCHANGED blockVars

Process(o) ==
    \/ StartMachine(o) \/ FailStart(o)
    \/ Invoke(o) \/ FailInvoke(o)
    \/ Capture(o)

Next ==
    \/ \E ops \in SUBSET (Op \ included), t \in Time : Propose(ops, t)
    \/ \E o \in Op : PreProcess(o)
    \/ \E o \in Op : Process(o)
    \/ \E o \in Op : MergeNext(o)
    \/ Save
    \/ GiveUp

Spec == Init /\ [][Next]_vars

(* Workers and the writer keep going; nothing forces a round to fail. *)
FairSpec ==
    /\ Spec
    /\ WF_vars(\E o \in Op : PreProcess(o) \/ Process(o) \/ MergeNext(o))
    /\ WF_vars(Save)

---------------------------------------------------------------------------
(* Types.                                                                  *)

PC == {"idle", "proposed", "queued", "running", "merging",
       "done", "rejected", "failed"}

Value(k) ==
    CASE k = "snapshot" -> Globals
      [] k = "runtime"  -> Contract \X Source
      [] k = "design"   -> Source
      [] k = "account"  -> {"active", "inactive"}

IsStates(s) ==
    /\ s = [c \in Contract |-> [k \in Kind |-> s[c][k]]]
    /\ \A c \in Contract, k \in Kind : s[c][k] = None \/ s[c][k] \in Value(k)

(* Every variable stays in its type: committed and pending states hold the *)
(* values of state/state.go, operations are at a point of processing.      *)
TypeOK ==
    /\ IsStates(chain)
    /\ height \in Nat
    /\ blockTime \in Seq(Time)
    /\ included \subseteq Op
    /\ proposal = None \/ proposal \in [ops : SUBSET Op, time : Time]
    /\ bound \in [OpKind -> [time : Time, height : Nat] \cup {None}]
    /\ pc \in [Op -> PC]
    /\ globals \in [Op -> Globals]
    /\ gas \in [Op -> Nat]
    /\ next \in [Op -> Nat \ {0}]
    /\ merged \in [Op -> Nat]
    /\ IsStates(pending)
    /\ accepted \subseteq Op
    /\ raced \subseteq Contract

---------------------------------------------------------------------------
(* Safety.                                                                 *)

(* The four states of a contract appear together: whatever operations of   *)
(* a block raced and in whatever order their merge values landed, an       *)
(* account is active exactly when its design, runtime and snapshot exist.  *)
(* A call that found a design but no snapshot could never succeed again.   *)
Coherent ==
    \A c \in Contract :
        LET s == chain[c]
        IN  /\ (s["design"] # None) <=> (s["account"] = "active")
            /\ (s["runtime"] # None) <=> (s["account"] = "active")
            /\ (s["snapshot"] # None) <=> (s["account"] = "active")

(* The design, the runtime path and the globals of a contract come from    *)
(* one registration. CheckDuplication lets two registrations of a contract *)
(* into one block, and only then may they mix.                             *)
OneRegistration ==
    \A c \in Contract \ raced :
        chain[c]["design"] # None =>
            /\ chain[c]["runtime"] = <<c, chain[c]["design"]>>
            /\ Fact[chain[c]["snapshot"][1].op].source = chain[c]["design"]

(* No accepted operation is lost: unless two operations of one block wrote *)
(* the contract, its globals are what every accepted operation left.       *)
NoLostUpdate ==
    \A c \in Contract \ raced, o \in accepted :
        Fact[o].contract = c =>
            \E i \in 1..Len(chain[c]["snapshot"]) : chain[c]["snapshot"][i].op = o

(* An operation is all or nothing: committed globals hold either every     *)
(* item of a batch, in order and adjacent, or none, and hold it once.      *)
AllOrNothing ==
    \A c \in Contract : chain[c]["snapshot"] # None =>
        LET g == chain[c]["snapshot"]
        IN  \A i \in 1..Len(g) :
               /\ Fact[g[i].op].contract = c
               /\ g[i].item > 1 =>
                     i > 1 /\ g[i-1].op = g[i].op /\ g[i-1].item = g[i].item - 1
               /\ g[i].item < Len(Fact[g[i].op].items) =>
                     /\ i < Len(g)
                     /\ g[i+1].op = g[i].op
                     /\ g[i+1].item = g[i].item + 1
               /\ \A j \in 1..Len(g) :
                     g[j].op = g[i].op /\ g[j].item = g[i].item => i = j

(* Inclusion time: what a contract saw as block height and block time is   *)
(* the height and the timestamp of the block that holds the operation,     *)
(* also when earlier proposals with the operation were given up.           *)
InclusionTime ==
    \A c \in Contract : chain[c]["snapshot"] # None =>
        LET g == chain[c]["snapshot"]
        IN  /\ \A i \in 1..Len(g) :
                  /\ g[i].op \in accepted
                  /\ g[i].height \in 1..height
                  /\ g[i].time = blockTime[g[i].height]
            /\ \A i, j \in 1..Len(g) : i < j => g[i].height <= g[j].height

(* What CaptureSnapshot lets into the chain RestoreSnapshot takes out      *)
(* again: no committed snapshot exceeds the limit, so no contract is       *)
(* locked by the size of its own state.                                    *)
Restorable ==
    \A c \in Contract : chain[c]["snapshot"] # None =>
        Len(chain[c]["snapshot"]) <= SnapshotLimit

(* Only the owner's side of a contract account can have deployed to it,    *)
(* and only an admissible source.                                          *)
Authorised ==
    \A c \in Contract : chain[c]["design"] # None =>
        /\ Fact[chain[c]["snapshot"][1].op].sender \in Auth[c]
        /\ Fact[chain[c]["snapshot"][1].op].kind = "register"
        /\ Program[chain[c]["design"]].admissible

(* Contract-language-support.md: a write function is an exported function  *)
(* of write shape. Every invocation that changed a contract, other than    *)
(* the registration's Initialize, was one of such a function.              *)
OnlyWriteFunctionsRun ==
    \A c \in Contract : chain[c]["snapshot"] # None =>
        \A i \in 2..Len(chain[c]["snapshot"]) :
            LET f == chain[c]["snapshot"][i].fn
            IN  IsTypedWriteShape(f, Program[chain[c]["design"]].functions[f])

(* A registration is final: no later block changes the code or the runtime *)
(* of a contract or takes the account out of service.                      *)
RegistrationIsFinal ==
    [][\A c \in Contract : chain[c]["design"] # None =>
          /\ chain'[c]["design"] = chain[c]["design"]
          /\ chain'[c]["runtime"] = chain[c]["runtime"]
          /\ chain'[c]["account"] = chain[c]["account"]]_chain

(* The processing of proposals implements the ledger: a saved block is one *)
(* step of it, everything before the save is invisible.                    *)
Ledger == INSTANCE ContractLedger
            WITH book <- [c \in Contract |-> chain[c]["snapshot"]]

ImplementsLedger == Ledger!LedgerSpec

(* A proposal never hangs on its contract operations. *)
ProposalResolves == ~NoProposal ~> NoProposal
---------------------------------------------------------------------------
(* The inductive invariant behind Coherent, Restorable and                 *)
(* RegistrationIsFinal: what holds between the steps of a proposal.        *)

Executing(o) == pc[o] \in {"queued", "running", "merging", "done"}

(* Only operations of a proposal are being worked on, by a processor that  *)
(* is bound to the proposal.                                               *)
InProposal ==
    /\ \A o \in Op : pc[o] # "idle" => ~NoProposal /\ o \in proposal.ops
    /\ \A o \in Op : Executing(o) => bound[Fact[o].kind] # None

(* The gates an operation passed still hold, as nothing is saved meanwhile. *)
GatesHold ==
    \A o \in Op : Executing(o) =>
        IF Fact[o].kind = "register"
        THEN chain[Fact[o].contract]["account"] = "inactive"
        ELSE chain[Fact[o].contract]["design"] # None

(* An operation has merged a prefix of its values, and nothing else is     *)
(* pending.                                                                *)
Landed ==
    /\ \A o \in Op :
          /\ pc[o] = "merging" => merged[o] < Len(MergeKinds(Fact[o]))
          /\ pc[o] = "done" => merged[o] = Len(MergeKinds(Fact[o]))
          /\ pc[o] \notin {"merging", "done"} => merged[o] = 0
          /\ \A j \in 1..merged[o] :
                pending[Fact[o].contract][MergeKinds(Fact[o])[j]] # None
    /\ \A c \in Contract, k \in Kind : pending[c][k] # None =>
          \E o \in Op : /\ pc[o] \in {"merging", "done"}
                        /\ Fact[o].contract = c
                        /\ Fact[o].kind = "call" => k = "snapshot"
    /\ \A c \in Contract : pending[c]["account"] \in {None, "active"}

Fits(g) == g # None => Len(g) <= SnapshotLimit

SizesChecked ==
    /\ \A o \in Op : pc[o] \in {"merging", "done"} => Fits(globals[o])
    /\ \A c \in Contract : Fits(pending[c]["snapshot"])

Inductive ==
    /\ TypeOK
    /\ InProposal
    /\ GatesHold
    /\ Landed
    /\ SizesChecked
    /\ Coherent
    /\ Restorable
=============================================================================
