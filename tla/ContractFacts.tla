--------------------------- MODULE ContractFacts ---------------------------
(***************************************************************************)
(* The facts of the two contract operations, RegisterContract and          *)
(* CallContract, and the typed Gno programs they deploy and call.          *)
(*                                                                         *)
(* A source is known by what the runtime asks of it: whether its size and  *)
(* its schema pass admission, and for each top-level function the shape    *)
(* the schema analyser recorded, its gas and what its body does.  Call     *)
(* data is a function from keys to "good" (parses as the scalar of the     *)
(* parameter) or "bad".                                                    *)
(***************************************************************************)
EXTENDS Naturals, Sequences, FiniteSets

CONSTANTS
    Contract,     \* addresses the operations name as contract accounts
    Account,      \* addresses that sign operations
    Source,       \* contract sources
    FnName,       \* function names, "Initialize" among them
    Key,          \* call data keys
    Op,           \* operation hashes
    Fact,         \* the fact of each operation
    Program,      \* what the runtime knows of each source
    MaxCallItems, \* MaxCallContractItems, 16 in the code
    MaxEntries    \* entries of one call data map, 64 in the code

OpKind == {"register", "call"}

CallData == UNION {[K -> {"good", "bad"}] : K \in SUBSET Key}

Item == [fn : FnName, data : CallData]

(* The schema of one function: parseFunctionSchema keeps the name, whether *)
(* it is exported, the type of the first parameter, the scalar parameters  *)
(* after it and the results.  body is what the code of the function does.  *)
FunctionSchema ==
    [exported : BOOLEAN,
     ctx      : {"write", "query", "none"},
     params   : SUBSET Key,
     results  : {"error", "value"},
     gas      : Nat,
     body     : {"ok", "error", "once"}]

(* A call carries the items of the batch, a register the one invocation of *)
(* Initialize with its init data.                                          *)
FactType ==
    [kind     : OpKind,
     sender   : Account,
     contract : Contract,
     source   : Source,
     items    : Seq(Item)]

Functions(src) == DOMAIN Program[src].functions

ASSUME FactsAssumption ==
    /\ Fact \in [Op -> FactType]
    /\ MaxCallItems \in Nat \ {0}
    /\ MaxEntries \in Nat
    /\ \A src \in Source :
          /\ Program[src].admissible \in BOOLEAN
          /\ Program[src].oversized \in BOOLEAN
          /\ Program[src].loadGas \in Nat
          /\ \A f \in Functions(src) :
                Program[src].functions[f] \in FunctionSchema
    /\ \A o \in Op : Fact[o].kind = "register" =>
          /\ Len(Fact[o].items) = 1
          /\ Fact[o].items[1].fn = "Initialize"

---------------------------------------------------------------------------

ValidateContractCallDataLimits(keys) == Cardinality(keys) <= MaxEntries

RegisterFactIsValid(f) ==
    /\ ~Program[f.source].oversized
    /\ f.sender # f.contract
    /\ ValidateContractCallDataLimits(DOMAIN f.items[1].data)

(* Items stand for non-empty function names. A fact of one item is also    *)
(* checked in its legacy form, where the function name is one more entry.  *)
CallFactIsValid(f) ==
    /\ f.sender # f.contract
    /\ Len(f.items) \in 1..MaxCallItems
    /\ \A i \in 1..Len(f.items) :
          /\ "function" \notin DOMAIN f.items[i].data
          /\ ValidateContractCallDataLimits(DOMAIN f.items[i].data)
    /\ Len(f.items) = 1 =>
          ValidateContractCallDataLimits(DOMAIN f.items[1].data \cup {"function"})

(* IsTypedWriteShape: what the schema calls a write function.              *)
IsTypedWriteShape(name, fn) ==
    /\ fn.exported
    /\ name # "Initialize"
    /\ fn.ctx = "write"
    /\ fn.results = "error"

(* Initialize accepts exactly its parameters as keys; every other function *)
(* needs its parameters and ignores further keys.                          *)
ArgsBuild(kind, fn, data) ==
    /\ kind = "register" => DOMAIN data \subseteq fn.params
    /\ fn.params \subseteq DOMAIN data
    /\ \A p \in fn.params : data[p] = "good"
============================================================================
