------------------------ MODULE MCContractProcessing ------------------------
(***************************************************************************)
(* A small instance of ContractProcessing: two contract accounts, one      *)
(* address that is not a contract account, two sources and operations that *)
(* race to register one contract, call it with batches that succeed, fail  *)
(* half way, exhaust the gas or outgrow the snapshot.                      *)
(***************************************************************************)
EXTENDS ContractProcessing, TLC

CONSTANTS c1, c2, alice, bob, srcA, srcB, srcBad

Fn(exported, ctx, params, results, cost, body) ==
    [exported |-> exported, ctx |-> ctx, params |-> params,
     results |-> results, gas |-> cost, body |-> body]

(* srcA: a write function, one that refuses to run twice, an unexported    *)
(* function of write shape and a getter. srcB deploys without arguments.   *)
MCProgram ==
    srcA :> [admissible |-> TRUE, oversized |-> FALSE, loadGas |-> 1,
             functions |->
               [Initialize |-> Fn(TRUE, "write", {"owner"}, "error", 1, "ok"),
                Add        |-> Fn(TRUE, "write", {"owner"}, "error", 2, "ok"),
                Claim      |-> Fn(TRUE, "write", {}, "error", 1, "once"),
                reset      |-> Fn(FALSE, "write", {}, "error", 1, "ok"),
                Get        |-> Fn(TRUE, "query", {}, "value", 1, "ok")]]
    @@ srcB :> [admissible |-> TRUE, oversized |-> FALSE, loadGas |-> 1,
                functions |->
                  [Initialize |-> Fn(TRUE, "write", {}, "error", 1, "ok"),
                   Add        |-> Fn(TRUE, "write", {}, "error", 1, "ok")]]
    @@ srcBad :> [admissible |-> FALSE, oversized |-> FALSE, loadGas |-> 1,
                  functions |->
                    [Initialize |-> Fn(TRUE, "write", {}, "error", 1, "ok")]]

NoData == [k \in {} |-> "good"]
Owner  == [owner |-> "good"]
Call(f, data) == [fn |-> f, data |-> data]

Register(who, c, src, data) ==
    [kind |-> "register", sender |-> who, contract |-> c, source |-> src,
     items |-> <<Call("Initialize", data)>>]
CallOp(who, c, items) ==
    [kind |-> "call", sender |-> who, contract |-> c, source |-> srcA,
     items |-> items]

AllFacts ==
    [regA    |-> Register(alice, c1, srcA, Owner),
     regB    |-> Register(alice, c1, srcB, NoData),
     regBad  |-> Register(alice, c1, srcBad, NoData),
     regBob  |-> Register(bob, c1, srcB, NoData),
     regArg  |-> Register(alice, c1, srcA, [owner |-> "good", more |-> "good"]),
     reg2    |-> Register(alice, c2, srcB, NoData),
     batch   |-> CallOp(bob, c1, <<Call("Add", Owner), Call("Claim", NoData)>>),
     claim   |-> CallOp(alice, c1, <<Call("Claim", NoData)>>),
     half    |-> CallOp(bob, c1, <<Call("Add", Owner), Call("Get", NoData)>>),
     heavy   |-> CallOp(bob, c1, <<Call("Add", Owner), Call("Add", Owner),
                                   Call("Add", Owner)>>),
     hidden  |-> CallOp(bob, c1, <<Call("reset", NoData)>>),
     init    |-> CallOp(alice, c1, <<Call("Initialize", Owner)>>),
     badArg  |-> CallOp(bob, c1, <<Call("Add", [owner |-> "bad"])>>),
     call2   |-> CallOp(bob, c2, <<Call("Add", Owner)>>),
     empty   |-> CallOp(bob, c1, <<>>)]

MCFact == [o \in Op |-> AllFacts[o]]
MCAuth == c1 :> {alice} @@ c2 :> {alice}
=============================================================================
