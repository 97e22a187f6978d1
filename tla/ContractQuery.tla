---------------------------- MODULE ContractQuery ----------------------------
(***************************************************************************)
(* Contract queries over HTTP, served while blocks are being saved.        *)
(*                                                                         *)
(* The handler reads the design, the last digested block, the runtime and  *)
(* the snapshot of the contract, one read of the node's state after the    *)
(* other and none of them at a fixed height; then the engine reads the     *)
(* runtime and the snapshot once more and runs the query on what it read.  *)
(*                                                                         *)
(* One contract is enough, as a query touches no other contract's states.  *)
(* A state is known by the height of the block that wrote it, 0 where it   *)
(* does not exist.  ContractProcessing shows what is assumed here of a     *)
(* block: design, runtime and snapshot are first written together.         *)
(***************************************************************************)
EXTENDS Naturals, FiniteSets

CONSTANTS
    Client,    \* HTTP clients, each with one request at a time
    MaxHeight, \* bound: blocks of a run
    MaxReceded \* bound: how often the last digested block moves back

ASSUME QueryAssumption == MaxHeight \in Nat /\ MaxReceded \in Nat

Heights == 0..MaxHeight

States == {"design", "runtime", "snapshot"}

VARIABLES
    head,      \* height of the last saved block
    lastBlock, \* height of the last digested block
    receded,   \* history: how often lastBlock moved back
    written,   \* height at which each state of the contract was last written
    pc,        \* where the request of each client stands
    req,       \* what the request has read so far
    answer     \* the answer to the client's latest finished request

nodeVars == <<head, lastBlock, receded, written>>
vars     == <<nodeVars, pc, req, answer>>

(* A request also remembers, for the properties, what was written when it  *)
(* arrived and when it was answered, and how often the last digested block *)
(* had moved back when it was read.                                        *)
Request ==
    [arrived : Heights,  \* height of the snapshot at the start
     ended   : Heights,  \* height of the snapshot at the end
     height  : Heights,  \* queryHeight, what ctx.GetHeight() returns
     current : Heights,  \* currentHeight, what ctx.GetCurrentHeight() returns
     receded : Nat,      \* the value of receded when lastBlock was read
     view    : Heights,  \* height of the snapshot the engine restored
     host    : Heights,  \* chain head when the body called the host
     status  : {"pending", "ok", "refused", "notFound", "broken"}]

NoRequest ==
    [arrived |-> 0, ended |-> 0, height |-> 0, current |-> 0,
     receded |-> 0, view |-> 0, host |-> 0, status |-> "pending"]

Init ==
    /\ head = 0
    /\ lastBlock = 0
    /\ receded = 0
    /\ written = [s \in States |-> 0]
    /\ pc = [c \in Client |-> "idle"]
    /\ req = [c \in Client |-> NoRequest]
    /\ answer = [c \in Client |-> NoRequest]

---------------------------------------------------------------------------
(* The node saves and digests blocks meanwhile.                            *)

(* A block registers the contract, changes its snapshot or leaves it alone. *)
SaveBlock(states) ==
    /\ head < MaxHeight
    /\ IF written["design"] = 0 THEN states \in {{}, States}
                                ELSE states \in {{}, {"snapshot"}}
    /\ head' = head + 1
    /\ written' = [s \in States |-> IF s \in states THEN head + 1
                                                    ELSE written[s]]
    /\ UNCHANGED <<lastBlock, receded, pc, req, answer>>

(* The digesters set the last digested block to whatever block they have   *)
(* digested, which may be one below it (Digester!SetLastBlock).            *)
DigestBlocks(h) ==
    /\ h <= head
    /\ h # lastBlock
    /\ h < lastBlock => receded < MaxReceded
    /\ receded' = IF h < lastBlock THEN receded + 1 ELSE receded
    /\ lastBlock' = h
    /\ UNCHANGED <<head, written, pc, req, answer>>

---------------------------------------------------------------------------
(* handleContractQueryInGroup                                              *)

GoTo(c, from, to) ==
    /\ pc[c] = from
    /\ pc' = [pc EXCEPT ![c] = to]

Finish(c, from, r, status) ==
    /\ GoTo(c, from, "idle")
    /\ answer' = [answer EXCEPT ![c] =
                    [r EXCEPT !.ended = written["snapshot"], !.status = status]]
    /\ req' = [req EXCEPT ![c] = NoRequest]
    /\ UNCHANGED nodeVars

Step(c, from, to, r) ==
    /\ GoTo(c, from, to)
    /\ req' = [req EXCEPT ![c] = r]
    /\ UNCHANGED <<nodeVars, answer>>

(* A request arrives with a body within the limits that names a function. *)
Arrive(c) ==
    Step(c, "idle", "design", [NoRequest EXCEPT !.arrived = written["snapshot"]])

(* Mutation: the design is looked up among the digested documents. *)
ReadDesignDigested(c) ==
    IF written["design"] = 0 \/ lastBlock < written["design"]
    THEN Finish(c, "design", req[c], "notFound")
    ELSE Step(c, "design", "lastBlock",
              [req[c] EXCEPT !.height = written["design"]])

(* ContractDesignFromChainState *)
ReadDesign(c) ==
    IF written["design"] = 0
    THEN Finish(c, "design", req[c], "notFound")
    ELSE Step(c, "design", "lastBlock",
              [req[c] EXCEPT !.height = written["design"]])

(* Mutation: the handler waits until the digest has caught up. *)
ReadLastBlockWaits(c) ==
    /\ lastBlock = head
    /\ Step(c, "lastBlock", "runtime",
            [req[c] EXCEPT !.current = lastBlock, !.receded = receded])

ReadLastBlock(c) ==
    Step(c, "lastBlock", "runtime",
         [req[c] EXCEPT !.current = lastBlock, !.receded = receded])

(* Mutation: the current height is that of the block being voted on. *)
ClampedNext(r) == [r EXCEPT !.current = 1 + IF r.current < r.height
                                              THEN r.height ELSE r.current]

(* The current height is at least the query height. *)
Clamped(r) == [r EXCEPT !.current = IF r.current < r.height THEN r.height
                                                            ELSE r.current]

(* ContractRuntimeFromChainState: without a runtime the query height stays *)
(* that of the design, and it is left to the engine to refuse.             *)
ReadRuntime(c) ==
    IF written["runtime"] = 0
    THEN Step(c, "runtime", "engineRuntime", Clamped(req[c]))
    ELSE Step(c, "runtime", "snapshot", req[c])

(* Mutation: the query height stays that of the design. *)
ReadSnapshotKeepsHeight(c) ==
    IF written["snapshot"] = 0
    THEN Finish(c, "snapshot", req[c], "broken")
    ELSE Step(c, "snapshot", "engineRuntime", Clamped(req[c]))

(* ContractSnapshotFromChainState: its height is the query height. *)
ReadSnapshot(c) ==
    IF written["snapshot"] = 0
    THEN Finish(c, "snapshot", req[c], "broken")
    ELSE Step(c, "snapshot", "engineRuntime",
              Clamped([req[c] EXCEPT !.height = written["snapshot"]]))

---------------------------------------------------------------------------
(* QueryContract                                                           *)

(* A function that is no query of the contract is refused before any read. *)
RefuseFunction(c) == Finish(c, "engineRuntime", req[c], "refused")

EngineReadRuntime(c) ==
    IF written["runtime"] = 0
    THEN Finish(c, "engineRuntime", req[c], "broken")
    ELSE Step(c, "engineRuntime", "engineSnapshot", req[c])

(* Mutation: the engine keeps the snapshot of the previous request. *)
EngineReadSnapshotCached(c) ==
    Step(c, "engineSnapshot", "run",
         [req[c] EXCEPT !.view = IF answer[c].view # 0 THEN answer[c].view
                                                       ELSE written["snapshot"]])

(* The engine's own read of the snapshot, then the execution context, which *)
(* refuses a current height below the query height.                         *)
EngineReadSnapshot(c) ==
    IF written["snapshot"] = 0 \/ req[c].current < req[c].height
    THEN Finish(c, "engineSnapshot", req[c], "broken")
    ELSE Step(c, "engineSnapshot", "run",
              [req[c] EXCEPT !.view = written["snapshot"]])

(* The body runs and may ask the host for accounts and balances, which are *)
(* read from the node's state of that moment. A body that fails, runs out  *)
(* of gas or changes the globals is refused.                               *)
Run(c) ==
    \E status \in {"ok", "refused"} :
        Finish(c, "run", [req[c] EXCEPT !.host = head], status)

Serve(c) ==
    \/ ReadDesign(c)
    \/ ReadLastBlock(c)
    \/ ReadRuntime(c)
    \/ ReadSnapshot(c)
    \/ RefuseFunction(c)
    \/ EngineReadRuntime(c)
    \/ EngineReadSnapshot(c)
    \/ Run(c)

Next ==
    \/ \E states \in SUBSET States : SaveBlock(states)
    \/ \E h \in Heights : DigestBlocks(h)
    \/ \E c \in Client : Arrive(c)
    \/ \E c \in Client : Serve(c)

Spec == Init /\ [][Next]_vars

(* Each request is served by a goroutine of its own. *)
FairSpec == Spec /\ \A c \in Client : WF_vars(Serve(c))

---------------------------------------------------------------------------
PC == {"idle", "design", "lastBlock", "runtime", "snapshot",
       "engineRuntime", "engineSnapshot", "run"}

(* Every variable stays in its type. *)
TypeOK ==
    /\ head \in Heights
    /\ lastBlock \in Heights
    /\ receded \in Nat
    /\ written \in [States -> Heights]
    /\ pc \in [Client -> PC]
    /\ req \in [Client -> Request]
    /\ answer \in [Client -> Request]

Answered(c) == answer[c].status = "ok"

(* Errors are honest: a contract that existed when the request arrived is  *)
(* never reported as not found, and no request finds a contract with some  *)
(* of its states missing or a context with its heights in the wrong order. *)
ErrorsAreHonest ==
    \A c \in Client :
        /\ answer[c].status = "notFound" => answer[c].arrived = 0
        /\ answer[c].status # "broken"

(* A query runs on a snapshot that was current while the request was being *)
(* served, and never on one older than the height it reports.              *)
ViewDuringRequest ==
    \A c \in Client : Answered(c) =>
        /\ answer[c].arrived <= answer[c].view
        /\ answer[c].view <= answer[c].ended
        /\ answer[c].height <= answer[c].view
        /\ answer[c].view <= answer[c].host

(* What a query sees as the current height is at least the height of its   *)
(* state, and a height the chain had reached.                              *)
CurrentHeightSound ==
    \A c \in Client : Answered(c) =>
        /\ answer[c].height <= answer[c].current
        /\ answer[c].current <= answer[c].host

(* A client that asks again goes forward: the height it is told is never   *)
(* below the state it was shown before, and the current height not below   *)
(* the one it was told before, unless the last digested block was moved    *)
(* back between the two reads of it.                                       *)
AnswersMoveForward ==
    [][\A c \in Client :
          /\ Answered(c)
          /\ answer'[c].status = "ok"
          /\ answer'[c] # answer[c]
          => /\ answer[c].view <= answer'[c].height
             /\ \/ answer[c].current <= answer'[c].current
                \/ answer[c].receded < answer'[c].receded]_answer

(* Query-API.md: ctx.GetHeight() is the height of the state the query      *)
(* reads, for a snapshot-backed contract the height of its snapshot.       *)
HeightIsOfView ==
    \A c \in Client : Answered(c) => answer[c].height = answer[c].view

(* Every request is answered, whatever is saved and digested meanwhile. *)
RequestsAreAnswered == \A c \in Client : pc[c] # "idle" ~> pc[c] = "idle"
=============================================================================
