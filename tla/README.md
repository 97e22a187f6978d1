# Verification of mitum-smart-contract

TLA+ modules, TLC runs and TLAPS proofs for the smart contract extension of a
mitum node: typed Gno contracts that are registered and called by operations in
blocks, queried over HTTP, and digested into a document store. File and line
references are to the repository under `src/`.

## 1. The system

A mitum node collects signed operations, agrees with its peers on a proposal (a
set of operations and a timestamp), processes the proposal and saves a block.
This repository supplies two operation types, the engine that runs Gno code for
them, a digest that copies saved blocks into MongoDB, and an HTTP API. The
consensus framework (mitum2) and the currency model are imported; they are
modelled only by how this code uses them.

| Component | State it keeps | Operations | Where |
|---|---|---|---|
| Operation facts | none | `IsValid` of `RegisterContractFact`, `CallContractFact` | `operation/contract/*_contract.go` |
| Operation processors | pooled processor bound to one proposal (height, time) | `PreProcess`, `Process`, `Close` | `operation/contract/*_process.go` |
| Gno engine, write path | a machine and a gas meter per operation | `ExecuteContract`, `invokeTypedWrite` | `operation/contract/runtime/gno_engine.go` |
| Gno engine, query path | a read-only machine per request | `QueryContract` | `runtime/gno_query.go` |
| Schema analysis | none | `AnalyzeContractSchema`, complexity, import policy | `runtime/schema*.go` |
| Schema cache, metadata | cache of analyses, schema stored with a design | lookup, verification, fallback | `runtime/schema_cache.go`, `schema_metadata.go` |
| Snapshot codec | none | `CaptureSnapshot`, `RestoreSnapshot` | `runtime/gno_snapshot_codec.go` |
| Chain state | per contract: design, runtime, snapshot; contract account status | read by key, written per block | `state/state.go`, `types/design.go` |
| Digester daemon | `blockChan`, retry counter, last block | `Digest`, worker loop | `digest/digest.go` |
| Digest follow-up | none of its own | at start, per confirmed block | `cmds/process_digester.go`, `cmds/run_node.go` |
| Block session | documents of a block | `Prepare`, `Commit` in one transaction | `digest/block_session*.go` |
| HTTP handlers | response cache | query a contract, read documents | `digest/query_contract.go`, `handler*.go` |
| Standard library loading | packages of the process, loaded once | load on first need, select for a contract | `runtime/gno_stdlib_package.go`, `import_policy.go` |
| Block import | item files in a cache directory | check a range, validate, import | `cmds/import.go`, `cmds/validate_blocks.go` |
| Rest of the command line | none | validate, storage, send operations, run a node | `cmds/` |

How they interact. The framework calls `PreProcess` of every operation of a
proposal in turn, then `Process` of the accepted ones from concurrent workers.
Each reads the state of the *previous* block and returns merge values; the
framework merges them key by key, and the last write of a key wins. The engine
is called from `Process` and reads the design, the runtime and the snapshot
through the same state getter. A saved block triggers a callback; depending on
how the block arrived it is followed up at once or sent to the digester's
worker by a new goroutine. The HTTP handler asks the engine to run a query and
reads the node's state one key at a time, while blocks are being saved.

What is hard about it:

- *Concurrency within a block.* `CheckDuplication` has no case for contract
  operations and is not installed, so two operations on one contract may share
  a block. Each starts from the previous block's snapshot.
- *Four states of one contract* are written apart and must appear together.
- *Proposals given up* after their operations ran; the same operations come
  back in another proposal with another time and height.
- *Batches*: items of one call share a machine and a gas meter and are all or
  nothing.
- *Limits at both ends*: a snapshot is checked when captured and again when
  restored.
- *Reads at no fixed height* in a query, twice for the snapshot.
- *Three sources of one schema*: the metadata stored with a design, a cache of
  the process, an analysis. Nodes with different builds share the first, and
  goroutines the second.
- *One load of the standard library* for all goroutines that need it, over a tree
  in which a package must come after what it imports.
- *Items downloaded twice* by an import, to be validated and to be written, from
  a server whose answers may change, with files that a killed import leaves.
- *Two digesters* for the same blocks, with a lock only one of them takes,
  retries that give up, crashes between a commit and the last-block mark, and
  a channel fed by goroutines in no particular order.

What makes each correct: the states of a contract are coherent; an operation
takes effect at most once, entirely or not at all, with the time and height of
its block; only an authorised account deploys and the deployment is final; a
query answers from a state that was current during the request; a digested
block is written once, and what the API is told is digested can be shown; a
schema in use is the one an analysis would return, wherever it came from; a
machine has the packages its contract needs; an import writes above the last
block only, and reports only what is valid.

## 2. Modules

| Module | Models |
|---|---|
| `ContractFacts` | The operations' facts, what the schema and the body of a function say, fact validation, building of arguments |
| `ContractProcessing` | A node processing proposals: pre-processing, concurrent execution, merging, saving, giving up |
| `ContractLedger` | What a contract promises its users, without proposals or workers; abstract specification of `ContractProcessing` |
| `ContractQuery` | A query request, read by read, while blocks are saved and digested |
| `Digester` | Worker and follow-up digesting blocks, with faults and crashes |
| `GnoTypes` | Types of a contract: resolution of type expressions, which types may be kept, depth and size |
| `TypedSchema` | Admission of a source: the analyser's checks in its order |
| `PersistedSchema` | The stored form of a schema and the reading of it |
| `SchemaStore` | Who analyses, caches, stores and reads schemas, over nodes and builds |
| `SnapshotCodec` | Globals of a contract captured and restored around operations and queries |
| `StdlibPackages` | Loading the standard library once, selecting packages for a machine |
| `BlockImport` | The import command, its cache directory and a changing server |
| `MC...` | Instances for TLC: accounts and programs, sources, values, trees |
| `ContractProcessing_proofs`, `ContractQuery_proofs`, `Digester_proofs`, `SchemaStore_proofs`, `StdlibPackages_proofs`, `BlockImport_proofs` | Theorems about these modules |
| `TypedContract_proofs` | Theorems about `GnoTypes`, `TypedSchema`, `PersistedSchema` and `SnapshotCodec` |
| `Recursion` | That a function defined by recursion satisfies its equation, for the proofs that need it |

`ContractProcessing` extends `ContractFacts` and instantiates `ContractLedger`
with `book` as the committed snapshots. `ContractQuery`, `Digester`,
`StdlibPackages` and `BlockImport` stand alone; the first relies on what `Coherent` establishes in `ContractProcessing`
(design, runtime and snapshot of a contract are first written by one block).
`TypedSchema` and `SnapshotCodec` extend `GnoTypes`: the contracts whose state
`SnapshotCodec` keeps are those `TypedSchema` admits. `PersistedSchema` extends
`TypedSchema`, and `MCTypedSchema` judges and stores with it; `SchemaStore` takes
from the two that an analysis is a function of the rule set and the source, and
that what is stored is read back unchanged.

### ContractProcessing

| Variable | In the code |
|---|---|
| `chain` | design, runtime, snapshot and contract account states |
| `height`, `blockTime`, `included` | the saved blocks |
| `proposal` | the framework's proposal processor |
| `bound` | height and `proposalTime` of the pooled processors |
| `pc`, `globals`, `gas`, `next` | `ExecuteContract` of an operation: its machine, its meter, the item it is at |
| `merged`, `pending` | merge values handed over so far, the writer's merged states |
| `accepted`, `raced` | history: successful operations; contracts that two operations of one block wrote |

`Propose` and `GiveUp` are the framework's. `PreProcess` binds the pooled
processor and applies the gates of both `PreProcess` functions. `StartMachine`
is `ExecuteContract` up to the first invocation: validating the source (for a
registration), loading the package, restoring the snapshot. `Invoke` runs one
item, `Capture` is `CaptureSnapshot` with its limits, `MergeNext` delivers one
merge value. `FailStart`, `FailInvoke` and the failing branch of `Capture` are
the error returns, after which the operation returns no merge values. `Save`
commits `pending` and closes the processors.

The persistent globals of a contract are the *sequence of successful
invocations* that led to them. No contract can tell more than that apart, so
what holds for histories holds for every contract's state, and lost or partial
updates become visible without a model of Gno. What a body does is one of three
things: succeed, fail, or succeed only the first time it runs.

### ContractQuery

`req[c]` is the local state of `handleContractQueryInGroup` and of
`QueryContract`. Each action is one read of the node's state, in the order of
the code: design, last digested block, runtime, snapshot, then the engine's own
runtime and snapshot, then the body, whose host calls see the state of that
moment. A state is known by the height that wrote it. `SaveBlock` and
`DigestBlocks` happen between any two reads. As in `Digester`, the last digested
block may move back; `receded` counts how often it did, and a request records the
count with the mark it read.

### Digester

`pc` and `at` say what the worker and the follow-up are doing and with which
block; `queue` is `blockChan`, `senders` the goroutines blocked on it,
`confirmed` and `synced` the framework's callbacks that have not run.
`CheckManifest`, `Commit` and `SetLastBlock` are the three effects of digesting
a block, in separate steps, because nothing makes them atomic: the manifest is
looked up outside the transaction that inserts the documents. `ManifestUnread` is
the read of a manifest whose error `DigestBlock` drops (`digest/digest.go:162`): the
block counts as not stored. `DigestFails` is any other error, which the worker
answers with another attempt and the follow-up with the end of the node. `Crash` and
an error of the follow-up forget everything that is not stored (`Forget`); `Start`
is the follow-up at start-up.

The currency model's `SetLastBlock` is outside the repository. As its
behaviour for a lower height is not known from this code, the model lets it
move the mark back or leave it, and the properties hold for both.

### GnoTypes and TypedSchema

A source is a record of what the analyser reads from the syntax tree: package,
imports, type declarations, globals and functions. `SchemaOf` resolves it as
`typeResolver` does, references by name staying references, and `Admitted` is
`AnalyzeContractSchema` without error: imports, embedded fields, members of
contexts, complexity, and `finalizeContractSchema`. An error message is left
out, the condition for it is not. A type that is a name, a pointer or an
interface is known by the name after the last dot of its text, which is all
that `isContextTypeNamed` and the like look at.

Expressions and types are trees. `Exprs` and `Types` hold those nested up to
`Nesting` deep, and what walks a tree (`ResolveTypeExpr`, depth and size, the
stored form) is a function defined level by level. The limit `MaxDepth` of the code
refuses deeper types anyway. The check of the types of a state follows references
and is defined by the set of structs it is inside of, as in the code.

### PersistedSchema and SchemaStore

`PersistedTypeRef` is the one record all kinds of types are stored as, `Readable`
the shape checks on the way back, and `Taken` the finalising that stands in for an
analysis. `SchemaStore` is about whose schema is used: `task[g]` is a goroutine
that registers, calls or queries; `Verify` is `RuntimeSchemaFromPersisted`,
`Lookup`, `Analyse` and `Store` are `resolveContractSchemaForExecution`, which looks
into a `sync.Map`, analyses, and stores, with nothing that joins the three. A build is its two version numbers. A
design of before metadata existed has none, and metadata of another format reads
as anything. `Restart` ends the process and may bring another build.

### StdlibPackages

`stack` holds the recursive calls of `visit`, each with the imports it has left;
`packages` and `dependencies` are the package variables a load fills, `once` the
`sync.Once`. The tree of packages is fixed in the program, but nothing in the
loader relies on which it is: every tree is an initial state, with packages that
are missing, do not parse or import each other. `Answer` is the selection for one
contract, by what it imports directly and indirectly.

### BlockImport

`run` is the command with its range, `files` the cache directory, in two versions:
one the command made itself, one that was given and may hold files of an earlier
run. `HeightsAllowed` is the sequence of range checks. `progress` and `item` say, of
each height, how far its concurrent validation is and what it has read: `Load` decodes
an item, `Save` writes it to its file, and only then is the block validated
(`Validate`). The file is created before it is filled, so errors (`SaveFails`) and
`Crash` may leave half of it. An error ends the command, which removes the directory
whether it ends well or not (`End`); a killed command does not, nor one whose
`os.RemoveAll` fails, which is the same to the next command (`Crash`). `Read` is what
the import then reads: the file, whoever left it, or what is served now.
`ImportBlock` writes it unseen; `ImportSucceeds` is `validateImported`, after which the
command reports success. `Serve` changes what is served at any time. The item files of
one height are one file here, and the storage is a sequence of blocks.

### SnapshotCodec

A value is a tree, up to `Depth` values in each other; a map is the sequence of its
entries in the order they were inserted, because that is what capture walks and
what it has to hide. `live` are the globals of the machine of a running operation,
`snapshot` the stored document, `meant` the globals it was captured from. `Return`
ends a body, which may have left any values of their types in the globals, so that
`Capture` meets every combination of values up to the bound. `Query` restores, reads
a global, leaves any value in another and compares two captures, as `QueryContract`
does. It leaves nothing behind, so one query between two operations stands for any
number of them. What is done with a value is stated for one level, given what is
done below it (the operators named `...Over`). Strings are their places in byte
order, which is what sorting sees; those that are not UTF-8 are the set `Invalid`.
Booleans are 0 and 1. Whether the machine takes a map literal with one key twice is
outside the repository, and both answers are allowed (`lenient`).

Two specifications meet in `TypedContract_proofs`, so the names of this one carry its
own: `CodecInit`, `CodecNext`, `CodecSpec`, `CodecTypeOK`.

## 3. Runs

| Run | Configuration | States (about) | Question |
|---|---|---|---|
| `race` | `MCContractRace` | 790 000 | Do the states of a contract stay coherent, atomic and timely when operations race? |
| `admission` | `MCContractAdmission` | 117 000 | What do the gates and limits let into the chain, and does every proposal end? |
| `hidden` | `MCContractHidden` | violation | Do calls run only what the documentation calls write functions? |
| `query` | `MCContractQuery` | 330 000 | Are answers and errors honest about the state they come from? |
| `query_height` | `MCContractQueryHeight` | violation | Is the reported height that of the state read? |
| `digest` | `MCDigester` | 117 000 | What survives two digesters, faults, crashes and out-of-order blocks? |
| `schema` | `MCTypedSchema` | 8 500 | Does the analyser admit what the documentation lists, and does a schema survive its storage? |
| `codec` | `MCSnapshotCodec` | 15 800 | Is the state an operation finds the one the last left? |
| `codec_text` | `MCSnapshotText` | violation | Is a string a contract keeps the string it finds again? |
| `schema_store` | `MCSchemaStore` | 1 630 000 | Is a schema in use always the one an analysis would return? |
| `stdlib` | `MCStdlibPackages` | 969 000 | Does a machine get the packages its contract needs, in an order it can run? |
| `import` | `MCBlockImport` | 1 990 000 | What does an import write, and what does it report? |

**race.** Two registrations of one contract (by its owner, with different
sources), a batch, a single call, a batch whose second item fails and a call of
an unexported function; proposals of up to two operations and two timestamps.
Two operations are enough to race, since merging is pairwise on one key, and
six operations leave room for a race after a registration and after a given-up
proposal. `Coherent` says the four states of a contract exist together;
`OneRegistration` and `NoLostUpdate` say what still relates them, *except* for
contracts two operations of one block wrote: there a call that succeeded can
disappear and design and snapshot may come from different registrations. This
is what the code does and no document promises otherwise, so the properties
name the case (`raced`) instead of hiding it. `AllOrNothing`, `InclusionTime`
and `RegistrationIsFinal` hold without exception. `ImplementsLedger` is the
refinement: a saved block is one step of `ContractLedger`, in which at most one
operation takes effect per contract, and all else is a stutter.

**admission.** A registration by a stranger, one with a refused source, one
with surplus arguments; calls that exhaust the gas, carry a bad argument, name
`Initialize` or outgrow a snapshot limit of two entries. `Authorised` and
`Restorable` are what the gates and limits are for. `Inductive` is the
invariant of the proofs, evaluated on reachable states. `ProposalResolves` is the
liveness of proposals: whatever an operation does, it ends in a state the save
does not wait for.

**query.** One client suffices: requests share nothing, and a client's
successive requests are what `AnswersMoveForward` relates. Four blocks allow a
registration, a change during the request and changes between two requests,
each digested at any time or not at all. The last digested block may move back once.
`AnswersMoveForward` then says that a later answer is from no lower state, and that
its current height is lower only if the mark went back between the two reads of it.

**digest.** Three heights with the second unreadable, a channel of capacity one (so
that senders block), two attempts of the worker, four faults and two crashes: enough
for a worker to give a block up, twice or after one was stored and not marked, for the
follow-up to skip one, and for a crash between a commit and its mark. Two readable
blocks are enough for blocks out of order, for a mark that moves back and for a gap;
with a fourth height, two faults and one crash the same properties hold of 615 000
states. Every block may come by consensus or by syncing.
`DigestedOnce` again names its exceptions: the index of the block documents is not
unique, so a block both digesters were writing at the same time is stored twice
(`overlapped`), and it is stored once more for every time its manifest was there and
could not be read (`misread`). Gaps are real here: a worker that exhausts its attempts
moves on, and later blocks carry the mark past it. What remains is
`LastBlockDigested` and `DigestReachesHead`, which says that the block the chain rests
at is digested unless it was given up, and that the next start digests it even then.
The stronger `DigestsInOrder` and `EventuallyDigested` hold as long as no block came by
syncing (`fetched`).

**schema.** All pairs of declarations with one field (a scalar, one of the two
names, an undeclared name, maps and slices of those, an anonymous or embedding
struct) under globals that reach them, which includes every cycle of length one
and two through a field, a map or a slice; all signatures with up to two results
under every first parameter, alone, before and after an `Initialize` that is in order;
and sources at each limit and beyond, imports that come twice included. Two declarations suffice for the recursion check, which
carries a set of names: a third adds no case to it. `StateTypesAsDocumented`
compares the check, which follows references, with the least set of structs
closed under the documented rules; `FunctionsAsDocumented` speaks of the source,
not of the schema: of the names its parameters are written with and of its first
`Initialize`, the one the engine calls. It covers slices and maps of contexts, which
the analyser takes for contexts: they are held to the shape of a write or a query,
though no call can pass one (section "What the violations show"). `SchemaSurvivesStorage` stores every admitted schema and reads it
back: cycles of structs that no state has, and opaque parameters of functions
nobody calls, included.

**codec.** Five contracts that cover every rule of the types that may be kept,
and two that are not admitted. Up to two entries or items with two keys give
both orders of insertion, and limits of three entries, three items and nine
nodes are exceeded by nested values. `AdmittedIsKept` relates the analyser's
type checks to the codec's own, and capture's limits to restore's.
`QueriesTellTheState` needs captures to be canonical. `Invalid` is empty here,
as `codec_text` shows what happens otherwise.

**schema_store.** Two rule sets that read one source differently, of which the
second refuses another source; two formats; two nodes with two goroutines each, on
one contract. Any node may restart with any build at any time, so every mixture of
old metadata, new cache and other build occurs. `SchemaIsAnalysed` is what lets
nodes with one rule set decide alike. `AnalysedOnce` bounds the work: the cache has
no single flight, so every goroutine may analyse a source once, and not more often.

**stdlib.** Three packages give a shared dependency, a chain, every cycle up to three
and packages nobody imports; two of them are allowed, in an order that is not that
of their paths, which is how the policy and the sorted imports can disagree. Two
machines show that the one that waits gets what the one that loads gets.

**import.** Two heights with two valid contents and one that can be decoded and is not
valid, every choice of heights served from elsewhere, two changes of what is served, one
killed command, and every range, with and without `--do`. Two changes fall between a
killed command and the next, and between that one's validation and its import; heights
affect each other only through the range and the order of writing, for which two are
enough. `ImportedWasValidated` is about what is written: contents this or an earlier
command validated, except at heights of which a killed command left a file it had not
come to validate (`unchecked`). `ReportedIsValid` has no exception: what a command
reports was validated after it was written.

**Fairness.** `FairSpec` of `ContractProcessing` gives weak fairness to the
steps of workers and to the save: both are goroutines nobody blocks. It does
not make rounds fail. `ContractQuery` gives weak fairness per request, which
net/http serves in its own goroutine. `Digester` assumes that a node that is
down is started again, and weak fairness of callbacks, senders and both
digesters; crashes and faults are bounded by `MaxCrashes` and `MaxFaults`, as a
node that always fails digests nothing. `SchemaStore`, `StdlibPackages` and
`BlockImport` have safety properties only.

**Deadlock.** `CHECK_DEADLOCK FALSE` appears where the instance runs out of
operations or blocks, where the node rests, and in `schema`, where a source is
judged once. In `ContractQuery` clients can always ask again, in `SnapshotCodec`
operations follow each other, in `SchemaStore` nodes restart, in `StdlibPackages`
machines ask again (so that a load nobody finishes would be found), in `BlockImport`
commands follow each other, and the search for deadlocks stays on.

**Bounds.** `MaxProposal`, `MaxHeight`, `MaxFaults`, `MaxChanges` and `MaxCrashes` bound
counters of the model, `MaxLive` the entries or items of one value, `Nesting` types in each other and `Depth`
values in each other. The runs have `Nesting` 3 and `Depth` 4: a field that holds a
map of structs, and a global that holds such a struct.
`MaxCallItems`, `MaxEntries`, `GasLimit`,
`SnapshotLimit`, `Capacity`, `Retries` and the other limits of `TypedSchema` and
`SnapshotCodec` are limits of the code, given small values so that they are met.

### What the violations show

- `hidden`: `Contract-language-support.md` lists being exported among the
  conditions of a write function, `IsTypedWriteShape` requires it, and the query
  path checks the shape. The write path looks the function up by name only and
  runs an unexported one.
- `query_height`: `Query-API.md` says that for a contract with a snapshot
  `ctx.GetHeight()` is the height of the snapshot. The handler takes it from its
  own read, the engine restores a second read, and a block may be saved between.
- `codec_text`: `string` is listed among the types of state without a
  restriction. `CaptureSnapshot` writes strings with `json.Marshal`, which
  replaces bytes that are not UTF-8; the next operation finds another string.

Seen while modelling and not the subject of a run:

- `isContextTypeNamed` looks at the end of a type's text, so
  `[]chain.WriteContext` passes for a context and a function that takes it is
  admitted though no call can satisfy it (`IsContextTypeNamed`).
- `checkLastHeight` (`cmds/import.go:519`) runs in the import too and refuses a
  `to` above the last block of the node, and an import must begin above that
  block: an import with a `to` is always refused, although the help offers
  `<from>-<to>`. A `from` of 0 is refused as well, as its predecessor is looked
  for. Without a range only an empty node imports, which leaves a branch of
  `prepare` (`cmds/import.go:317`) unreachable (`HeightsAllowed`).
- An item is saved in the cache directory when it is decoded (`cmds/import.go:395`),
  before its block is validated, and a file that exists is kept (`cmds/import.go:444`).
  If a killed import leaves one in a directory that is given again, the next import
  validates what is served and writes what is in the file, half a file included, and
  finds out afterwards (`ImportedWasValidated`, `unchecked`).
- What it finds then stays: a failing `validateImported` (`cmds/import.go:278`) ends the
  command with an error, the blocks are in the storage, and the next import begins
  above them.
- `DigestBlock` drops the error of `ManifestByHeight` (`digest/digest.go:162`) and
  writes a stored block again; the follow-up looks at the last block every time
  (`ManifestUnread`).

## 4. Proofs

Each theorem holds for every value of the constants: any contracts, programs,
operations, clients, nodes, packages, heights and limits.

| Module | Theorem | Says |
|---|---|---|
| `ContractProcessing_proofs` | `InductiveAlways`, `TypeCorrect`, `CoherentAlways`, `RestorableAlways` | `Spec => []P` for `Inductive`, `TypeOK`, `Coherent`, `Restorable` |
| | `RegistrationFinal` | `Spec => RegistrationIsFinal` |
| | `WholeBatches`, `TimeOfInclusion`, `DeployedByOwner`, `StatesOfOneRegistration`, `NothingLost` | `Spec => []P` for `AllOrNothing`, `InclusionTime`, `Authorised`, `OneRegistration`, `NoLostUpdate` |
| | `ProcessingImplementsLedger` | `Spec => ImplementsLedger`, the refinement |
| `ContractQuery_proofs` | `TypeCorrect`, `HonestErrors`, `ShownDuringRequest`, `CurrentHeights` | `Spec => []P` for `TypeOK`, `ErrorsAreHonest`, `ViewDuringRequest`, `CurrentHeightSound` |
| | `GoesForward` | `Spec => AnswersMoveForward` |
| `Digester_proofs` | `TypeCorrect`, `LastBlockCanBeShown`, `WrittenOnce` | `Spec => []P` for `TypeOK`, `LastBlockDigested`, `DigestedOnce` |
| | `WrittenInOrder` | `Spec => DigestsInOrder` |
| `SchemaStore_proofs` | `TypeCorrect`, `AnalysedSchemas`, `AnalysedOncePerProcess` | `Spec => []P` for `TypeOK`, `SchemaIsAnalysed`, `AnalysedOnce` |
| `StdlibPackages_proofs` | `LoadOrder` | what is loaded is sound and comes after its imports (`LoadedInOrder`) |
| | `TypeCorrect`, `EveryMachineIsServed` | `Spec => []P` for `TypeOK`, `MachinesGetWhatTheyNeed` |
| `BlockImport_proofs` | `TypeCorrect`, `ImportsAreValidated`, `ReportedAreValid` | `Spec => []P` for `TypeOK`, `ImportedWasValidated`, `ReportedIsValid` |
| | `ChainOnlyGrows` | `Spec => ChainGrows` |
| `TypedContract_proofs` | `FunctionShapes`, `StateTypes`, `StorageKeepsSchema` | `Spec => []P` for `FunctionsAsDocumented`, `StateTypesAsDocumented`, `SchemaSurvivesStorage` |
| | `CodecTypeCorrect` | `CodecSpec => []CodecTypeOK` |
| | `AdmittedStateIsKept`, `QueriesTell`, `RestoreFaithful` | if `Invalid = {}`: `CodecSpec => []P` for `AdmittedIsKept`, `QueriesTellTheState`, and `CodecSpec => RestoreIsFaithful` |

**States of a contract** (`ContractProcessing_proofs`). `Coherent` alone is not
inductive: a save commits whatever is pending, and nothing in `Coherent` says that
pending values come in complete sets. The invariant adds what holds between the
steps of a proposal:

- `InProposal`: only operations of the proposal are worked on, by a processor
  bound to it. A save needs every one of them finished, hence none is half way
  through its merge values.
- `GatesHold`: an operation's gate is still true while it executes, because only
  a save changes the chain. This is where the deferred check of the code is
  justified: registrations find the account inactive, calls find a design.
- `Landed`: an operation has merged a prefix of its merge values, and anything
  pending belongs to an operation that is merging or done.
- `SizesChecked`: what is pending fits the snapshot limit.

The step of `Save` is by cases on each contract: nothing pending, in which case
the chain is unchanged; a registration done, in which case all four values are
pending; only calls done, in which case only the snapshot is pending and the
contract already had the other states. `SavedValue` and `SaveCases` state this.

**History of a contract** (`ContractProcessing_proofs`) builds on that invariant.
`Steps` says what an operation has in hand: `Worked`, that a machine holds the
globals it restored followed by one entry per item invoked so far, each with the
height and time of this proposal; `Gated`, what the gates asked of those that
passed; `FromOne`, that a pending value is the merge value of one operation;
`Settled`, that a proposal holds no operation of a saved block and processors are
bound to it alone. `Book` is the five properties themselves, together with the fact
that an existing contract has an entry. All steps but `Save` change `Steps` only;
for `Save`, `NewGlobals` and `Committed` reduce each property to one fact: the
globals of a contract stay, or become those of one operation of the block, which
are the old ones and that operation's items. The refinement takes that operation as
the winner of the contract and shows the two sequences equal.

**Queries** (`ContractQuery_proofs`). `RequestInv` records, for each point of a
request, how what it has read so far relates to the node now, and to what the client
was told before. The heights of states and of the host only grow, so that the node's
steps (`Forward`) preserve what is said of them at once. The last digested block may
move back: `StillDigested` says that, unless it did since a request read it, it is not
below the current height of that request, or that height is the one of the state.
`AnswerInv` is stronger than the properties by this and by one conjunct: the height of
an answer is not below what was written when its request arrived.

**Digest** (`Digester_proofs`). `MarksWhatIsStored` holds between a commit and its
mark. `WritingExcused` counts the documents of a block together with the digesters about
to write it: each has an excuse, which is being the first, an overlap of the two
digesters, or a manifest that could not be read. A digester past its look at the manifest
is counted before it commits, which is what `DigestedOnce` alone does not say.
`FollowUpAlone` says that without
syncing the worker has nothing to do and the readable blocks below the follow-up's
height, or below the mark, are all stored.

**Schemas in use** (`SchemaStore_proofs`). `CacheSound`, `DesignSound` and `TaskSound`:
each of the three places a schema comes from holds what its rule set says, and a
refusal is never stored. For `AnalysedOnce`, `FewAnalyses` counts the goroutines about
to analyse with the analyses made: together they are at most the goroutines, because
once the cache holds a schema nobody joins them, and until then everyone who analysed
has still to store.

**Standard library** (`StdlibPackages_proofs`). `StackCovers`: an import of a package
that is being visited is loaded, still to be visited, or the next call. It makes
`InOrder` inductive without a word on cycles. That a machine gets *all* it needs
takes more. `Keeping` and `Reaching` instance `Recursion` for the fold and the
fixpoint of the selection, and a finite set of packages bounds the rounds until it is
closed. `TrackInv` follows the load: `DependenciesKnown` says that the recorded
dependencies are the imports, `VisitsAreNeeded` that nothing is visited that an
allowed package does not need, and that a package on the stack is needed by those
below it (so that an error found there is one of theirs), `AllowedCovered` that no
allowed package is forgotten. `RequestInv` is about answers.

**Import** (`BlockImport_proofs`). A file of the cache directory is `Excused` when it is
absent, holds what was found valid at its height, or was left by a killed command.
`GivenFiles` says so of the directory that is used again, between the commands and while
it is not in use, and `RunFiles` of the directory in use before the validation and
after it. During the validation `Working` follows each height on its own: what was
loaded is what the file holds or is going to hold, and the file is excused again once the
height is done. `AcceptedRange` and `Ready`: an accepted range begins above the chain, and
every height of it still to be written will be read from a file that exists or from items
that do not change. `TypeCorrect` adds `FilesFinished`: until a command is killed, a file
is unfinished only while it is written or after an error in writing it, which ends the
command and removes its directory; and `WithinSource`: a range that was accepted ends
where the source does.

**Recursion** (`Recursion`). In TLA+ `f[x \in S] == e` is a function that satisfies
the equation *if there is one*. Theorem `Recursion` shows that there is one when the
members of `S` have a rank and `e` depends on `f` at lower ranks only. A definition
with parameters instances the module with its own set, rank and right-hand side and
cites the theorem; a claim about every value of it is then one about the least rank
at which it fails (`LeastRank`), or about the set of levels at which it holds
(`Induction`). This is how the trees of types and values, folds and fixpoints are
within reach of provers that cannot instantiate the induction theorems of the
library.

**Schema of a contract** (`TypedContract_proofs`, first part).

- `StateTypes`: the analyser's check carries the set of structs it is inside of and
  refuses one it meets again; the document speaks of the least set of structs closed
  under its rules. `SupportedAreDocumented` shows that the two agree for every set of
  declarations. The check finds only what is in every closed set, by induction over
  the structs it is not yet inside of; and of the sets that the rules build up, a
  largest one is closed, and all of it is found.
- `FunctionShapes`: what the analyser takes for a context is what the source names so,
  at any depth (`AfterDotExpr`, by the nesting of the expression); a function that
  passes all checks has one context (`OneContext`), by which it is a write or a query,
  and its parameters were resolved one by one.
- `StorageKeepsSchema`: `TypeSurvives` shows level by level that a resolved type is
  stored in a readable form and read as it was; a schema is made of such types, and the
  checks of `Taken` are those the analysis made of the same schema.

**State of a contract** (`TypedContract_proofs`, second part). `CodecTypeInv` (types of
what is live, stored and meant) holds for any strings. A walk over a value keeps its shape
(`WalksKeepValues`, `WalksKeepTypes`), so that extracting, writing, reading and building
keep types, and a value of an admitted type is one the codec converts
(`KeptConverts`): there the analyser's rules are compared with the codec's, level by
level. `CodecInv` adds that `snapshot` is the capture of `meant`, that it is within
limits, and that the values a body leaves are `Proper`: no key comes twice in a map, and
nothing is in a nil one. It rests on four facts about values:

- an extracted value has the keys of its maps in ascending order (`ExtractIsSorted`),
  and writing, reading and building leave such a value alone (`SortedIsFixed`), so
  what is restored is exactly what was stored, which was within limits;
- two proper values have the same extract if and only if they are the same up to the order
  of maps (`SameIsExtract`, `ExtractTells`): a capture tells all that `SameValue` tells,
  and nothing else. Rebuilding a map in another order is no mutation, and any other
  change is one;
- a sequence of keys in ascending order is determined by its set (`AscendingUnique`);
- the JSON a query returns is the same for a value and its extract
  (`JSONOfExtract`).

`Invalid = {}` is needed: with strings that are not UTF-8 the codec does replace
text and may make two keys one. `codec_text` shows it, and the three theorems that
assume it say what holds for contracts whose strings are UTF-8. `CodecTypeCorrect` holds
either way.

The assumptions are those of the modules (`FactsAssumption`,
`ProcessingAssumption`, `QueryAssumption`, `DigesterAssumption`,
`SchemaStoreAssumption`, `DesignAssumption`, `WorkersAreFinite`, `StdlibAssumption`,
`PackagesAreFinite`, `PathsAreSorted`, `ImportAssumption`, `NestingAssumption`,
`StringsAssumption`, `SchemaAssumption`, `CodecAssumption`): types of the constants,
that `None` and its like are none of the values, that a registration has the one item
`Initialize`, that paths are ordered, that goroutines, packages and declarations are
finite in number, and that the literals of the modules are strings (a fact of TLA+ that
the provers do not have). TLC evaluates all of them in the runs.

Model-checked only: the liveness properties (`ProposalResolves`, `RequestsAreAnswered`,
`EventuallyDigested`, `DigestReachesHead`), which need fairness and `ENABLED`, outside
the prover's reach. The three violations are counterexamples and need no proof. Every
invariant and every safety property of the passing runs is a theorem.

## 5. Not modelled

- *Encoding* of facts, states and designs in JSON and BSON: record layouts
  without state of their own. The vendored Gno standard library.
- *The Gno language and machine.* A body is what it does to the history of its
  contract. Allocation limits, panics and type errors are failing bodies.
- *Byte limits* of keys and values, hashes and signatures of facts; the parsing
  of numbers in call data.
- *Balances and accounts* the host ABI reads; only the height of those reads.
- *Sharing*: two globals of a contract may hold the same map or slice, which
  capture and restore separate. Values of `SnapshotCodec` are trees.
- *Parsing of a source*, its size, and positions and wording of errors; the text of
  the packages of the standard library.
- *Documents of the digest*: which documents a block yields, and the HTTP handlers
  that read them with a response cache in front. Of the read faults of the digest
  database only that of the manifest is a step, whose error the code drops
  (`ManifestUnread`); one that is returned ends the attempt like a failed write.
- *Items of a block* in an import: a height is one item and one file. Items of one
  block served at different times, or some of them saved and others not, are the
  height that is not valid or not finished. A batch of heights that fails
  (`ValidationFails`) is taken to wait for the loads, saves and checks it started.
- *The rest of the command line*: sequential programs over the framework's storage
  and network. The storage an import writes to is the framework's.

## 6. Plan

Order of work, most important behaviour first; all but 11 and 12 are done.

1. `ContractFacts`, `ContractProcessing`, `ContractLedger` and the inductive
   invariant with its proofs.
2. `ContractQuery`: a query against a moving chain.
3. `Digester`: worker and follow-up.
4. Type invariants, safety, liveness and mutations for all of them.
5. `GnoTypes`, `TypedSchema`: admission of a source, against reference
   definitions over small declarations and signatures.
6. `SnapshotCodec`: capture and restore of what is admitted.
7. `SchemaStore`, `PersistedSchema`: the cached and the persisted schema against an
   analysis under the current rule set.
8. `StdlibPackages` and `BlockImport`, each with its proofs.
9. Proofs of the history of a contract and the refinement, of queries and of the
   digest.
10. Proofs of `AnalysedOnce`, of what machines get of the standard library, and of the
    properties of schemas and snapshots, whose types and values are trees.
11. `CallArguments`: limits and building of arguments, for both forms of a call.
12. `DigestDocuments` and the reads of the HTTP handlers.
