------------------------------- MODULE Digester -------------------------------
(***************************************************************************)
(* Digesting saved blocks into the document store the HTTP API reads.      *)
(*                                                                         *)
(* Two digesters do the same job: the worker of the Digester daemon, fed   *)
(* through blockChan with blocks saved while syncing, and the follow-up,   *)
(* run at start and for every block confirmed by consensus, which digests  *)
(* everything after the last digested block.  Nothing keeps the two apart: *)
(* the lock of the Digester is the worker's own.                           *)
(*                                                                         *)
(* The documents of a block are written in one transaction, so all that    *)
(* counts is how often each block was written.                             *)
(***************************************************************************)
EXTENDS Integers, Sequences

CONSTANTS
    MaxHeight,  \* bound: height of the last block of a run
    Unreadable, \* heights whose block items are not in local storage
    Capacity,   \* capacity of blockChan, 200 in the code
    Retries,    \* attempts of the worker at a block, 15 in the code
    MaxFaults,  \* bound: failing writes of a block and reads of a manifest
    MaxCrashes  \* bound: crashes of the node

Heights == 0..MaxHeight

ASSUME DigesterAssumption ==
    /\ MaxHeight \in Nat
    /\ Unreadable \subseteq Heights
    /\ Capacity \in Nat \ {0}
    /\ Retries \in Nat \ {0}
    /\ MaxFaults \in Nat
    /\ MaxCrashes \in Nat

NilHeight == -1

Digesting == {"worker", "followUp"}

VARIABLES
    node,      \* "down", "starting" or "up"
    head,      \* the last block in the node's storage
    docs,      \* how often the documents of each block are stored
    lastBlock, \* the last digested block, as stored
    confirmed, \* confirmed blocks whose callback has not run
    synced,    \* number of synced blocks whose callback has not run
    senders,   \* goroutines waiting to send, by the block they send
    queue,     \* blockChan
    pc, at,    \* what each digester does, and with which block
    until,     \* the block the follow-up ends with
    tries,     \* attempts of the worker at its block
    overlapped,\* history: blocks both digesters were writing at a time
    misread,   \* history: how often a stored manifest could not be read
    fetched,   \* history: whether a block was saved by syncing
    abandoned, \* history: blocks the worker gave up
    faults, crashes

stored   == <<head, docs, lastBlock>>
incoming == <<confirmed, synced, senders, queue>>
work     == <<pc, at, until, tries>>
repeats  == <<overlapped, misread>>
counters == <<fetched, abandoned, faults, crashes>>
vars     == <<node, stored, incoming, work, repeats, counters>>

Init ==
    /\ node = "down"
    /\ head = NilHeight
    /\ docs = [h \in Heights |-> 0]
    /\ lastBlock = NilHeight
    /\ confirmed = <<>>
    /\ synced = 0
    /\ senders = [h \in Heights |-> 0]
    /\ queue = <<>>
    /\ pc = [d \in Digesting |-> "idle"]
    /\ at = [d \in Digesting |-> 0]
    /\ until = 0
    /\ tries = 0
    /\ overlapped = {}
    /\ misread = [h \in Heights |-> 0]
    /\ fetched = FALSE
    /\ abandoned = {}
    /\ faults = 0
    /\ crashes = 0

---------------------------------------------------------------------------
(* Blocks arrive.                                                          *)

SaveByConsensus ==
    /\ node = "up"
    /\ head < MaxHeight
    /\ head' = head + 1
    /\ confirmed' = Append(confirmed, head + 1)
    /\ UNCHANGED <<node, docs, lastBlock, synced, senders, queue, work,
                   repeats, counters>>

SaveBySyncing ==
    /\ node = "up"
    /\ head < MaxHeight
    /\ head' = head + 1
    /\ synced' = synced + 1
    /\ fetched' = TRUE
    /\ UNCHANGED <<node, docs, lastBlock, confirmed, senders, queue, work,
                   repeats, abandoned, faults, crashes>>

(* whenBlockSaved: a goroutine sends what is the last block by then, which *)
(* need not be the block the callback is for.                              *)
WhenBlockSaved ==
    /\ synced > 0
    /\ synced' = synced - 1
    /\ senders' = [senders EXCEPT ![head] = @ + 1]
    /\ UNCHANGED <<node, stored, confirmed, queue, work, repeats, counters>>

(* Digest: goroutines send in any order, and wait while the channel is full. *)
Digest(h) ==
    /\ senders[h] > 0
    /\ Len(queue) < Capacity
    /\ senders' = [senders EXCEPT ![h] = @ - 1]
    /\ queue' = Append(queue, h)
    /\ UNCHANGED <<node, stored, confirmed, synced, work, repeats, counters>>

Take ==
    /\ node = "up"
    /\ pc["worker"] = "idle"
    /\ queue # <<>>
    /\ queue' = Tail(queue)
    /\ pc' = [pc EXCEPT !["worker"] = "check"]
    /\ at' = [at EXCEPT !["worker"] = Head(queue)]
    /\ tries' = 1
    /\ UNCHANGED <<node, stored, confirmed, synced, senders, until, repeats,
                   counters>>

---------------------------------------------------------------------------
(* The follow-up.                                                          *)

(* Mutation: the follow-up digests the block it was called for only. *)
FollowUpFromItself(h) == h

(* The follow-up starts with the last digested block, to be sure of it. *)
FollowUpFrom(h) == IF lastBlock < 0 THEN 0 ELSE lastBlock

FollowUp(h) ==
    /\ pc' = [pc EXCEPT !["followUp"] = "check"]
    /\ at' = [at EXCEPT !["followUp"] = FollowUpFrom(h)]
    /\ until' = h
    /\ UNCHANGED tries

(* digestFollowup for a confirmed block *)
WhenNewBlockConfirmed ==
    /\ node = "up"
    /\ pc["followUp"] = "idle"
    /\ confirmed # <<>>
    /\ confirmed' = Tail(confirmed)
    /\ IF Head(confirmed) <= lastBlock THEN UNCHANGED work
                                       ELSE FollowUp(Head(confirmed))
    /\ UNCHANGED <<node, stored, synced, senders, queue, repeats, counters>>

(* Mutation: a starting node does not follow up. *)
StartUnfollowed ==
    /\ node = "down"
    /\ node' = "up"
    /\ UNCHANGED <<stored, incoming, work, repeats, counters>>

(* PdigesterFollowUp: a starting node first digests what it has missed. *)
Start ==
    /\ node = "down"
    /\ IF head > lastBlock THEN node' = "starting" /\ FollowUp(head)
                           ELSE node' = "up" /\ UNCHANGED work
    /\ UNCHANGED <<stored, incoming, repeats, counters>>

Forget ==
    /\ node' = "down"
    /\ confirmed' = <<>>
    /\ synced' = 0
    /\ senders' = [h \in Heights |-> 0]
    /\ queue' = <<>>
    /\ pc' = [d \in Digesting |-> "idle"]
    /\ at' = [d \in Digesting |-> 0]
    /\ until' = 0
    /\ tries' = 0

Crash ==
    /\ node # "down"
    /\ crashes < MaxCrashes
    /\ crashes' = crashes + 1
    /\ Forget
    /\ UNCHANGED <<stored, repeats, fetched, abandoned, faults>>

---------------------------------------------------------------------------
(* Digesting one block.                                                    *)

(* A digester is through: what it worked with is gone. *)
Rest(d) ==
    /\ pc' = [pc EXCEPT ![d] = "idle"]
    /\ at' = [at EXCEPT ![d] = 0]
    /\ IF d = "followUp" THEN until' = 0 /\ UNCHANGED tries
                         ELSE tries' = 0 /\ UNCHANGED until

(* The worker waits for its next block, the follow-up goes on to the next  *)
(* height or ends; a starting node is then up.                             *)
NextBlock(d) ==
    IF d = "followUp" /\ at[d] < until
    THEN /\ pc' = [pc EXCEPT ![d] = "check"]
         /\ at' = [at EXCEPT ![d] = @ + 1]
         /\ UNCHANGED <<node, until, tries>>
    ELSE /\ Rest(d)
         /\ node' = IF d = "followUp" THEN "up" ELSE node

(* Mutation: an error while writing a block goes unnoticed. *)
FailUnnoticed(d) ==
    /\ pc' = [pc EXCEPT ![d] = "mark"]
    /\ UNCHANGED <<node, incoming, at, until, tries, abandoned>>

TryAgain(d) ==
    /\ pc' = [pc EXCEPT ![d] = "check"]
    /\ tries' = tries + 1
    /\ UNCHANGED <<node, incoming, at, until, abandoned>>

GiveUp(d) ==
    /\ Rest(d)
    /\ abandoned' = abandoned \cup {at[d]}
    /\ UNCHANGED <<node, incoming>>

EndNode == Forget /\ UNCHANGED abandoned

(* Mutation: the worker drops a block at the first error. *)
FailWithoutRetry(d) ==
    IF d = "followUp" THEN EndNode
    ELSE Rest(d) /\ UNCHANGED <<node, incoming, abandoned>>

(* Mutation: the worker counts its attempts from zero. *)
FailOnceMore(d) ==
    IF d = "followUp" THEN EndNode
    ELSE IF tries <= Retries THEN TryAgain(d) ELSE GiveUp(d)

(* The worker tries again and gives up after the last attempt, with        *)
(* nothing but a log entry; a failing follow-up ends the node.             *)
Fail(d) ==
    IF d = "followUp" THEN EndNode
    ELSE IF tries < Retries THEN TryAgain(d) ELSE GiveUp(d)

(* Block items that are not found fail the worker; the follow-up skips the *)
(* height.                                                                 *)
ItemsNotFound(d) ==
    /\ pc[d] = "check"
    /\ at[d] \in Unreadable
    /\ IF d = "worker" THEN Fail(d) ELSE NextBlock(d) /\ UNCHANGED <<incoming, abandoned>>
    /\ UNCHANGED <<stored, repeats, fetched, faults, crashes>>

(* A block the other digester is about to write. *)
NoteOverlap(d) ==
    overlapped' = overlapped \cup
        {at[d] : e \in {e \in Digesting \ {d} :
                          pc[e] = "write" /\ at[e] = at[d]}}

(* Mutation: documents are written without a look at the manifests. *)
CheckManifestNever(d) ==
    /\ pc[d] = "check"
    /\ at[d] \notin Unreadable
    /\ pc' = [pc EXCEPT ![d] = "write"]
    /\ NoteOverlap(d)
    /\ UNCHANGED <<node, stored, incoming, at, until, tries, misread, counters>>

(* DigestBlock: a block whose manifest is stored is not written again. *)
CheckManifest(d) ==
    /\ pc[d] = "check"
    /\ at[d] \notin Unreadable
    /\ pc' = [pc EXCEPT ![d] = IF docs[at[d]] > 0 THEN "mark" ELSE "write"]
    /\ NoteOverlap(d)
    /\ UNCHANGED <<node, stored, incoming, at, until, tries, misread, counters>>

(* An error of ManifestByHeight is dropped: the block counts as not        *)
(* stored, which makes a difference where it is.                           *)
ManifestUnread(d) ==
    /\ pc[d] = "check"
    /\ at[d] \notin Unreadable
    /\ docs[at[d]] > 0
    /\ faults < MaxFaults
    /\ faults' = faults + 1
    /\ misread' = [misread EXCEPT ![at[d]] = @ + 1]
    /\ pc' = [pc EXCEPT ![d] = "write"]
    /\ NoteOverlap(d)
    /\ UNCHANGED <<node, stored, incoming, at, until, tries, fetched, abandoned,
                   crashes>>

(* BlockSession.Prepare and Commit, in one transaction. *)
Commit(d) ==
    /\ pc[d] = "write"
    /\ docs' = [docs EXCEPT ![at[d]] = @ + 1]
    /\ pc' = [pc EXCEPT ![d] = "mark"]
    /\ UNCHANGED <<node, head, lastBlock, incoming, at, until, tries,
                   repeats, counters>>

(* Nothing is written, which items that cannot be read come to as well, or *)
(* a block is stored and cannot be marked.                                 *)
DigestFails(d) ==
    /\ pc[d] \in {"write", "mark"}
    /\ faults < MaxFaults
    /\ faults' = faults + 1
    /\ Fail(d)
    /\ UNCHANGED <<stored, repeats, fetched, crashes>>

(* The database may or may not let the last block go back. *)
SetLastBlock(d) ==
    /\ pc[d] = "mark"
    /\ lastBlock' \in IF at[d] > lastBlock THEN {at[d]} ELSE {at[d], lastBlock}
    /\ NextBlock(d)
    /\ UNCHANGED <<head, docs, incoming, repeats, counters>>

DigestStep(d) ==
    \/ ItemsNotFound(d)
    \/ CheckManifest(d)
    \/ ManifestUnread(d)
    \/ Commit(d)
    \/ DigestFails(d)
    \/ SetLastBlock(d)

Next ==
    \/ SaveByConsensus
    \/ SaveBySyncing
    \/ WhenBlockSaved
    \/ \E h \in Heights : Digest(h)
    \/ Take
    \/ WhenNewBlockConfirmed
    \/ Start
    \/ Crash
    \/ \E d \in Digesting : DigestStep(d)

Spec == Init /\ [][Next]_vars

(* A node that is down is started again, callbacks and goroutines run, and *)
(* neither digester is kept waiting.                                       *)
FairSpec ==
    /\ Spec
    /\ WF_vars(Start)
    /\ WF_vars(WhenBlockSaved)
    /\ \A h \in Heights : WF_vars(Digest(h))
    /\ WF_vars(Take)
    /\ WF_vars(WhenNewBlockConfirmed)
    /\ \A d \in Digesting : WF_vars(DigestStep(d))

---------------------------------------------------------------------------
PC == {"idle", "check", "write", "mark"}

(* Every variable stays in its type. *)
TypeOK ==
    /\ node \in {"down", "starting", "up"}
    /\ head \in Heights \cup {NilHeight}
    /\ docs \in [Heights -> Nat]
    /\ lastBlock \in Heights \cup {NilHeight}
    /\ confirmed \in Seq(Heights)
    /\ synced \in Nat
    /\ senders \in [Heights -> Nat]
    /\ queue \in Seq(Heights)
    /\ Len(queue) <= Capacity
    /\ pc \in [Digesting -> PC]
    /\ at \in [Digesting -> Heights]
    /\ until \in Heights
    /\ tries \in 0..Retries
    /\ overlapped \subseteq Heights
    /\ misread \in [Heights -> Nat]
    /\ fetched \in BOOLEAN
    /\ abandoned \subseteq Heights
    /\ faults \in Nat
    /\ crashes \in Nat

(* The last digested block has its documents: whatever failed or crashed,  *)
(* SetLastBlock never told the API of a block it cannot show.              *)
LastBlockDigested == lastBlock # NilHeight => docs[lastBlock] > 0

(* However often a block is retried, recovered and followed up, it is      *)
(* written once; it is written once more only if both digesters were       *)
(* writing it at a time, as the manifest is checked outside the            *)
(* transaction that inserts it, and once more for each time its stored     *)
(* manifest could not be read.                                             *)
DigestedOnce ==
    \A h \in Heights :
        docs[h] <= 1 + (IF h \in overlapped THEN 1 ELSE 0) + misread[h]

(* As long as a node is fed by consensus alone, it writes the readable     *)
(* blocks in order, without gaps, across faults and crashes.               *)
DigestsInOrder ==
    [][~fetched => \A h \in Heights : docs'[h] > docs[h] =>
          \A k \in (0..h-1) \ Unreadable : docs[k] > 0]_<<docs, fetched>>

(* A node fed by consensus alone digests every block in the end. *)
EventuallyDigested ==
    \A h \in Heights \ Unreadable : head >= h ~> docs[h] > 0 \/ fetched

(* Also when blocks come by syncing, and in whatever order, the block the  *)
(* chain rests at is digested, if not every block below it: unless the     *)
(* worker used all its attempts at it, after which only the next block or  *)
(* the next start comes back to it; and the next start does, so what was   *)
(* given up is not lost for good at the head of the chain.                 *)
DigestReachesHead ==
    \A h \in Heights \ Unreadable :
        /\ head = h ~> docs[h] > 0 \/ head > h \/ h \in abandoned
        /\ node = "down" /\ head = h ~> docs[h] > 0 \/ head > h
=============================================================================
